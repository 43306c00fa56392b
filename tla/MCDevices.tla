----------------------------- MODULE MCDevices ------------------------------
(***************************************************************************)
(* The parts of the machine that are modelled by steps and share nothing:  *)
(* the motor of a disk drive, the controller of the drives, the keyboard,  *)
(* the standard input card, and the power with the processor.  A behaviour *)
(* is one of one of them, the others stay as they were at the start; so    *)
(* TLC checks the five specifications side by side, each with its fairness, *)
(* and not their product.                                                  *)
(***************************************************************************)
EXTENDS MCStepperMotor, DiskController, Keyboard, StdinCard, MCMotherboard

VARIABLE device   \* the one that is running

deviceVars == <<motorVars, vars, keyboardVars, stdinVars, machineVars, device>>

\* The latch and the processor are not initialised, which only matters where they
\* are looked at.
DevicesInit ==
  /\ device \in {"motor", "controller", "keyboard", "stdin", "processor"}
  /\ MotorInit /\ Init /\ KeyboardInit /\ StdinInit /\ MachineInit
  /\ device # "keyboard" => ~latch.strobe
  /\ device # "processor" => cpu = CHOOSE c \in Unpowered : TRUE

DevicesNext ==
  /\ UNCHANGED device
  /\ \/ device = "motor" /\ MotorNext
        /\ UNCHANGED <<vars, keyboardVars, stdinVars, machineVars>>
     \/ device = "controller" /\ Next
        /\ UNCHANGED <<motorVars, keyboardVars, stdinVars, machineVars>>
     \/ device = "keyboard" /\ KeyboardNext
        /\ UNCHANGED <<motorVars, vars, stdinVars, machineVars>>
     \/ device = "stdin" /\ StdinNext
        /\ UNCHANGED <<motorVars, vars, keyboardVars, machineVars>>
     \/ device = "processor" /\ MachineNext
        /\ UNCHANGED <<motorVars, vars, keyboardVars, stdinVars>>

\* The fairness of FairMotorSpec, FairSpec, FairStdinSpec and FairMachineSpec.
FairDevices ==
  /\ DevicesInit /\ [][DevicesNext]_deviceVars
  /\ WF_motorVars(device = "motor" /\ MotorTick)
  /\ WF_vars(device = "controller" /\ Cycle)
  /\ WF_stdinVars(device = "stdin" /\ (Push \/ MoveEnd \/ FillCell))
  /\ WF_stdinVars(device = "stdin" /\ Call)
  /\ WF_stdinVars(device = "stdin" /\ Poll)
  /\ WF_machineVars(device = "processor" /\ Tick)
=============================================================================
