---------------------------- MODULE DriveProofs ----------------------------
(***************************************************************************)
(* Proofs about Drive for all delays and all environments: type            *)
(* correctness, and, when no protection comes in the middle of a call of   *)
(* the main loop, TripIsSafe and TripLatched.  TripIsSafe speaks of the    *)
(* moments between two calls; what is inductive is that a tripped drive    *)
(* is safe at every step of a call, because the call in progress holds     *)
(* only operations that move nothing (TripInv).                            *)
(***************************************************************************)
EXTENDS Drive, SequenceTheorems, TLAPS

\* What a call may still do when the drive is tripped.
Harmless == {"set_override", "close_brake", "disconnect_motor", "estop", "clear_stopping",
             "clear_speed", "trip_exe", "stop_enter"}

\* The outputs of a tripped drive.
Safe == override /\ ~brake /\ ~motor.connect /\ (motor.stage = 1 => motor.disconnect)

Elements(s) == {s[i] : i \in 1..Len(s)}

\* The motor is never asked to connect and to disconnect at once.
Exclusive == ~(motor.connect /\ motor.disconnect)

\* A tripped drive is safe, and stays tripped while there is a fault.
TripInv ==
    vfdstate = "trip_exe" =>
        /\ Safe
        /\ Elements(todo) \subseteq Harmless
        /\ fault # "none" => "stop_enter" \notin Elements(todo)

-----------------------------------------------------------------------------
\* The delays are numbers.
LEMMA DelayTypes ==
    /\ SC_STEPS \in Nat /\ SC_STEPS > 0 /\ HOLD \in Nat /\ MOVE \in Nat /\ RELEASE \in Nat
    /\ DCBREAK \in Nat /\ DECAY \in Nat /\ CATCH_UP \in Nat
BY DriveAssumption DEF DriveAssumption

\* Putting a sequence in front of another adds its elements.
LEMMA ConcatElements ==
    ASSUME NEW a \in Seq(Ops), NEW b \in Seq(Ops)
    PROVE  a \o b \in Seq(Ops) /\ Elements(a \o b) \subseteq Elements(a) \cup Elements(b)
<1>1. /\ a \o b \in Seq(Ops) /\ Len(a \o b) = Len(a) + Len(b) /\ Len(a) \in Nat /\ Len(b) \in Nat
      /\ \A i \in 1..Len(a \o b) : (a \o b)[i] = IF i <= Len(a) THEN a[i] ELSE b[i - Len(a)]
  OBVIOUS
<1>2. ASSUME NEW i \in 1..Len(a \o b)
      PROVE  (a \o b)[i] \in Elements(a) \cup Elements(b)
  <2>1. CASE i <= Len(a)
    BY <1>1, <2>1 DEF Elements
  <2>2. CASE i > Len(a)
    <3>1. i - Len(a) \in 1..Len(b) /\ (a \o b)[i] = b[i - Len(a)]
      BY <1>1, <2>2
    <3> QED
      BY <3>1 DEF Elements
  <2> QED
    BY <1>1, <2>1, <2>2
<1> QED
  BY <1>1, <1>2 DEF Elements

\* What is left of a call after its first operation.
LEMMA TailElements ==
    ASSUME todo \in Seq(Ops), todo # <<>>
    PROVE  /\ Tail(todo) \in Seq(Ops)
           /\ Elements(Tail(todo)) \subseteq Elements(todo)
           /\ Head(todo) \in Elements(todo) /\ Head(todo) \in Ops
<1>1. /\ Tail(todo) \in Seq(Ops) /\ Len(Tail(todo)) = Len(todo) - 1
      /\ Len(todo) \in Nat /\ Len(todo) > 0
      /\ \A i \in 1..Len(Tail(todo)) : Tail(todo)[i] = todo[i + 1]
      /\ Head(todo) = todo[1] /\ Head(todo) \in Ops
  OBVIOUS
<1>2. \A i \in 1..Len(Tail(todo)) : i + 1 \in 1..Len(todo)
  BY <1>1
<1> QED
  BY <1>1, <1>2 DEF Elements

\* A step of a call replaces its first operation by others.
LEMMA ThenElements ==
    ASSUME todo \in Seq(Ops), todo # <<>>, NEW ops \in Seq(Ops), Then(ops)
    PROVE  todo' \in Seq(Ops) /\ Elements(todo') \subseteq Elements(ops) \cup Elements(todo)
<1>1. Tail(todo) \in Seq(Ops) /\ Elements(Tail(todo)) \subseteq Elements(todo)
  BY TailElements
<1>2. /\ ops \o Tail(todo) \in Seq(Ops)
      /\ Elements(ops \o Tail(todo)) \subseteq Elements(ops) \cup Elements(Tail(todo))
  BY <1>1, ConcatElements
<1>3. todo' = ops \o Tail(todo)
  BY DEF Then
<1> QED
  BY <1>1, <1>2, <1>3

\* The elements of the calls that a tripped drive accepts.
LEMMA CallElements ==
    /\ Elements(<<>>) = {}
    /\ \A op : Elements(<<op>>) = {op}
    /\ states_estop \in Seq(Ops) /\ states_estop \o <<"clear_speed">> \in Seq(Ops)
    /\ Elements(states_estop) \subseteq {"set_override", "close_brake", "estop", "clear_stopping"}
    /\ Elements(states_estop \o <<"clear_speed">>)
         \subseteq {"set_override", "close_brake", "estop", "clear_stopping", "clear_speed"}
<1>1. Elements(<<>>) = {}
  BY DEF Elements
<1>2. ASSUME NEW op PROVE Elements(<<op>>) = {op}
  <2>1. Len(<<op>>) = 1 /\ <<op>>[1] = op
    OBVIOUS
  <2>2. 1..1 = {1}
    OBVIOUS
  <2> QED
    BY <2>1, <2>2 DEF Elements
<1>3. /\ states_estop \in Seq(Ops) /\ Len(states_estop) = 4
      /\ states_estop[1] = "set_override" /\ states_estop[2] = "close_brake"
      /\ states_estop[3] = "estop" /\ states_estop[4] = "clear_stopping"
  <2>1. {"set_override", "close_brake", "estop", "clear_stopping"} \subseteq Ops
    BY DEF Ops
  <2>2. states_estop \in Seq(Ops)
    BY <2>1 DEF states_estop
  <2>3. Len(states_estop) = 4
    BY DEF states_estop
  <2>4. /\ states_estop[1] = "set_override" /\ states_estop[2] = "close_brake"
        /\ states_estop[3] = "estop" /\ states_estop[4] = "clear_stopping"
    BY DEF states_estop
  <2> QED
    BY <2>2, <2>3, <2>4
<1>4. Elements(states_estop)
        \subseteq {"set_override", "close_brake", "estop", "clear_stopping"}
  <2>1. \A i \in 1..4 : i = 1 \/ i = 2 \/ i = 3 \/ i = 4
    OBVIOUS
  <2> QED
    BY <1>3, <2>1 DEF Elements
<1>5. <<"clear_speed">> \in Seq(Ops)
  BY DEF Ops
<1>6. /\ states_estop \o <<"clear_speed">> \in Seq(Ops)
      /\ Elements(states_estop \o <<"clear_speed">>)
           \subseteq Elements(states_estop) \cup Elements(<<"clear_speed">>)
  BY <1>3, <1>5, ConcatElements
<1>7. Elements(<<"clear_speed">>) = {"clear_speed"}
  BY <1>2
<1>8. Elements(states_estop \o <<"clear_speed">>)
        \subseteq {"set_override", "close_brake", "estop", "clear_stopping", "clear_speed"}
  BY <1>4, <1>6, <1>7
<1> QED
  BY <1>1, <1>2, <1>3, <1>4, <1>6, <1>8

\* A conditional sequence, and every short sequence of operations, is a call.
LEMMA CallTypes ==
    /\ <<>> \in Seq(Ops)
    /\ \A a \in Ops : <<a>> \in Seq(Ops)
    /\ \A a, b \in Ops : <<a, b>> \in Seq(Ops)
    /\ \A a, b, c \in Ops : <<a, b, c>> \in Seq(Ops)
    /\ \A c, s : s \in Seq(Ops) => If(c, s) \in Seq(Ops)
    /\ States \subseteq Ops
BY DEF If, Ops

\* Every step of a call replaces its first operation by some others.
LEMMA OperationCall ==
    ASSUME Operation
    PROVE  todo # <<>> /\ \E ops \in Seq(Ops) : Then(ops)
<1> USE CallTypes
<1>1. CASE Outputs
  BY <1>1 DEF Outputs, Idle
<1>2. CASE init_exe
  BY <1>2 DEF init_exe, At, Idle, Ops
<1>3. CASE stop_enter
  BY <1>3 DEF stop_enter, At, Idle, Ops
<1>4. CASE stop_exe
  <2> DEFINE letGo == <<"set_override", "disconnect_motor", "clear_stopping">>
             decaying == VectorControl /\ (timer.decay = 0 \/ timer.decay < DECAY)
             ops == <<"close_brake">> \o If(~decaying, letGo) \o <<"csc_enter">>
  <2>1. <<"close_brake">> \in Seq(Ops) /\ <<"csc_enter">> \in Seq(Ops) /\ letGo \in Seq(Ops)
        /\ <<"close_brake", "csc_enter">> \in Seq(Ops)
    BY DEF Ops
  <2>2. If(~decaying, letGo) \in Seq(Ops)
    BY <2>1
  <2>3. <<"close_brake">> \o If(~decaying, letGo) \in Seq(Ops)
    BY <2>1, <2>2, ConcatElements
  <2>4. ops \in Seq(Ops)
    BY <2>1, <2>3, ConcatElements
  <2>5. Then(<<"csc_enter">>) \/ Then(<<"close_brake", "csc_enter">>) \/ Then(ops)
    BY <1>4 DEF stop_exe
  <2> HIDE DEF ops
  <2> QED
    BY <1>4, <2>1, <2>4, <2>5 DEF stop_exe, At, Idle
<1>5. CASE csc_enter
  BY <1>5 DEF csc_enter, At, Idle
<1>6. CASE csc_exe
  BY <1>6 DEF csc_exe, At, Idle, Ops
<1>7. CASE scCheck_exe
  BY <1>7 DEF scCheck_exe, At, Idle, Ops
<1>8. CASE stop_exit
  BY <1>8 DEF stop_exit, At, Idle, Ops
<1>9. CASE hold
  <2>1. <<"clear_override">> \in Seq(Ops) /\ <<"permission">> \in Seq(Ops)
    BY DEF Ops
  <2>2. \A c : <<"clear_override">> \o If(c, <<"permission">>) \in Seq(Ops)
    BY <2>1, ConcatElements
  <2> QED
    BY <1>9, <2>2 DEF hold, At, Idle
<1>10. CASE permission
  BY <1>10 DEF permission, At, Idle, Ops
<1>11. CASE move
  BY <1>11 DEF move, At, Idle, Ops
<1>12. CASE active_enter
  BY <1>12, ConcatElements DEF active_enter, At, Idle, Ops
<1>13. CASE activate
  BY <1>13 DEF activate, At, Idle, Ops
<1>14. CASE active_exe
  BY <1>14, ConcatElements DEF active_exe, At, Idle, Ops
<1>15. CASE active_exit
  BY <1>15 DEF active_exit, At, Idle, Ops
<1>16. CASE trip_exe
  BY <1>16 DEF trip_exe, At, Idle, Ops
<1>17. CASE tune_enter
  BY <1>17, ConcatElements DEF tune_enter, At, Idle, Ops
<1>18. CASE tune
  BY <1>18 DEF tune, At, Idle, Ops
<1>19. CASE tune_state
  BY <1>19 DEF tune_state, At, Idle
<1>20. CASE tune_exe
  BY <1>20, ConcatElements DEF tune_exe, At, Idle, Ops
<1>21. CASE tune_exit
  BY <1>21 DEF tune_exit, At, Idle, Ops
<1>22. CASE estop
  BY <1>22 DEF estop, At, Idle, Ops
<1>23. CASE clear_stopping
  BY <1>23 DEF clear_stopping, At, Idle
<1>24. CASE clear_speed
  BY <1>24 DEF clear_speed, At, Idle
<1> QED
  BY <1>1, <1>2, <1>3, <1>4, <1>5, <1>6, <1>7, <1>8, <1>9, <1>10, <1>11, <1>12, <1>13, <1>14,
     <1>15, <1>16, <1>17, <1>18, <1>19, <1>20, <1>21, <1>22, <1>23, <1>24 DEF Operation

\* The timers run up to their delays and are reset.
LEMMA ReadyType == Ready \in Timers
BY DelayTypes DEF Ready, Timers

LEMMA TimerUpdates ==
    ASSUME NEW t \in Timers
    PROVE  /\ [t EXCEPT !.hold = 0, !.move = 0] \in Timers
           /\ [t EXCEPT !.hold = 0] \in Timers
           /\ t.hold < HOLD => [t EXCEPT !.hold = t.hold + 1] \in Timers
           /\ t.move <= MOVE => [t EXCEPT !.move = t.move + 1] \in Timers
           /\ t.release < RELEASE => [t EXCEPT !.release = t.release + 1] \in Timers
           /\ t.dcbreak <= DCBREAK => [t EXCEPT !.dcbreak = t.dcbreak + 1] \in Timers
           /\ t.decay = 0 \/ t.decay < DECAY => [t EXCEPT !.decay = t.decay + 1] \in Timers
<1> USE DelayTypes
<1>1. /\ t.hold \in 0..HOLD /\ t.move \in 0..(MOVE + 1) /\ t.release \in 0..RELEASE
      /\ t.dcbreak \in 0..(DCBREAK + 1) /\ t.decay \in 0..(DECAY + 1)
  BY DEF Timers
<1>2. \A x \in 0..HOLD : [t EXCEPT !.hold = x] \in Timers
  BY DEF Timers
<1>3. \A x \in 0..(MOVE + 1) : [t EXCEPT !.move = x] \in Timers
  BY DEF Timers
<1>4. \A x \in 0..RELEASE : [t EXCEPT !.release = x] \in Timers
  BY DEF Timers
<1>5. \A x \in 0..(DCBREAK + 1) : [t EXCEPT !.dcbreak = x] \in Timers
  BY DEF Timers
<1>6. \A x \in 0..(DECAY + 1) : [t EXCEPT !.decay = x] \in Timers
  BY DEF Timers
<1>7. 0 \in 0..HOLD /\ 0 \in 0..(MOVE + 1)
  OBVIOUS
<1>8. [t EXCEPT !.hold = 0, !.move = 0] \in Timers
  BY <1>7 DEF Timers
<1>9. /\ t.hold < HOLD => t.hold + 1 \in 0..HOLD
      /\ t.move <= MOVE => t.move + 1 \in 0..(MOVE + 1)
      /\ t.release < RELEASE => t.release + 1 \in 0..RELEASE
      /\ t.dcbreak <= DCBREAK => t.dcbreak + 1 \in 0..(DCBREAK + 1)
      /\ t.decay = 0 \/ t.decay < DECAY => t.decay + 1 \in 0..(DECAY + 1)
  BY <1>1
<1> QED
  BY <1>2, <1>3, <1>4, <1>5, <1>6, <1>7, <1>8, <1>9

\* TypeOK holds of the first state and of every step of the program.
LEMMA TypeCorrectInit == Init => TypeOK
<1> SUFFICES ASSUME Init PROVE TypeOK
  OBVIOUS
<1>1. timer \in Timers
  BY ReadyType DEF Init
<1>2. motor \in Contactor
  BY DEF Init, Released, Contactor
<1>3. tuning \in BOOLEAN
  BY DriveAssumption DEF Init, DriveAssumption
<1>4. ref \in BOOLEAN /\ desired \in BOOLEAN /\ override \in BOOLEAN /\ brake \in BOOLEAN
      /\ is_stopping \in BOOLEAN /\ sc_testing \in BOOLEAN
      /\ softcharge \in BOOLEAN /\ enabled \in BOOLEAN
  BY Zenon DEF Init
<1>5. sc_steps \in 0..SC_STEPS /\ late \in 0..CATCH_UP
  BY DelayTypes DEF Init
<1>6. vfdstate \in States /\ fault \in {"none", "timed", "latched"} /\ todo \in Seq(Ops)
  BY DEF Init, States
<1> QED
  BY <1>1, <1>2, <1>3, <1>4, <1>5, <1>6 DEF TypeOK

\* Every operation of a call keeps the types.
LEMMA OperationType == TypeOK /\ Operation => TypeOK'
<1> SUFFICES ASSUME TypeOK, Operation PROVE TypeOK'
  OBVIOUS
<1>0. todo' \in Seq(Ops)
  <2>1. todo # <<>> /\ todo \in Seq(Ops)
    BY OperationCall DEF TypeOK
  <2>2. PICK ops \in Seq(Ops) : Then(ops)
    BY OperationCall
  <2> QED
    BY <2>1, <2>2, ThenElements
<1> USE DelayTypes
<1> HIDE DEF If
<1>1. CASE Outputs
  <2>1. override' \in BOOLEAN /\ brake' \in BOOLEAN
    BY <1>1 DEF Outputs, power, TypeOK
  <2>2. motor' \in Contactor
    BY <1>1 DEF Outputs, TypeOK, Contactor
  <2> QED
    BY <1>0, <1>1, <2>1, <2>2 DEF Outputs, TypeOK, speeds, check, inputs
<1>2. CASE init_exe
  BY <1>0, <1>2 DEF init_exe, TypeOK, speeds, power, check, inputs
<1>3. CASE stop_enter
  <2>1. timer' \in Timers
    BY <1>3, ReadyType, TimerUpdates DEF stop_enter, TypeOK
  <2> QED
    BY <1>0, <1>3, <2>1 DEF stop_enter, TypeOK, speeds, power, check, inputs, States
<1>4. CASE stop_exe
  <2>1. timer \in Timers /\ timer.dcbreak \in 0..(DCBREAK + 1)
    BY DEF TypeOK, Timers
  <2>2. timer' \in Timers
    <3>1. CASE timer.release < RELEASE
      BY <1>4, <2>1, <3>1, TimerUpdates DEF stop_exe
    <3>2. CASE ~(timer.release < RELEASE) /\ timer.dcbreak # DCBREAK
      <4>1. timer' = [timer EXCEPT !.dcbreak = IF timer.dcbreak < DCBREAK
                                               THEN timer.dcbreak + 1 ELSE timer.dcbreak]
        BY <1>4, <3>2 DEF stop_exe
      <4>2. CASE timer.dcbreak < DCBREAK
        <5>1. timer' = [timer EXCEPT !.dcbreak = timer.dcbreak + 1]
          BY <4>1, <4>2
        <5>2. timer.dcbreak <= DCBREAK
          BY <2>1, <4>2, DelayTypes
        <5> QED
          BY <2>1, <5>1, <5>2, TimerUpdates
      <4>3. CASE ~(timer.dcbreak < DCBREAK)
        <5>1. timer' = timer
          BY <2>1, <4>1, <4>3 DEF Timers
        <5> QED
          BY <2>1, <5>1
      <4> QED
        BY <4>2, <4>3
    <3>3. CASE ~(timer.release < RELEASE) /\ timer.dcbreak = DCBREAK
      <4>1. CASE VectorControl /\ (timer.decay = 0 \/ timer.decay < DECAY)
        <5>1. timer' = [timer EXCEPT !.decay = timer.decay + 1]
          BY <1>4, <3>3, <4>1 DEF stop_exe
        <5> QED
          BY <2>1, <4>1, <5>1, TimerUpdates
      <4>2. CASE ~(VectorControl /\ (timer.decay = 0 \/ timer.decay < DECAY))
        <5>1. timer' = [timer EXCEPT !.dcbreak = timer.dcbreak + 1]
          BY <1>4, <3>3, <4>2 DEF stop_exe
        <5>2. timer.dcbreak <= DCBREAK
          BY <2>1, <3>3, DelayTypes
        <5> QED
          BY <2>1, <5>1, <5>2, TimerUpdates
      <4> QED
        BY <4>1, <4>2
    <3> QED
      BY <3>1, <3>2, <3>3
  <2> QED
    BY <1>0, <1>4, <2>2 DEF stop_exe, TypeOK, speeds, power, check, inputs
<1>5. CASE csc_enter
  BY <1>0, <1>5 DEF csc_enter, TypeOK, speeds, power, inputs, States
<1>6. CASE csc_exe
  BY <1>0, <1>6 DEF csc_exe, TypeOK, speeds, power, inputs
<1>7. CASE scCheck_exe
  BY <1>0, <1>7 DEF scCheck_exe, TypeOK, speeds, power, inputs
<1>8. CASE stop_exit
  <2>1. timer' \in Timers
    BY <1>8, TimerUpdates DEF stop_exit, TypeOK
  <2> QED
    BY <1>0, <1>8, <2>1 DEF stop_exit, TypeOK, speeds, power, check, inputs
<1>9. CASE hold
  <2>1. timer' \in Timers
    BY <1>9, TimerUpdates DEF hold, TypeOK
  <2> QED
    BY <1>0, <1>9, <2>1 DEF hold, TypeOK, speeds, power, check, inputs
<1>10. CASE permission
  BY <1>0, <1>10 DEF permission, TypeOK, speeds, power, check, inputs
<1>11. CASE move
  <2>1. timer' \in Timers
    BY <1>11, TimerUpdates DEF move, TypeOK
  <2> QED
    BY <1>0, <1>11, <2>1 DEF move, TypeOK, speeds, power, check, inputs
<1>12. CASE active_enter
  BY <1>0, <1>12 DEF active_enter, TypeOK, speeds, power, check, inputs
<1>13. CASE activate
  <2>1. is_stopping' \in BOOLEAN
    BY <1>13, Zenon DEF activate
  <2>2. timer' \in Timers
    BY <1>13, TimerUpdates DEF activate, TypeOK
  <2> QED
    BY <1>0, <1>13, <2>1, <2>2 DEF activate, TypeOK, speeds, power, check, inputs, States
<1>14. CASE active_exe
  BY <1>0, <1>14 DEF active_exe, TypeOK, speeds, power, check, inputs
<1>15. CASE active_exit
  BY <1>0, <1>15 DEF active_exit, TypeOK, speeds, power, check, inputs
<1>16. CASE trip_exe
  BY <1>0, <1>16 DEF trip_exe, TypeOK, speeds, power, check, inputs
<1>17. CASE tune_enter
  BY <1>0, <1>17 DEF tune_enter, TypeOK, speeds, power, check, inputs
<1>18. CASE tune
  <2>1. is_stopping' \in BOOLEAN
    BY <1>18, Zenon DEF tune
  <2> QED
    BY <1>0, <1>18, <2>1 DEF tune, TypeOK, speeds, power, check, inputs
<1>19. CASE tune_state
  BY <1>0, <1>19 DEF tune_state, TypeOK, speeds, power, check, inputs, States
<1>20. CASE tune_exe
  BY <1>0, <1>20 DEF tune_exe, TypeOK, speeds, power, check, inputs
<1>21. CASE tune_exit
  BY <1>0, <1>21 DEF tune_exit, TypeOK, speeds, power, check, inputs
<1>22. CASE estop
  BY <1>0, <1>22 DEF estop, TypeOK, speeds, power, check, inputs
<1>23. CASE clear_stopping
  <2>1. is_stopping' \in BOOLEAN
    BY <1>23, Zenon DEF clear_stopping
  <2> QED
    BY <1>0, <1>23, <2>1 DEF clear_stopping, TypeOK, speeds, power, check, inputs
<1>24. CASE clear_speed
  <2>1. ref' \in BOOLEAN /\ desired' \in BOOLEAN
    BY <1>24, Zenon DEF clear_speed
  <2> QED
    BY <1>0, <1>24, <2>1 DEF clear_speed, TypeOK, power, check, inputs
<1> QED
  BY <1>1, <1>2, <1>3, <1>4, <1>5, <1>6, <1>7, <1>8, <1>9, <1>10, <1>11, <1>12, <1>13, <1>14,
     <1>15, <1>16, <1>17, <1>18, <1>19, <1>20, <1>21, <1>22, <1>23, <1>24 DEF Operation

\* Every step keeps the types.
LEMMA TypeCorrectStep == TypeOK /\ [Next]_vars => TypeOK'
<1> SUFFICES ASSUME TypeOK, [Next]_vars PROVE TypeOK'
  OBVIOUS
<1> USE DelayTypes
<1>1. CASE Operation
  BY <1>1, OperationType
<1>2. CASE vfd_states_handler
  <2>1. todo' \in Seq(Ops)
    BY <1>2, CallTypes DEF vfd_states_handler, TypeOK
  <2>2. late' \in 0..CATCH_UP
    BY <1>2 DEF vfd_states_handler, TypeOK
  <2> QED
    BY <1>2, <2>1, <2>2 DEF vfd_states_handler, TypeOK, speeds, power, check, inputs
<1>3. CASE vfd_estop
  <2>1. todo' \in Seq(Ops)
    BY <1>3, CallElements DEF vfd_estop
  <2> QED
    BY <1>3, <2>1 DEF vfd_estop, TypeOK, speeds, power, check, inputs
<1>4. CASE Run
  <2>1. ref' \in BOOLEAN
    BY <1>4, Zenon DEF Run
  <2> QED
    BY <1>4, <2>1 DEF Run, TypeOK, power, check, inputs
<1>5. CASE Stop
  <2>1. ref' \in BOOLEAN
    BY <1>5, Zenon DEF Stop
  <2> QED
    BY <1>5, <2>1 DEF Stop, TypeOK, power, check, inputs
<1>t. ASSUME states_trip
      PROVE  /\ vfdstate' \in States /\ override' \in BOOLEAN /\ brake' \in BOOLEAN
             /\ motor' \in Contactor
  <2>1. override' \in BOOLEAN /\ brake' \in BOOLEAN
    BY <1>t, Zenon DEF states_trip
  <2>2. vfdstate' \in States
    BY <1>t DEF states_trip, States
  <2>3. motor' \in Contactor
    BY <1>t DEF states_trip, TypeOK, Contactor
  <2> QED
    BY <2>1, <2>2, <2>3
<1>6. CASE vfd_trip
  <2>1. /\ vfdstate' \in States /\ override' \in BOOLEAN /\ brake' \in BOOLEAN
        /\ motor' \in Contactor
    BY <1>6, <1>t DEF vfd_trip, TypeOK, power
  <2>2. ref' \in BOOLEAN /\ desired' \in BOOLEAN
    BY <1>6, Zenon DEF vfd_trip
  <2>3. fault' \in {"none", "timed", "latched"}
    BY <1>6 DEF vfd_trip, TypeOK
  <2> QED
    BY <1>6, <2>1, <2>2, <2>3 DEF vfd_trip, TypeOK, check
<1>7. CASE scCheck_current_handler
  <2>1. /\ vfdstate' \in States /\ override' \in BOOLEAN /\ brake' \in BOOLEAN
        /\ motor' \in Contactor
    BY <1>7, <1>t DEF scCheck_current_handler
  <2> QED
    BY <1>7, <2>1 DEF scCheck_current_handler, TypeOK, check, speeds
<1>8. CASE vfd_enableCheck
  <2>1. /\ vfdstate' \in States /\ override' \in BOOLEAN /\ brake' \in BOOLEAN
        /\ motor' \in Contactor
    BY <1>8, <1>t DEF vfd_enableCheck, TypeOK, power
  <2>2. todo' \in Seq(Ops)
    BY <1>8, CallElements DEF vfd_enableCheck, TypeOK
  <2> QED
    BY <1>8, <2>1, <2>2 DEF vfd_enableCheck, TypeOK, check, speeds, inputs
<1>9. CASE Softcharge
  <2>1. /\ vfdstate' \in States /\ override' \in BOOLEAN /\ brake' \in BOOLEAN
        /\ motor' \in Contactor
    BY <1>9, <1>t DEF Softcharge, TypeOK, power
  <2>2. CASE vfdstate # "init_exe"
    <3>1. ref' \in BOOLEAN /\ desired' \in BOOLEAN /\ softcharge' \in BOOLEAN
      BY <1>9, <2>2, Zenon DEF Softcharge
    <3> QED
      BY <1>9, <2>1, <3>1 DEF Softcharge, TypeOK, check
  <2>3. CASE vfdstate = "init_exe"
    <3>1. softcharge' \in BOOLEAN
      BY <1>9, Zenon DEF Softcharge
    <3> QED
      BY <1>9, <2>1, <2>3, <3>1 DEF Softcharge, TypeOK, check, speeds
  <2> QED
    BY <2>2, <2>3
<1>10. CASE motor_excitation_handler
  <2>1. motor' \in Contactor
    <3>1. MainFeedback \subseteq BOOLEAN
      BY DriveAssumption DEF DriveAssumption
    <3> QED
      BY <1>10, <3>1 DEF motor_excitation_handler, TypeOK, Contactor
  <2> QED
    BY <1>10, <2>1 DEF motor_excitation_handler, TypeOK, speeds, power, check, inputs
<1>11. CASE vfd_scurve_exe
  <2>1. desired' \in BOOLEAN
    BY <1>11 DEF vfd_scurve_exe, TypeOK
  <2>2. late' \in 0..CATCH_UP
    BY <1>11 DEF vfd_scurve_exe
  <2> QED
    BY <1>11, <2>1, <2>2 DEF vfd_scurve_exe, TypeOK, power, check, inputs
<1>12. CASE Environment
  <2>1. /\ softcharge' \in BOOLEAN /\ enabled' \in BOOLEAN
        /\ fault' \in {"none", "timed", "latched"}
    <3>1. EnableLevels \subseteq BOOLEAN
      BY DriveAssumption DEF DriveAssumption
    <3> QED
      BY <1>12, <3>1 DEF Environment, TypeOK
  <2> QED
    BY <1>12, <2>1 DEF Environment, TypeOK, speeds, power, check
<1>13. CASE UNCHANGED vars
  BY <1>13 DEF vars, TypeOK, speeds, power, check, inputs
<1> QED
  BY <1>1, <1>2, <1>3, <1>4, <1>5, <1>6, <1>7, <1>8, <1>9, <1>10, <1>11, <1>12, <1>13 DEF Next

\* The drive's variables keep the values the code gives them, for all delays,
\* levels of the inputs and interruptions.
THEOREM TypeCorrect == Spec => []TypeOK
BY TypeCorrectInit, TypeCorrectStep, PTL DEF Spec

-----------------------------------------------------------------------------
\* The operations that move a tripped drive are not harmless, so none of them
\* is next in a call of a tripped drive.
LEMMA HarmlessHead ==
    ASSUME TypeOK, TripInv, vfdstate = "trip_exe", Operation
    PROVE  \/ At("set_override") \/ At("close_brake") \/ At("disconnect_motor")
           \/ At("estop") \/ At("clear_stopping") \/ At("clear_speed") \/ At("trip_exe")
           \/ At("stop_enter") /\ fault = "none"
<1>1. todo # <<>> /\ todo \in Seq(Ops)
  BY OperationCall DEF TypeOK
<1>2. Head(todo) \in Elements(todo)
  BY <1>1, TailElements
<1> QED
  BY <1>1, <1>2 DEF TripInv, Harmless, At, Idle

\* Which operation a step of a call is, when the call is at a harmless one.
LEMMA HarmlessOperation ==
    ASSUME TypeOK, TripInv, vfdstate = "trip_exe", Operation
    PROVE  \/ At("set_override") /\ Outputs
           \/ At("close_brake") /\ Outputs
           \/ At("disconnect_motor") /\ Outputs
           \/ trip_exe \/ estop \/ clear_stopping \/ clear_speed
           \/ stop_enter /\ fault = "none"
BY HarmlessHead, ZenonT(60)
   DEF Operation, Outputs, init_exe, stop_enter, stop_exe, csc_enter, csc_exe, scCheck_exe,
       stop_exit, hold, permission, move, active_enter, activate, active_exe, active_exit,
       trip_exe, tune_enter, tune, tune_state, tune_exe, tune_exit, estop, clear_stopping,
       clear_speed, At

\* Connecting withdraws a request to disconnect, and the reverse.
LEMMA ExclusiveStep == TypeOK /\ Exclusive /\ [Next]_vars => Exclusive'
<1> SUFFICES ASSUME TypeOK, Exclusive, [Next]_vars PROVE Exclusive'
  OBVIOUS
<1> USE DEF Exclusive
<1>1. CASE UNCHANGED motor
  BY <1>1
<1>2. CASE Outputs
  <2>1. CASE At("connect_motor")
    BY <1>2, <2>1 DEF Outputs, At, TypeOK, Contactor
  <2>2. CASE At("disconnect_motor")
    BY <1>2, <2>2 DEF Outputs, At, TypeOK, Contactor
  <2> QED
    BY <1>1, <1>2, <2>1, <2>2 DEF Outputs
<1>3. CASE states_trip
  BY <1>3 DEF states_trip, TypeOK, Contactor
<1>4. CASE motor_excitation_handler
  BY <1>4 DEF motor_excitation_handler, TypeOK, Contactor
<1>5. CASE Operation
  BY <1>1, <1>2, <1>5
     DEF Operation, init_exe, stop_enter, stop_exe, csc_enter, csc_exe, scCheck_exe,
         stop_exit, hold, permission, move, active_enter, activate, active_exe, active_exit,
         trip_exe, tune_enter, tune, tune_state, tune_exe, tune_exit, estop, clear_stopping,
         clear_speed
<1> QED
  BY <1>1, <1>3, <1>4, <1>5
     DEF Next, vars, vfd_states_handler, vfd_estop, Run, Stop, vfd_trip, scCheck_current_handler,
         vfd_enableCheck, Softcharge, vfd_scurve_exe, Environment

\* A trip leaves everything safe.
LEMMA TripSafe == TypeOK /\ Exclusive /\ states_trip => Safe'
<1> SUFFICES ASSUME TypeOK, Exclusive, states_trip PROVE Safe'
  OBVIOUS
<1>1. override' /\ ~brake'
  BY Zenon DEF states_trip
<1>2. ~motor'.connect /\ motor'.disconnect
  BY DEF states_trip, TypeOK, Contactor, Exclusive
<1> QED
  BY <1>1, <1>2 DEF Safe

\* A step of a call keeps a tripped drive safe, or takes it out of the trip
\* state when there is no fault.
LEMMA TripOperation ==
    ASSUME TypeOK, Exclusive, TripInv, Operation, vfdstate' = "trip_exe"
    PROVE  /\ Safe' /\ fault' = fault
           /\ Elements(todo') \subseteq Harmless
           /\ fault # "none" => "stop_enter" \notin Elements(todo')
<1>1. vfdstate = "trip_exe"
  BY DEF Operation, Outputs, init_exe, stop_enter, stop_exe, csc_enter, csc_exe, scCheck_exe,
       stop_exit, hold, permission, move, active_enter, activate, active_exe, active_exit,
       trip_exe, tune_enter, tune, tune_state, tune_exe, tune_exit, estop, clear_stopping,
       clear_speed
<1>2. /\ Safe /\ Elements(todo) \subseteq Harmless
      /\ fault # "none" => "stop_enter" \notin Elements(todo)
  BY <1>1 DEF TripInv
<1>3. todo # <<>> /\ todo \in Seq(Ops) /\ <<>> \in Seq(Ops) /\ <<"stop_enter">> \in Seq(Ops)
  BY OperationCall, CallTypes DEF TypeOK, Ops
<1>4. ASSUME Then(<<>>)
      PROVE  /\ Elements(todo') \subseteq Harmless
             /\ fault # "none" => "stop_enter" \notin Elements(todo')
  <2>1. Elements(todo') \subseteq Elements(<<>>) \cup Elements(todo)
    BY <1>3, <1>4, ThenElements
  <2> QED
    BY <1>2, <2>1, CallElements
<1>5. CASE Outputs /\ (At("set_override") \/ At("close_brake"))
  <2>1. motor' = motor /\ override' /\ ~brake'
    <3>1. CASE At("set_override")
      <4>1. override' = TRUE /\ brake' = brake /\ motor' = motor
        BY <1>5, <3>1 DEF Outputs, At
      <4> QED
        BY <1>2, <4>1, Zenon DEF Safe
    <3>2. CASE At("close_brake")
      <4>1. brake' = FALSE /\ override' = override /\ motor' = motor
        BY <1>5, <3>2 DEF Outputs, At
      <4> QED
        BY <1>2, <4>1, Zenon DEF Safe
    <3> QED
      BY <1>5, <3>1, <3>2
  <2>2. Safe'
    BY <1>2, <2>1 DEF Safe
  <2> QED
    BY <1>4, <1>5, <2>2 DEF Outputs, inputs
<1>6. CASE Outputs /\ At("disconnect_motor")
  <2>1. motor' = [motor EXCEPT !.connect = motor.connect /\ motor.disconnect, !.disconnect = TRUE]
        /\ UNCHANGED power
    BY <1>6 DEF Outputs, At
  <2>2. ~motor'.connect /\ motor'.disconnect
    BY <2>1 DEF TypeOK, Contactor, Exclusive
  <2>3. override' /\ ~brake'
    BY <1>2, <2>1, Zenon DEF Safe, power
  <2>4. Safe'
    BY <2>2, <2>3 DEF Safe
  <2> QED
    BY <1>4, <1>6, <2>4 DEF Outputs, inputs
<1>7. CASE trip_exe
  <2>1. Safe' /\ fault' = fault
    BY <1>2, <1>7, Zenon DEF trip_exe, Safe, power, inputs
  <2>2. CASE Then(<<>>)
    BY <1>4, <2>1, <2>2
  <2>3. CASE fault = "none" /\ Then(<<"stop_enter">>)
    <3>1. Elements(todo') \subseteq Elements(<<"stop_enter">>) \cup Elements(todo)
      BY <1>3, <2>3, ThenElements
    <3> QED
      BY <1>2, <2>1, <2>3, <3>1, CallElements DEF Harmless
  <2> QED
    BY <1>7, <2>2, <2>3 DEF trip_exe, If
<1>8. CASE estop
  <2>1. Safe' /\ fault' = fault
    BY <1>2, <1>8, Zenon DEF estop, Safe, power, inputs
  <2> QED
    BY <1>1, <1>4, <1>8, <2>1 DEF estop, If
<1>9. CASE clear_stopping \/ clear_speed
  <2>1. Safe' /\ fault' = fault
    <3>1. CASE clear_stopping
      BY <1>2, <3>1, Zenon DEF clear_stopping, Safe, power, inputs
    <3>2. CASE clear_speed
      BY <1>2, <3>2, Zenon DEF clear_speed, Safe, power, inputs
    <3> QED
      BY <1>9, <3>1, <3>2
  <2> QED
    BY <1>4, <1>9, <2>1 DEF clear_stopping, clear_speed
<1>10. ~stop_enter
  BY DEF stop_enter
<1> QED
  BY <1>1, <1>5, <1>6, <1>7, <1>8, <1>9, <1>10, HarmlessOperation

\* With no protection in the middle of a call, every step keeps TripInv.
LEMMA TripStep ==
    ASSUME Preemptive = FALSE, TypeOK, Exclusive, TripInv, [Next]_vars
    PROVE  TripInv'
<1> SUFFICES ASSUME vfdstate' = "trip_exe"
             PROVE  /\ Safe'
                    /\ Elements(todo') \subseteq Harmless
                    /\ fault' # "none" => "stop_enter" \notin Elements(todo')
  BY DEF TripInv
<1>1. CASE Operation
  BY <1>1, TripOperation
<1>2. CASE states_trip /\ todo' = todo /\ Idle
  <2>1. Safe'
    BY <1>2, TripSafe
  <2>2. Elements(todo') = {}
    BY <1>2, CallElements DEF Idle
  <2> QED
    BY <2>1, <2>2
<1>3. CASE UNCHANGED <<vfdstate, power, motor>> /\ Idle /\ todo' = todo
  <2>1. Safe'
    BY <1>3, Zenon DEF TripInv, Safe, power
  <2>2. Elements(todo') = {}
    BY <1>3, CallElements DEF Idle
  <2> QED
    BY <2>1, <2>2
<1>4. CASE UNCHANGED <<vfdstate, power, motor>> /\ (todo' = states_estop \/ todo' = states_estop \o <<"clear_speed">>)
  <2>1. Safe'
    BY <1>4, Zenon DEF TripInv, Safe, power
  <2>2. Elements(todo') \subseteq {"set_override", "close_brake", "estop", "clear_stopping", "clear_speed"}
    BY <1>4, CallElements
  <2> QED
    BY <2>1, <2>2 DEF Harmless
<1>5. CASE vfd_states_handler
  <2>1. Safe'
    BY <1>5, Zenon DEF vfd_states_handler, TripInv, Safe, power
  <2>2. Elements(todo') = {"trip_exe"}
    BY <1>5, CallElements DEF vfd_states_handler
  <2> QED
    BY <2>1, <2>2 DEF Harmless
<1>6. CASE motor_excitation_handler
  <2>1. vfdstate = "trip_exe" /\ UNCHANGED power /\ todo' = todo /\ Idle
    BY <1>6 DEF motor_excitation_handler
  <2>2. ~motor'.connect /\ (motor'.stage = 1 => motor'.disconnect)
    <3>1. ~motor.connect /\ (motor.stage = 1 => motor.disconnect) /\ motor \in Contactor
      BY <2>1 DEF TripInv, Safe, TypeOK
    <3>2. CASE motor' = [motor EXCEPT !.main = FALSE]
      BY <3>1, <3>2 DEF Contactor
    <3>3. CASE motor.disconnect /\ motor' = [motor EXCEPT !.main = FALSE, !.connected = FALSE]
      BY <3>1, <3>3 DEF Contactor
    <3>4. CASE motor' = [motor EXCEPT !.main = FALSE, !.connected = FALSE, !.stage = 0,
                                      !.disconnect = FALSE]
      BY <3>1, <3>4 DEF Contactor
    <3> QED
      BY <1>6, <3>1, <3>2, <3>3, <3>4 DEF motor_excitation_handler
  <2>3. override' /\ ~brake'
    BY <2>1, Zenon DEF TripInv, Safe, power
  <2>4. Safe'
    BY <2>2, <2>3 DEF Safe
  <2>5. Elements(todo') = {}
    BY <2>1, CallElements DEF Idle
  <2> QED
    BY <2>4, <2>5
<1>7. CASE UNCHANGED <<vfdstate, power, motor, todo, fault>>
  <2>1. Safe'
    BY <1>7, Zenon DEF TripInv, Safe, power
  <2> QED
    BY <1>7, <2>1 DEF TripInv
<1>8. CASE vfd_trip \/ scCheck_current_handler \/ vfd_enableCheck \/ Softcharge
  BY <1>2, <1>3, <1>4, <1>8
     DEF vfd_trip, scCheck_current_handler, vfd_enableCheck, Softcharge
<1>9. CASE vfd_estop
  BY <1>4, <1>9 DEF vfd_estop
<1>10. CASE Environment
  BY <1>3, <1>10 DEF Environment
<1>11. CASE Run \/ Stop \/ vfd_scurve_exe \/ UNCHANGED vars
  BY <1>7, <1>11 DEF Run, Stop, vfd_scurve_exe, vars, inputs, power
<1> QED
  BY <1>1, <1>5, <1>6, <1>8, <1>9, <1>10, <1>11 DEF Next

\* The invariant of which the two theorems are consequences.
LEMMA TripInvariant ==
    ASSUME Preemptive = FALSE
    PROVE  Spec => [](TypeOK /\ Exclusive /\ TripInv)
<1>1. Init => TypeOK /\ Exclusive /\ TripInv
  BY TypeCorrectInit DEF Init, Exclusive, TripInv, Released
<1>2. TypeOK /\ Exclusive /\ TripInv /\ [Next]_vars => (TypeOK /\ Exclusive /\ TripInv)'
  BY TypeCorrectStep, ExclusiveStep, TripStep
<1> QED
  BY <1>1, <1>2, PTL DEF Spec

\* When no protection interrupts a call of the main loop, a tripped drive has
\* its inverter overridden, its brake closed and its motor being disconnected
\* whenever the main loop is between two calls, whatever the delays.
THEOREM TripIsSafeAlways ==
    ASSUME Preemptive = FALSE
    PROVE  Spec => []TripIsSafe
<1>1. TripInv => TripIsSafe
  BY DEF TripInv, TripIsSafe, Safe
<1> QED
  BY <1>1, TripInvariant, PTL

\* Under the same condition nothing takes the drive out of the trip state while
\* there is a fault.
THEOREM TripLatchedAlways ==
    ASSUME Preemptive = FALSE
    PROVE  Spec => TripLatched
<1>1. TypeOK /\ Exclusive /\ TripInv /\ [Next]_vars
        => [vfdstate = "trip_exe" /\ fault # "none" => vfdstate' = "trip_exe"]_vars
  <2> SUFFICES ASSUME TypeOK, Exclusive, TripInv, Next, vfdstate = "trip_exe", fault # "none"
               PROVE  vfdstate' = "trip_exe"
    BY DEF vars
  <2>1. CASE Operation
    BY <2>1, HarmlessOperation DEF Outputs, trip_exe, estop, clear_stopping, clear_speed
  <2> QED
    BY <2>1 DEF Next, vfd_states_handler, vfd_estop, Run, Stop, vfd_trip, scCheck_current_handler,
                vfd_enableCheck, Softcharge, states_trip, motor_excitation_handler,
                vfd_scurve_exe, Environment
<1> QED
  BY <1>1, TripInvariant, PTL DEF Spec, TripLatched

-----------------------------------------------------------------------------
(***************************************************************************)
(* BrakeOpenMotorHolds and BrakeOpenChecked, again for calls that no       *)
(* protection interrupts.  Both speak of a brake that is open; what is     *)
(* inductive says of every operation that a call has left in which state   *)
(* of the drive it is called, that the motor is connected before anything  *)
(* that leads to open_brake, and that whatever lets the motor go comes     *)
(* after close_brake.                                                      *)
(***************************************************************************)
Has(op) == op \in Elements(todo)

\* The operations from the check of the short circuit to the open brake are
\* called one after the other, and nothing else is left of their calls.
StartOps == {"csc_exe", "scCheck_exe", "stop_exit", "hold", "permission", "open_brake", "move",
             "active_enter", "activate"}
StartCalls ==
    {<<"csc_exe">>, <<"clear_override", "scCheck_exe">>, <<"scCheck_exe">>, <<"stop_exit">>,
     <<"connect_motor", "hold">>, <<"hold">>, <<"clear_override", "permission">>,
     <<"permission">>, <<"open_brake", "move">>, <<"move">>, <<"active_enter">>,
     <<"stop_enter", "activate">>, <<"activate">>, <<"clear_override", "open_brake">>,
     <<"open_brake">>}
\* The same of the stop state.
StopOps == {"stop_exe", "csc_enter"}
StopCalls ==
    {<<"stop_exe">>, <<"csc_enter">>, <<"close_brake", "csc_enter">>,
     <<"close_brake", "set_override", "disconnect_motor", "clear_stopping", "csc_enter">>,
     <<"set_override", "disconnect_motor", "clear_stopping", "csc_enter">>,
     <<"disconnect_motor", "clear_stopping", "csc_enter">>, <<"clear_stopping", "csc_enter">>}

\* The state in which each of them runs.  The desired speed of the last run is
\* zero before a check is over, because the speed loop runs at least once in
\* CATCH_UP calls of the handler (late counts them).
Starting ==
    /\ Elements(todo) \cap StartOps # {} => todo \in StartCalls
    /\ Has("csc_exe") \/ Has("scCheck_exe") =>
          vfdstate = "csc_exe" /\ (desired => sc_steps + 2 <= late)
    /\ Has("stop_exit") \/ Has("hold") \/ Has("permission") \/ Has("move") \/ Has("active_enter") =>
          vfdstate = "csc_exe" /\ ~desired
    /\ Has("activate") => vfdstate \in {"csc_exe", "stop_exe"} /\ ~desired
    /\ Has("open_brake") => vfdstate \in {"csc_exe", "active_exe"}
Stopping ==
    Elements(todo) \cap StopOps # {} =>
        todo \in StopCalls /\ vfdstate = "stop_exe" /\ (desired => 1 <= late)
Ramped == desired /\ vfdstate = "csc_exe" => sc_steps + 1 <= late

\* The main contactor is closed when the motor counts as connected.
MotorOn == motor.connected => motor.stage = 1 /\ motor.main
Held == motor.connected /\ ~motor.disconnect /\ (~override \/ Has("clear_override"))

Holding ==
    /\ Has("hold") /\ ~Has("connect_motor") => ~motor.disconnect
    /\ \/ Has("permission") \/ Has("open_brake") \/ Has("move") \/ Has("active_enter")
       \/ Has("activate")
       => Held
    /\ brake /\ ~Has("close_brake") => Held
    /\ (Has("set_override") \/ Has("disconnect_motor")) /\ ~Has("close_brake") => ~brake

CallInv == Starting /\ Stopping /\ Ramped
HoldInv == Exclusive /\ MotorOn /\ Holding

-----------------------------------------------------------------------------
\* The first operation of a call decides which action runs.
LEMMA HeadOperation ==
    ASSUME Operation
    PROVE  /\ todo # <<>>
           /\ Head(todo) = "csc_exe" => csc_exe
           /\ Head(todo) = "scCheck_exe" => scCheck_exe
           /\ Head(todo) = "stop_exit" => stop_exit
           /\ Head(todo) = "hold" => hold
           /\ Head(todo) = "permission" => permission
           /\ Head(todo) = "move" => move
           /\ Head(todo) = "active_enter" => active_enter
           /\ Head(todo) = "activate" => activate
           /\ Head(todo) = "stop_enter" => stop_enter
           /\ Head(todo) = "stop_exe" => stop_exe
           /\ Head(todo) = "csc_enter" => csc_enter
           /\ Head(todo) = "clear_stopping" => clear_stopping
           /\ Head(todo) \in {"set_override", "clear_override", "open_brake", "close_brake",
                              "connect_motor", "disconnect_motor"} => Outputs
<1> USE DEF Operation, Outputs, init_exe, stop_enter, stop_exe, csc_enter, csc_exe, scCheck_exe,
       stop_exit, hold, permission, move, active_enter, activate, active_exe, active_exit,
       trip_exe, tune_enter, tune, tune_state, tune_exe, tune_exit, estop, clear_stopping,
       clear_speed, At
<1>1. todo # <<>>
  BY OperationCall
<1> QED
  BY <1>1, ZenonT(60)

\* The lists that calls are made of, with their first operation, the rest and
\* the elements.
LEMMA Lists ==
    /\ \A a : Head(<<a>>) = a /\ Tail(<<a>>) = <<>>
    /\ \A a, b : Head(<<a, b>>) = a /\ Tail(<<a, b>>) = <<b>>
    /\ \A a, b, c : Head(<<a, b, c>>) = a /\ Tail(<<a, b, c>>) = <<b, c>>
    /\ \A a, b, c, d : Head(<<a, b, c, d>>) = a /\ Tail(<<a, b, c, d>>) = <<b, c, d>>
    /\ \A a, b, c, d, e :
          Head(<<a, b, c, d, e>>) = a /\ Tail(<<a, b, c, d, e>>) = <<b, c, d, e>>
OBVIOUS

LEMMA ListElements ==
    /\ \A a : Elements(<<a>>) = {a}
    /\ \A a, b : Elements(<<a, b>>) = {a, b}
    /\ \A a, b, c : Elements(<<a, b, c>>) = {a, b, c}
    /\ \A a, b, c, d : Elements(<<a, b, c, d>>) = {a, b, c, d}
    /\ \A a, b, c, d, e : Elements(<<a, b, c, d, e>>) = {a, b, c, d, e}
BY DEF Elements

\* How calls are put together: the empty list changes nothing, and the lists
\* that stop_exe, hold and active_enter make.
LEMMA Concatenations ==
    /\ \A s \in Seq(Ops) : s \o <<>> = s /\ <<>> \o s = s
    /\ <<"clear_override">> \o <<"permission">> = <<"clear_override", "permission">>
    /\ <<"stop_enter">> \o <<"activate">> = <<"stop_enter", "activate">>
    /\ <<"close_brake">> \o <<"csc_enter">> = <<"close_brake", "csc_enter">>
    /\ <<"close_brake">> \o <<"set_override", "disconnect_motor", "clear_stopping">>
         \o <<"csc_enter">>
       = <<"close_brake", "set_override", "disconnect_motor", "clear_stopping", "csc_enter">>
<1>1. \A s \in Seq(Ops) : s \o <<>> = s /\ <<>> \o s = s
  OBVIOUS
<1>2. ASSUME NEW a \in Ops, NEW b \in Ops PROVE <<a>> \o <<b>> = <<a, b>>
  <2>1. /\ <<a>> \o <<b>> \in Seq(Ops) /\ <<a, b>> \in Seq(Ops)
        /\ Len(<<a>> \o <<b>>) = 2 /\ Len(<<a, b>>) = 2
        /\ (<<a>> \o <<b>>)[1] = a /\ (<<a>> \o <<b>>)[2] = b
    OBVIOUS
  <2>2. \A i \in 1..2 : (<<a>> \o <<b>>)[i] = <<a, b>>[i]
    <3>1. \A i \in 1..2 : i = 1 \/ i = 2
      OBVIOUS
    <3> QED
      BY <2>1, <3>1
  <2> QED
    BY <2>1, <2>2, SeqEqual
<1>3. ASSUME NEW a \in Ops, NEW b \in Ops, NEW c \in Ops, NEW d \in Ops, NEW e \in Ops
      PROVE  <<a>> \o <<b, c, d>> \o <<e>> = <<a, b, c, d, e>>
  <2> DEFINE s == <<a>> \o <<b, c, d>> \o <<e>>
  <2>1. /\ s \in Seq(Ops) /\ <<a, b, c, d, e>> \in Seq(Ops)
        /\ Len(s) = 5 /\ Len(<<a, b, c, d, e>>) = 5
        /\ s[1] = a /\ s[2] = b /\ s[3] = c /\ s[4] = d /\ s[5] = e
    OBVIOUS
  <2>2. \A i \in 1..5 : s[i] = <<a, b, c, d, e>>[i]
    <3>1. \A i \in 1..5 : i = 1 \/ i = 2 \/ i = 3 \/ i = 4 \/ i = 5
      OBVIOUS
    <3> QED
      BY <2>1, <3>1
  <2> HIDE DEF s
  <2>3. s = <<a, b, c, d, e>>
    BY <2>1, <2>2, SeqEqual
  <2> QED
    BY <2>3 DEF s
<1>4. {"clear_override", "permission", "stop_enter", "activate", "close_brake", "csc_enter",
       "set_override", "disconnect_motor", "clear_stopping"} \subseteq Ops
  BY DEF Ops
<1> QED
  BY <1>1, <1>2, <1>3, <1>4

\* A call that is not empty consists of its first operation and the rest.
LEMMA HeadElements ==
    ASSUME todo \in Seq(Ops), todo # <<>>
    PROVE  Elements(todo) = {Head(todo)} \cup Elements(Tail(todo))
<1>1. /\ Tail(todo) \in Seq(Ops) /\ Len(Tail(todo)) = Len(todo) - 1
      /\ Len(todo) \in Nat /\ Len(todo) > 0
      /\ \A i \in 1..Len(Tail(todo)) : Tail(todo)[i] = todo[i + 1]
      /\ Head(todo) = todo[1]
  OBVIOUS
<1>2. ASSUME NEW i \in 1..Len(todo), i # 1
      PROVE  todo[i] \in Elements(Tail(todo))
  <2>1. i - 1 \in 1..Len(Tail(todo)) /\ Tail(todo)[i - 1] = todo[i]
    BY <1>1, <1>2
  <2> QED
    BY <2>1 DEF Elements
<1>3. Elements(Tail(todo)) \subseteq Elements(todo) /\ Head(todo) \in Elements(todo)
  BY <1>1, TailElements
<1> QED
  BY <1>1, <1>2, <1>3 DEF Elements

\* What is left of a call after a step, exactly.
LEMMA ThenExact ==
    ASSUME todo \in Seq(Ops), todo # <<>>, NEW ops \in Seq(Ops), Then(ops)
    PROVE  Elements(todo') = Elements(ops) \cup Elements(Tail(todo))
<1> DEFINE t == Tail(todo)
<1>1. /\ t \in Seq(Ops) /\ ops \o t \in Seq(Ops)
      /\ Len(ops \o t) = Len(ops) + Len(t) /\ Len(ops) \in Nat /\ Len(t) \in Nat
      /\ \A i \in 1..Len(ops \o t) : (ops \o t)[i] = IF i <= Len(ops) THEN ops[i] ELSE t[i - Len(ops)]
  BY TailElements
<1>2. todo' = ops \o t
  BY DEF Then
<1> HIDE DEF t
<1>3. Elements(ops \o t) \subseteq Elements(ops) \cup Elements(t)
  BY <1>1, ConcatElements
<1>4. ASSUME NEW i \in 1..Len(ops) PROVE ops[i] \in Elements(ops \o t)
  <2>1. i \in 1..Len(ops \o t) /\ (ops \o t)[i] = ops[i]
    BY <1>1
  <2> QED
    BY <2>1 DEF Elements
<1>5. ASSUME NEW i \in 1..Len(t) PROVE t[i] \in Elements(ops \o t)
  <2>1. i + Len(ops) \in 1..Len(ops \o t) /\ (ops \o t)[i + Len(ops)] = t[i]
    BY <1>1
  <2> QED
    BY <2>1 DEF Elements
<1>6. Elements(ops \o t) = Elements(ops) \cup Elements(t)
  BY <1>3, <1>4, <1>5 DEF Elements
<1> QED
  BY <1>2, <1>6 DEF t

\* What a handler calls when it may stop first.
LEMMA StopFirst ==
    ASSUME NEW c, NEW op \in Ops
    PROVE  /\ If(c, <<"stop_enter">>) \o <<op>> \in Seq(Ops)
           /\ Elements(If(c, <<"stop_enter">>) \o <<op>>) \subseteq {"stop_enter", op}
<1>1. /\ If(c, <<"stop_enter">>) \in Seq(Ops) /\ <<op>> \in Seq(Ops)
      /\ Elements(If(c, <<"stop_enter">>)) \subseteq {"stop_enter"} /\ Elements(<<op>>) = {op}
  BY CallElements, CallTypes DEF If, Ops
<1> QED
  BY <1>1, ConcatElements

\* Which operations neither start the motor nor stop it.
LEMMA OtherOperation ==
    ASSUME TypeOK, Operation, Elements(todo) \cap (StartOps \cup StopOps) = {}
    PROVE  /\ todo # <<>> /\ todo \in Seq(Ops) /\ Head(todo) \in Elements(todo)
           /\ \/ Outputs /\ ~At("open_brake")
              \/ init_exe \/ stop_enter \/ active_exe \/ active_exit \/ trip_exe \/ tune_enter
              \/ tune \/ tune_state \/ tune_exe \/ tune_exit \/ estop \/ clear_stopping
              \/ clear_speed
<1>1. todo # <<>> /\ todo \in Seq(Ops) /\ Head(todo) \in Elements(todo)
  BY OperationCall, TailElements DEF TypeOK
<1>2. Head(todo) \notin StartOps \cup StopOps
  BY <1>1
<1>3. ~At("csc_exe") /\ ~At("scCheck_exe") /\ ~At("stop_exit") /\ ~At("hold")
      /\ ~At("permission") /\ ~At("open_brake") /\ ~At("move") /\ ~At("active_enter")
      /\ ~At("activate") /\ ~At("stop_exe") /\ ~At("csc_enter")
  BY <1>2 DEF At, StartOps, StopOps
<1> QED
  BY <1>1, <1>3 DEF Operation, csc_exe, scCheck_exe, stop_exit, hold, permission, move,
                    active_enter, activate, stop_exe, csc_enter

\* A call that neither starts the motor nor stops it goes on with operations
\* that do neither; what it adds lets the motor go only with close_brake, and
\* it leaves the check of the short circuit alone.
LEMMA OtherCall ==
    ASSUME TypeOK, Operation, Elements(todo) \cap (StartOps \cup StopOps) = {}
    PROVE  /\ \E ops \in Seq(Ops) :
                /\ Then(ops)
                /\ Elements(ops) \cap (StartOps \cup StopOps) = {}
                /\ "set_override" \in Elements(ops) \/ "disconnect_motor" \in Elements(ops)
                     => "close_brake" \in Elements(ops)
           /\ ~Outputs => UNCHANGED <<power, motor>>
           /\ vfdstate' \in {vfdstate, "stop_exe", "tune_exe"}
           /\ desired' => desired
           /\ UNCHANGED <<check, late>>
<1>1. todo # <<>> /\ todo \in Seq(Ops) /\ Head(todo) \in Elements(todo)
  BY OtherOperation
<1> DEFINE Adds(ops) ==
              /\ ops \in Seq(Ops)
              /\ Elements(ops) \cap (StartOps \cup StopOps) = {}
              /\ "set_override" \in Elements(ops) \/ "disconnect_motor" \in Elements(ops)
                   => "close_brake" \in Elements(ops)
           letGo == <<"set_override", "disconnect_motor", "close_brake">>
           tuned == <<"clear_override", "connect_motor", "tune_state">>
<1>2. Adds(<<>>) /\ Adds(<<"stop_enter">>) /\ Adds(letGo) /\ Adds(tuned)
  <2>1. Elements(<<>>) = {} /\ Elements(<<"stop_enter">>) = {"stop_enter"}
        /\ Elements(letGo) = {"set_override", "disconnect_motor", "close_brake"}
        /\ Elements(tuned) = {"clear_override", "connect_motor", "tune_state"}
    BY CallElements, ListElements
  <2>2. <<>> \in Seq(Ops) /\ <<"stop_enter">> \in Seq(Ops) /\ letGo \in Seq(Ops)
        /\ tuned \in Seq(Ops)
    BY DEF Ops
  <2> QED
    BY <2>1, <2>2 DEF StartOps, StopOps
<1>3. ASSUME NEW c, NEW op \in {"active_exit", "tune", "tune_exit"}
      PROVE  Adds(If(c, <<"stop_enter">>) \o <<op>>)
  <2>1. op \in Ops
    BY DEF Ops
  <2>2. {"stop_enter", op} \cap (StartOps \cup StopOps) = {}
    BY DEF StartOps, StopOps
  <2> QED
    BY <2>1, <2>2, StopFirst
<1>4. ASSUME NEW c PROVE Adds(If(c, <<"stop_enter">>)) /\ Adds(If(c, letGo))
  BY <1>2 DEF If
<1> HIDE DEF Adds, letGo, tuned
<1>5. \E ops : Adds(ops) /\ Then(ops)
  <2>1. CASE Outputs \/ tune_state \/ clear_stopping \/ clear_speed
    BY <1>2, <2>1 DEF Outputs, tune_state, clear_stopping, clear_speed
  <2>2. CASE init_exe
    BY <1>2, <2>2 DEF init_exe
  <2>3. CASE stop_enter
    BY <1>2, <2>3 DEF stop_enter, If, letGo
  <2>4. CASE active_exe
    BY <1>3, <2>4 DEF active_exe
  <2>5. CASE active_exit
    BY <1>4, <2>5 DEF active_exit
  <2>6. CASE trip_exe
    BY <1>4, <2>6 DEF trip_exe
  <2>7. CASE tune_enter
    BY <1>3, <2>7 DEF tune_enter
  <2>8. CASE tune
    BY <1>2, <2>8 DEF tune, tuned
  <2>9. CASE tune_exe
    BY <1>3, <2>9 DEF tune_exe
  <2>10. CASE tune_exit
    BY <1>4, <2>10 DEF tune_exit
  <2>11. CASE estop
    BY <1>4, <2>11 DEF estop
  <2> QED
    BY <2>1, <2>2, <2>3, <2>4, <2>5, <2>6, <2>7, <2>8, <2>9, <2>10, <2>11, OtherOperation
<1> USE DEF Outputs, init_exe, stop_enter, active_exe, active_exit, trip_exe, tune_enter, tune,
         tune_state, tune_exe, tune_exit, estop, clear_stopping, clear_speed, speeds, check, power
<1>6. ~Outputs => UNCHANGED <<power, motor>>
  BY OtherOperation, Zenon
<1>7. vfdstate' \in {vfdstate, "stop_exe", "tune_exe"} /\ UNCHANGED <<check, late>>
  BY OtherOperation
<1>8. desired' => desired
  BY OtherOperation, Zenon
<1> QED
  BY <1>5, <1>6, <1>7, <1>8 DEF Adds

\* The steps of a call that starts the motor: which action runs and what it
\* leaves of the call.
LEMMA StartStep ==
    ASSUME TypeOK, Operation
    PROVE  /\ todo = <<"csc_exe">> =>
                csc_exe /\ todo' = IF ref THEN <<"clear_override", "scCheck_exe">>
                                          ELSE <<"stop_enter">>
           /\ todo = <<"clear_override", "scCheck_exe">> =>
                Outputs /\ At("clear_override") /\ todo' = <<"scCheck_exe">>
           /\ todo = <<"scCheck_exe">> =>
                /\ scCheck_exe /\ todo' \in {<<>>, <<"tune_enter">>, <<"stop_exit">>}
                /\ todo' = <<>> \/ sc_steps + 1 >= SC_STEPS
           /\ todo = <<"stop_exit">> =>
                stop_exit /\ todo' \in {<<>>, <<"connect_motor", "hold">>}
           /\ todo = <<"connect_motor", "hold">> =>
                Outputs /\ At("connect_motor") /\ todo' = <<"hold">>
           /\ todo = <<"hold">> =>
                /\ hold /\ todo' \in {<<>>, <<"clear_override">>, <<"clear_override", "permission">>}
                /\ todo' = <<>> \/ motor.connected
           /\ todo = <<"clear_override", "permission">> =>
                Outputs /\ At("clear_override") /\ todo' = <<"permission">>
           /\ todo = <<"permission">> =>
                permission /\ todo' \in {<<>>, <<"open_brake", "move">>}
           /\ todo = <<"open_brake", "move">> =>
                Outputs /\ At("open_brake") /\ todo' = <<"move">>
           /\ todo = <<"move">> => move /\ todo' \in {<<>>, <<"active_enter">>}
           /\ todo = <<"active_enter">> =>
                active_enter /\ todo' = IF enabled THEN <<"activate">>
                                                   ELSE <<"stop_enter", "activate">>
           /\ todo = <<"stop_enter", "activate">> =>
                stop_enter /\ (~desired => todo' = <<"activate">>)
           /\ todo = <<"activate">> => activate /\ todo' = <<"clear_override", "open_brake">>
           /\ todo = <<"clear_override", "open_brake">> =>
                Outputs /\ At("clear_override") /\ todo' = <<"open_brake">>
           /\ todo = <<"open_brake">> => Outputs /\ At("open_brake") /\ todo' = <<>>
<1>1. ASSUME NEW ops \in Seq(Ops), Then(ops)
      PROVE  /\ Tail(todo) = <<>> => todo' = ops
             /\ ops = <<>> => todo' = Tail(todo)
  <2>1. Tail(todo) \in Seq(Ops)
    BY TailElements, HeadOperation DEF TypeOK
  <2> QED
    BY <1>1, <2>1, Concatenations DEF Then
<1>2. Then(<<>>) => todo' = Tail(todo)
  BY <1>1, CallTypes
<1>3. CASE todo = <<"csc_exe">>
  <2>1. Head(todo) = "csc_exe" /\ Tail(todo) = <<>>
    BY <1>3, Lists
  <2>2. csc_exe
    BY <2>1, HeadOperation
  <2>3. <<"clear_override", "scCheck_exe">> \in Seq(Ops) /\ <<"stop_enter">> \in Seq(Ops)
    BY DEF Ops
  <2> QED
    BY <1>1, <1>3, <2>1, <2>2, <2>3 DEF csc_exe
<1>4. ASSUME NEW a, NEW b, todo = <<a, b>>,
             a \in {"clear_override", "connect_motor", "open_brake"}
      PROVE  Outputs /\ At(a) /\ todo' = <<b>>
  <2>1. Head(todo) = a /\ Tail(todo) = <<b>> /\ todo # <<>>
    BY <1>4, Lists
  <2>2. Outputs
    BY <1>4, <2>1, HeadOperation
  <2> QED
    BY <1>2, <2>1, <2>2 DEF Outputs, At, Idle
<1>5. CASE todo = <<"scCheck_exe">>
  <2>1. Head(todo) = "scCheck_exe" /\ Tail(todo) = <<>>
    BY <1>5, Lists
  <2>2. scCheck_exe
    BY <2>1, HeadOperation
  <2>3. <<"tune_enter">> \in Seq(Ops) /\ <<"stop_exit">> \in Seq(Ops)
    BY DEF Ops
  <2> QED
    BY <1>1, <1>2, <1>5, <2>1, <2>2, <2>3 DEF scCheck_exe, If
<1>6. CASE todo = <<"stop_exit">>
  <2>1. Head(todo) = "stop_exit" /\ Tail(todo) = <<>>
    BY <1>6, Lists
  <2>2. stop_exit
    BY <2>1, HeadOperation
  <2>3. <<"connect_motor", "hold">> \in Seq(Ops)
    BY DEF Ops
  <2> QED
    BY <1>1, <1>2, <1>6, <2>1, <2>2, <2>3 DEF stop_exit, If
<1>7. CASE todo = <<"hold">>
  <2>1. Head(todo) = "hold" /\ Tail(todo) = <<>>
    BY <1>7, Lists
  <2>2. hold
    BY <2>1, HeadOperation
  <2>3. <<"clear_override">> \in Seq(Ops) /\ <<"clear_override", "permission">> \in Seq(Ops)
    BY DEF Ops
  <2>4. <<"clear_override">> \o <<>> = <<"clear_override">>
    BY <2>3, Concatenations
  <2> QED
    BY <1>1, <1>2, <1>7, <2>1, <2>2, <2>3, <2>4, Concatenations DEF hold, If
<1>8. CASE todo = <<"permission">>
  <2>1. Head(todo) = "permission" /\ Tail(todo) = <<>>
    BY <1>8, Lists
  <2>2. permission
    BY <2>1, HeadOperation
  <2>3. <<"open_brake", "move">> \in Seq(Ops)
    BY DEF Ops
  <2> QED
    BY <1>1, <1>2, <1>8, <2>1, <2>2, <2>3 DEF permission
<1>9. CASE todo = <<"move">>
  <2>1. Head(todo) = "move" /\ Tail(todo) = <<>>
    BY <1>9, Lists
  <2>2. move
    BY <2>1, HeadOperation
  <2>3. <<"active_enter">> \in Seq(Ops)
    BY DEF Ops
  <2> QED
    BY <1>1, <1>2, <1>9, <2>1, <2>2, <2>3 DEF move, If
<1>10. CASE todo = <<"active_enter">>
  <2>1. Head(todo) = "active_enter" /\ Tail(todo) = <<>>
    BY <1>10, Lists
  <2>2. active_enter
    BY <2>1, HeadOperation
  <2>3. <<"activate">> \in Seq(Ops) /\ <<"stop_enter", "activate">> \in Seq(Ops)
    BY DEF Ops
  <2>4. If(~enabled, <<"stop_enter">>) \o <<"activate">>
          = IF enabled THEN <<"activate">> ELSE <<"stop_enter", "activate">>
    BY <2>3, Concatenations DEF If
  <2> QED
    BY <1>1, <1>10, <2>1, <2>2, <2>3, <2>4 DEF active_enter
<1>11. CASE todo = <<"stop_enter", "activate">>
  <2>1. Head(todo) = "stop_enter" /\ Tail(todo) = <<"activate">>
    BY <1>11, Lists
  <2>2. stop_enter
    BY <2>1, HeadOperation
  <2> QED
    BY <1>2, <1>11, <2>1, <2>2 DEF stop_enter, If
<1>12. CASE todo = <<"activate">>
  <2>1. Head(todo) = "activate" /\ Tail(todo) = <<>>
    BY <1>12, Lists
  <2>2. activate
    BY <2>1, HeadOperation
  <2>3. <<"clear_override", "open_brake">> \in Seq(Ops)
    BY DEF Ops
  <2> QED
    BY <1>1, <1>12, <2>1, <2>2, <2>3 DEF activate
<1>13. CASE todo = <<"open_brake">>
  <2>1. Head(todo) = "open_brake" /\ Tail(todo) = <<>>
    BY <1>13, Lists
  <2>2. Outputs
    BY <2>1, HeadOperation
  <2> QED
    BY <1>2, <1>13, <2>1, <2>2, HeadOperation DEF Outputs, At, Idle
<1> QED
  BY <1>3, <1>4, <1>5, <1>6, <1>7, <1>8, <1>9, <1>10, <1>11, <1>12, <1>13, Zenon

\* The same of a call of the stop state.
LEMMA StopStep ==
    ASSUME TypeOK, Operation
    PROVE  /\ todo = <<"stop_exe">> =>
                /\ stop_exe
                /\ todo' \in {<<"csc_enter">>, <<"close_brake", "csc_enter">>,
                              <<"close_brake", "set_override", "disconnect_motor",
                                "clear_stopping", "csc_enter">>}
           /\ todo = <<"csc_enter">> => csc_enter /\ todo' = <<>>
           /\ todo = <<"close_brake", "csc_enter">> =>
                Outputs /\ At("close_brake") /\ todo' = <<"csc_enter">>
           /\ todo = <<"close_brake", "set_override", "disconnect_motor", "clear_stopping",
                       "csc_enter">> =>
                /\ Outputs /\ At("close_brake")
                /\ todo' = <<"set_override", "disconnect_motor", "clear_stopping", "csc_enter">>
           /\ todo = <<"set_override", "disconnect_motor", "clear_stopping", "csc_enter">> =>
                /\ Outputs /\ At("set_override")
                /\ todo' = <<"disconnect_motor", "clear_stopping", "csc_enter">>
           /\ todo = <<"disconnect_motor", "clear_stopping", "csc_enter">> =>
                /\ Outputs /\ At("disconnect_motor")
                /\ todo' = <<"clear_stopping", "csc_enter">>
           /\ todo = <<"clear_stopping", "csc_enter">> => clear_stopping /\ todo' = <<"csc_enter">>
<1>1. ASSUME NEW ops \in Seq(Ops), Then(ops)
      PROVE  /\ Tail(todo) = <<>> => todo' = ops
             /\ ops = <<>> => todo' = Tail(todo)
  <2>1. Tail(todo) \in Seq(Ops)
    BY TailElements, HeadOperation DEF TypeOK
  <2> QED
    BY <1>1, <2>1, Concatenations DEF Then
<1>2. Then(<<>>) => todo' = Tail(todo)
  BY <1>1, CallTypes
<1>3. ASSUME NEW op \in {"close_brake", "set_override", "disconnect_motor"}, Head(todo) = op
      PROVE  Outputs /\ At(op) /\ todo' = Tail(todo)
  BY <1>2, <1>3, HeadOperation DEF Outputs, At, Idle
<1>4. CASE todo = <<"stop_exe">>
  <2> DEFINE letGo == <<"set_override", "disconnect_motor", "clear_stopping">>
             full == <<"close_brake", "set_override", "disconnect_motor", "clear_stopping",
                       "csc_enter">>
  <2>1. Head(todo) = "stop_exe" /\ Tail(todo) = <<>>
    BY <1>4, Lists
  <2>2. stop_exe
    BY <2>1, HeadOperation
  <2>3. /\ <<"csc_enter">> \in Seq(Ops) /\ <<"close_brake", "csc_enter">> \in Seq(Ops)
        /\ <<"close_brake">> \in Seq(Ops) /\ full \in Seq(Ops)
    BY DEF Ops
  <2>4. ASSUME NEW c
        PROVE  <<"close_brake">> \o If(c, letGo) \o <<"csc_enter">>
                 \in {<<"close_brake", "csc_enter">>, full}
    <3>1. <<"close_brake">> \o <<>> = <<"close_brake">>
      BY <2>3, Concatenations
    <3>2. If(c, letGo) = letGo \/ If(c, letGo) = <<>>
      BY DEF If
    <3> QED
      BY <3>1, <3>2, Concatenations
  <2> HIDE DEF letGo, full
  <2>5. \/ Then(<<"csc_enter">>) \/ Then(<<"close_brake", "csc_enter">>)
        \/ \E c : Then(<<"close_brake">> \o If(c, letGo) \o <<"csc_enter">>)
    BY <2>2 DEF stop_exe, letGo
  <2>6. Then(<<"csc_enter">>) \/ Then(<<"close_brake", "csc_enter">>) \/ Then(full)
    BY <2>4, <2>5
  <2> QED
    BY <1>1, <1>4, <2>1, <2>2, <2>3, <2>6 DEF full
<1>5. CASE todo = <<"csc_enter">>
  <2>1. Head(todo) = "csc_enter" /\ Tail(todo) = <<>>
    BY <1>5, Lists
  <2> QED
    BY <1>2, <1>5, <2>1, HeadOperation DEF csc_enter
<1>6. CASE todo = <<"clear_stopping", "csc_enter">>
  <2>1. Head(todo) = "clear_stopping" /\ Tail(todo) = <<"csc_enter">>
    BY <1>6, Lists
  <2> QED
    BY <1>2, <1>6, <2>1, HeadOperation DEF clear_stopping
<1>7. ASSUME todo = <<"close_brake", "csc_enter">>
      PROVE  Outputs /\ At("close_brake") /\ todo' = <<"csc_enter">>
  BY <1>3, <1>7, Lists
<1>8. ASSUME NEW b, NEW c, todo = <<"disconnect_motor", b, c>>
      PROVE  Outputs /\ At("disconnect_motor") /\ todo' = <<b, c>>
  BY <1>3, <1>8, Lists
<1>9. ASSUME NEW b, NEW c, NEW d, todo = <<"set_override", b, c, d>>
      PROVE  Outputs /\ At("set_override") /\ todo' = <<b, c, d>>
  BY <1>3, <1>9, Lists
<1>10. ASSUME NEW b, NEW c, NEW d, NEW e, todo = <<"close_brake", b, c, d, e>>
       PROVE  Outputs /\ At("close_brake") /\ todo' = <<b, c, d, e>>
  BY <1>3, <1>10, Lists
<1> QED
  BY <1>4, <1>5, <1>6, <1>7, <1>8, <1>9, <1>10, Zenon

\* The bound on the calls of the handler between two ticks of the speed loop.
LEMMA LateBound ==
    ASSUME TypeOK
    PROVE  sc_steps \in Nat /\ late \in Nat /\ SC_STEPS \in Nat /\ late <= SC_STEPS
BY DriveAssumption DEF DriveAssumption, TypeOK

\* CallInv holds of a call with no operation that starts the motor or stops it.
LEMMA QuietCall ==
    ASSUME (Elements(todo) \cap (StartOps \cup StopOps))' = {}, Ramped'
    PROVE  CallInv'
BY DEF CallInv, Starting, Stopping, Has, StartOps, StopOps

\* A call that starts the motor goes on in the state it was called in.
LEMMA StartingCall ==
    ASSUME TypeOK, CallInv, Operation, todo \in StartCalls
    PROVE  CallInv'
<1> USE LateBound, ListElements, CallElements, StartStep
<1>1. CASE todo = <<"csc_exe">>
  <2>1. csc_exe /\ vfdstate = "csc_exe" /\ (desired => sc_steps + 2 <= late)
    BY <1>1 DEF CallInv, Starting, Has
  <2>2. UNCHANGED <<vfdstate, desired, sc_steps, late>>
    BY <2>1 DEF csc_exe, speeds
  <2>3. todo' \in {<<"clear_override", "scCheck_exe">>, <<"stop_enter">>}
    BY <1>1
  <2>4. CASE todo' = <<"stop_enter">>
    BY <2>1, <2>2, <2>4, QuietCall DEF Ramped, StartOps, StopOps
  <2>5. CASE todo' = <<"clear_override", "scCheck_exe">>
    BY <2>1, <2>2, <2>5
       DEF CallInv, Starting, Stopping, Ramped, Has, StartOps, StopOps, StartCalls
  <2> QED
    BY <2>3, <2>4, <2>5
<1>2. CASE todo = <<"clear_override", "scCheck_exe">>
  <2>1. Outputs /\ vfdstate = "csc_exe" /\ (desired => sc_steps + 2 <= late)
    BY <1>2 DEF CallInv, Starting, Has
  <2>2. UNCHANGED <<vfdstate, desired, sc_steps, late>> /\ todo' = <<"scCheck_exe">>
    BY <1>2, <2>1 DEF Outputs, speeds, check
  <2> QED
    BY <2>1, <2>2 DEF CallInv, Starting, Stopping, Ramped, Has, StartOps, StopOps, StartCalls
<1>3. CASE todo = <<"scCheck_exe">>
  <2>1. scCheck_exe /\ vfdstate = "csc_exe" /\ (desired => sc_steps + 2 <= late)
    BY <1>3 DEF CallInv, Starting, Has
  <2>2. /\ UNCHANGED <<vfdstate, desired, late>>
        /\ sc_steps' = IF sc_steps + 1 >= SC_STEPS THEN SC_STEPS ELSE sc_steps + 1
    BY <2>1 DEF scCheck_exe, speeds
  <2>3. Ramped' /\ (todo' # <<>> => ~desired')
    BY <1>3, <2>1, <2>2 DEF Ramped
  <2>4. CASE todo' \in {<<>>, <<"tune_enter">>}
    BY <2>3, <2>4, QuietCall DEF StartOps, StopOps
  <2>5. CASE todo' = <<"stop_exit">>
    <3>1. ~desired'
      BY <2>3, <2>5
    <3> QED
      BY <2>1, <2>2, <2>3, <2>5, <3>1
         DEF CallInv, Starting, Stopping, Has, StartOps, StopOps, StartCalls
  <2> QED
    BY <1>3, <2>4, <2>5
<1>4. CASE todo \in {<<"stop_exit">>, <<"connect_motor", "hold">>, <<"hold">>,
                     <<"clear_override", "permission">>, <<"permission">>,
                     <<"open_brake", "move">>, <<"move">>, <<"active_enter">>}
  <2>1. vfdstate = "csc_exe" /\ ~desired
    BY <1>4 DEF CallInv, Starting, Has
  <2>2. stop_exit \/ Outputs \/ hold \/ permission \/ move \/ active_enter
    BY <1>4
  <2>3. vfdstate' = "csc_exe" /\ ~desired'
    <3>1. UNCHANGED vfdstate /\ UNCHANGED speeds
      BY <2>2 DEF stop_exit, Outputs, hold, permission, move, active_enter
    <3>2. ~desired'
      BY <2>1, <3>1, Zenon DEF speeds
    <3> QED
      BY <2>1, <3>1, <3>2
  <2>4. todo' \in {<<>>, <<"connect_motor", "hold">>, <<"hold">>, <<"clear_override">>,
                   <<"clear_override", "permission">>, <<"permission">>, <<"open_brake", "move">>,
                   <<"move">>, <<"active_enter">>, <<"activate">>, <<"stop_enter", "activate">>}
    BY <1>4
  <2>5. CASE todo' \in {<<>>, <<"clear_override">>}
    BY <2>3, <2>5, QuietCall DEF Ramped, StartOps, StopOps
  <2>6. CASE todo' \in {<<"connect_motor", "hold">>, <<"hold">>,
                   <<"clear_override", "permission">>, <<"permission">>, <<"open_brake", "move">>,
                   <<"move">>, <<"active_enter">>, <<"activate">>, <<"stop_enter", "activate">>}
    <3>1. Elements(todo') \cap StopOps = {} /\ todo' \in StartCalls
          /\ "csc_exe" \notin Elements(todo') /\ "scCheck_exe" \notin Elements(todo')
      BY <2>6 DEF StopOps, StartCalls
    <3> QED
      BY <2>3, <3>1 DEF CallInv, Starting, Stopping, Ramped, Has
  <2> QED
    BY <2>4, <2>5, <2>6
<1>5. CASE todo \in {<<"stop_enter", "activate">>, <<"activate">>}
  <2>1. vfdstate \in {"csc_exe", "stop_exe"} /\ ~desired /\ (stop_enter \/ activate)
    BY <1>5 DEF CallInv, Starting, Has
  <2>2. ~desired'
    BY <2>1, Zenon DEF stop_enter, activate, speeds
  <2>3. CASE todo = <<"stop_enter", "activate">>
    <3>1. vfdstate' = "stop_exe" /\ todo' = <<"activate">>
      BY <2>1, <2>3 DEF stop_enter
    <3> QED
      BY <2>2, <3>1 DEF CallInv, Starting, Stopping, Ramped, Has, StartOps, StopOps, StartCalls
  <2>4. CASE todo = <<"activate">>
    <3>1. vfdstate' = "active_exe" /\ todo' = <<"clear_override", "open_brake">>
      BY <2>1, <2>4 DEF activate
    <3> QED
      BY <2>2, <3>1 DEF CallInv, Starting, Stopping, Ramped, Has, StartOps, StopOps, StartCalls
  <2> QED
    BY <1>5, <2>3, <2>4
<1>6. CASE todo \in {<<"clear_override", "open_brake">>, <<"open_brake">>}
  <2>1. /\ vfdstate \in {"csc_exe", "active_exe"} /\ Outputs
        /\ todo' \in {<<"open_brake">>, <<>>}
    BY <1>6 DEF CallInv, Starting, Has
  <2>2. UNCHANGED <<vfdstate, desired, sc_steps, late>>
    BY <2>1 DEF Outputs, speeds, check
  <2>3. Ramped'
    BY <2>2 DEF CallInv, Ramped
  <2>4. CASE todo' = <<>>
    BY <2>3, <2>4, QuietCall
  <2>5. CASE todo' = <<"open_brake">>
    BY <2>1, <2>2, <2>3, <2>5
       DEF CallInv, Starting, Stopping, Has, StartOps, StopOps, StartCalls
  <2> QED
    BY <2>1, <2>4, <2>5
<1> QED
  BY <1>1, <1>2, <1>3, <1>4, <1>5, <1>6 DEF StartCalls

\* A call of the stop state goes on in it, up to the check of the circuit.
LEMMA StoppingCall ==
    ASSUME TypeOK, CallInv, Operation, todo \in StopCalls
    PROVE  CallInv'
<1>1. vfdstate = "stop_exe" /\ (desired => 1 <= late)
  <2>1. Has("stop_exe") \/ Has("csc_enter")
    BY ListElements DEF StopCalls, Has
  <2> QED
    BY <2>1 DEF CallInv, Stopping, StopOps, Has
<1> USE LateBound, ListElements, CallElements, StopStep
<1>2. CASE todo = <<"csc_enter">>
  <2>1. csc_enter /\ todo' = <<>>
    BY <1>2
  <2>2. UNCHANGED <<desired, late>> /\ (vfdstate' = "csc_exe" => sc_steps' = 0)
    BY <1>1, <2>1 DEF csc_enter, speeds
  <2>3. Ramped'
    BY <1>1, <2>2 DEF Ramped
  <2> QED
    BY <2>1, <2>3, QuietCall
<1>3. CASE todo # <<"csc_enter">>
  <2>1. (stop_exe \/ Outputs \/ clear_stopping) /\ todo' \in StopCalls
    BY <1>3 DEF StopCalls
  <2>2. UNCHANGED <<vfdstate, desired, late>>
    BY <2>1 DEF stop_exe, Outputs, clear_stopping, speeds
  <2>3. Elements(todo') \cap StartOps = {}
    BY <2>1 DEF StopCalls, StartOps
  <2>4. Starting'
    BY <2>3 DEF Starting, Has, StartOps
  <2> QED
    <3>1. Ramped'
      BY <1>1, <2>2 DEF Ramped
    <3>2. Stopping'
      BY <1>1, <2>1, <2>2 DEF Stopping
    <3> QED
      BY <2>4, <3>1, <3>2 DEF CallInv
<1> QED
  BY <1>2, <1>3

\* Every other call leaves the short-circuit check alone.
LEMMA OtherQuiet ==
    ASSUME TypeOK, Operation, Elements(todo) \cap (StartOps \cup StopOps) = {}
    PROVE  Elements(todo') \cap (StartOps \cup StopOps) = {}
<1>1. todo \in Seq(Ops) /\ todo # <<>>
  BY OtherOperation
<1>2. Elements(Tail(todo)) \cap (StartOps \cup StopOps) = {}
  BY <1>1, TailElements
<1>3. PICK ops \in Seq(Ops) : Then(ops) /\ Elements(ops) \cap (StartOps \cup StopOps) = {}
  BY OtherCall
<1>4. Elements(todo') = Elements(ops) \cup Elements(Tail(todo))
  BY <1>1, <1>3, ThenExact
<1> QED
  BY <1>2, <1>3, <1>4

\* Without a protection in the middle of a call, every step keeps CallInv.
LEMMA CallStep ==
    ASSUME Preemptive = FALSE, TypeOK, CallInv, [Next]_vars
    PROVE  CallInv'
<1> USE LateBound
<1>1. CASE Operation
  <2>1. CASE todo \in StartCalls
    BY <1>1, <2>1, StartingCall
  <2>2. CASE todo \in StopCalls
    BY <1>1, <2>2, StoppingCall
  <2>3. CASE Elements(todo) \cap (StartOps \cup StopOps) = {}
    <3>1. Ramped'
      BY <1>1, <2>3, OtherCall DEF CallInv, Ramped, check
    <3> QED
      BY <1>1, <2>3, <3>1, OtherQuiet, QuietCall
  <2> QED
    BY <2>1, <2>2, <2>3 DEF CallInv, Starting, Stopping
<1>2. ASSUME Idle, todo' = todo, Ramped'
      PROVE  CallInv'
  BY <1>2, QuietCall, CallElements DEF Idle
<1>3. CASE vfd_states_handler
  <2>1. /\ late' = late + 1 /\ todo' = <<vfdstate>>
        /\ UNCHANGED <<vfdstate, desired, sc_steps>>
    BY <1>3 DEF vfd_states_handler, speeds, check
  <2>2. Ramped' /\ (desired' /\ vfdstate' = "csc_exe" => sc_steps' + 2 <= late')
    BY <2>1 DEF CallInv, Ramped
  <2>3. Elements(todo') = {vfdstate'}
    BY <2>1, CallElements
  <2>4. CASE vfdstate' \notin {"csc_exe", "stop_exe"}
    <3>1. vfdstate' \in States
      BY <2>1 DEF TypeOK
    <3> QED
      BY <2>2, <2>3, <2>4, <3>1, QuietCall DEF States, StartOps, StopOps
  <2>5. CASE vfdstate' = "csc_exe"
    BY <2>1, <2>2, <2>3, <2>5
       DEF CallInv, Starting, Stopping, Has, StartOps, StopOps, StartCalls
  <2>6. CASE vfdstate' = "stop_exe"
    BY <2>1, <2>2, <2>3, <2>6
       DEF CallInv, Starting, Stopping, Has, StartOps, StopOps, StopCalls
  <2> QED
    BY <2>4, <2>5, <2>6
<1>4. ASSUME todo' = states_estop \/ todo' = states_estop \o <<"clear_speed">>,
             UNCHANGED <<vfdstate, desired, sc_steps, late>>
      PROVE  CallInv'
  <2>1. (Elements(todo) \cap (StartOps \cup StopOps))' = {}
    BY <1>4, CallElements DEF StartOps, StopOps
  <2> QED
    BY <1>4, <2>1, QuietCall DEF CallInv, Ramped
<1>5. CASE vfd_scurve_exe
  <2>1. ~desired' \/ vfdstate = "active_exe"
    BY <1>5, Zenon DEF vfd_scurve_exe
  <2>2. UNCHANGED <<vfdstate, todo, sc_steps>> /\ ("active_exe" = vfdstate => ~(vfdstate = "csc_exe"))
    BY <1>5 DEF vfd_scurve_exe, check
  <2>3. CASE ~desired'
    BY <2>2, <2>3 DEF CallInv, Starting, Stopping, Ramped, Has
  <2>4. CASE vfdstate = "active_exe"
    BY <2>2, <2>4 DEF CallInv, Starting, Stopping, Ramped, Has
  <2> QED
    BY <2>1, <2>3, <2>4
<1>6. CASE states_trip /\ Idle /\ todo' = todo
  BY <1>2, <1>6 DEF states_trip, Ramped
<1>7. CASE Idle /\ UNCHANGED <<vfdstate, todo, desired, sc_steps, late>>
  BY <1>2, <1>7 DEF CallInv, Ramped
<1>8. CASE vfd_trip
  <2>1. Idle /\ todo' = todo /\ ~desired'
    BY <1>8, Zenon DEF vfd_trip
  <2> QED
    BY <1>2, <2>1 DEF Ramped
<1>9. CASE Softcharge
  <2>1. CASE states_trip
    BY <1>6, <1>9, <2>1 DEF Softcharge
  <2>2. CASE UNCHANGED <<vfdstate, power, motor, speeds>>
    BY <1>7, <1>9, <2>2 DEF Softcharge, speeds, check
  <2> QED
    BY <1>9, <2>1, <2>2 DEF Softcharge
<1>10. CASE vfd_estop \/ vfd_enableCheck
  BY <1>4, <1>6, <1>10 DEF vfd_estop, vfd_enableCheck, speeds, check
<1>11. CASE Run \/ Stop \/ motor_excitation_handler \/ Environment
  BY <1>7, <1>11 DEF Run, Stop, motor_excitation_handler, Environment, speeds, check
<1>12. CASE scCheck_current_handler
  BY <1>6, <1>12 DEF scCheck_current_handler
<1>13. CASE UNCHANGED vars
  BY <1>13 DEF vars, speeds, check, CallInv, Starting, Stopping, Ramped, Has
<1> QED
  BY <1>1, <1>3, <1>5, <1>8, <1>9, <1>10, <1>11, <1>12, <1>13 DEF Next

-----------------------------------------------------------------------------
\* The feedback input of the main contactor is read only while it is closed, so
\* the motor counts as connected only when it is.
LEMMA MotorOnStep ==
    ASSUME TRUE \notin MainFeedback, TypeOK, MotorOn, [Next]_vars
    PROVE  MotorOn'
<1> USE DEF MotorOn
<1>1. CASE UNCHANGED motor
  BY <1>1
<1>2. CASE Outputs
  <2>1. CASE At("connect_motor")
    BY <1>2, <2>1 DEF Outputs, At, TypeOK, Contactor
  <2>2. CASE At("disconnect_motor")
    BY <1>2, <2>2 DEF Outputs, At, TypeOK, Contactor
  <2> QED
    BY <1>1, <1>2, <2>1, <2>2 DEF Outputs
<1>3. CASE states_trip
  BY <1>3 DEF states_trip, TypeOK, Contactor
<1>4. CASE motor_excitation_handler
  <2> USE DEF TypeOK, Contactor
  <2>1. CASE motor.stage = 0
    <3>1. ~motor.connected
      BY <2>1
    <3>2. CASE motor' = [motor EXCEPT !.main = FALSE]
      BY <3>1, <3>2
    <3>3. CASE motor' = [motor EXCEPT !.stage = 1, !.connected = FALSE, !.connect = FALSE,
                                      !.main = TRUE]
      BY <3>3
    <3> QED
      BY <1>4, <2>1, <3>2, <3>3 DEF motor_excitation_handler
  <2>2. CASE motor.stage = 1 /\ motor.disconnect
    <3>1. CASE motor' = [motor EXCEPT !.main = FALSE, !.connected = FALSE]
      BY <3>1
    <3>2. CASE motor' = [motor EXCEPT !.main = FALSE, !.connected = FALSE, !.stage = 0,
                                      !.disconnect = FALSE]
      BY <3>2
    <3> QED
      BY <1>4, <2>2, <3>1, <3>2 DEF motor_excitation_handler
  <2>3. CASE motor.stage = 1 /\ ~motor.disconnect
    <3>1. PICK mConFB \in IF motor.main THEN BOOLEAN ELSE MainFeedback :
             motor' = [motor EXCEPT !.connected = @ \/ mConFB]
      BY <1>4, <2>3 DEF motor_excitation_handler
    <3>2. motor.main \/ mConFB = FALSE
      BY <3>1, DriveAssumption DEF DriveAssumption
    <3> QED
      BY <2>3, <3>1, <3>2 DEF TypeOK, Contactor
  <2> QED
    BY <2>1, <2>2, <2>3 DEF TypeOK, Contactor
<1>5. CASE Operation
  BY <1>1, <1>2, <1>5
     DEF Operation, init_exe, stop_enter, stop_exe, csc_enter, csc_exe, scCheck_exe,
         stop_exit, hold, permission, move, active_enter, activate, active_exe, active_exit,
         trip_exe, tune_enter, tune, tune_state, tune_exe, tune_exit, estop, clear_stopping,
         clear_speed
<1> QED
  BY <1>1, <1>3, <1>4, <1>5
     DEF Next, vars, vfd_states_handler, vfd_estop, Run, Stop, vfd_trip, scCheck_current_handler,
         vfd_enableCheck, Softcharge, vfd_scurve_exe, Environment

\* The operations that need the motor, and those that let it go.
NeedMotor == {"permission", "open_brake", "move", "active_enter", "activate"}
LetGo == {"set_override", "disconnect_motor"}

\* Holding holds after a step that leaves the outputs and the motor alone, when
\* the call left has nothing new that needs the motor or lets it go.
LEMMA SameOutputs ==
    ASSUME Holding, UNCHANGED <<power, motor>>,
           (Has("clear_override"))' \/ ~Has("clear_override"),
           Elements(todo') \cap NeedMotor # {} => Elements(todo) \cap NeedMotor # {},
           (Has("hold") /\ ~Has("connect_motor"))' => Has("hold") /\ ~Has("connect_motor"),
           (Has("close_brake"))' \/ ~Has("close_brake"),
           Elements(todo') \cap LetGo # {}
             => Elements(todo) \cap LetGo # {} \/ (Has("close_brake"))'
    PROVE  Holding'
<1>1. (brake' <=> brake) /\ (override' <=> override) /\ motor' = motor
  BY Zenon DEF power
<1>2. Elements(todo) \cap NeedMotor # {} => Held
  BY DEF Holding, Has, NeedMotor
<1>3. Held => Held'
  BY <1>1, Zenon DEF Held
<1>4. Elements(todo') \cap NeedMotor # {} => Held'
  BY <1>2, <1>3
<1>5. (Has("permission") \/ Has("open_brake") \/ Has("move") \/ Has("active_enter")
         \/ Has("activate") => Held)'
  BY <1>4 DEF Has, NeedMotor
<1>6. (Has("hold") /\ ~Has("connect_motor") => ~motor.disconnect)'
  BY <1>1, Zenon DEF Holding
<1>7. (brake /\ ~Has("close_brake") => Held)'
  BY <1>1, <1>3, Zenon DEF Holding
<1>8. (Has("set_override") \/ Has("disconnect_motor"))' =>
        Has("set_override") \/ Has("disconnect_motor") \/ (Has("close_brake"))'
  BY DEF Has, LetGo
<1>9. ((Has("set_override") \/ Has("disconnect_motor")) /\ ~Has("close_brake") => ~brake)'
  BY <1>1, <1>8, Zenon DEF Holding
<1> QED
  BY <1>5, <1>6, <1>7, <1>9, Zenon DEF Holding

\* What is left of a call after an output is set: the rest.
LEMMA OutputsCall ==
    ASSUME TypeOK, Outputs
    PROVE  /\ todo # <<>> /\ todo' = Tail(todo)
           /\ Elements(todo) = {Head(todo)} \cup Elements(todo')
<1>1. todo # <<>> /\ Then(<<>>)
  BY DEF Outputs, Idle
<1>2. Tail(todo) \in Seq(Ops)
  BY <1>1, TailElements DEF TypeOK
<1>3. todo' = Tail(todo)
  BY <1>1, <1>2, Concatenations DEF Then
<1> QED
  BY <1>1, <1>3, HeadElements DEF TypeOK

\* Where in a call an output is set: nothing that follows set_override or
\* disconnect_motor needs the motor, and nothing that follows open_brake lets
\* it go.
LEMMA OutputsPlace ==
    ASSUME TypeOK, CallInv, Outputs
    PROVE  /\ At("set_override") \/ At("disconnect_motor")
                => Elements(todo') \cap (NeedMotor \cup {"hold"}) = {}
           /\ At("open_brake") => Elements(todo') \cap LetGo = {}
<1>1. /\ todo # <<>> /\ todo' = Tail(todo)
      /\ Elements(todo) = {Head(todo)} \cup Elements(todo')
  BY OutputsCall
<1>2. CASE Elements(todo) \cap StartOps = {}
  BY <1>1, <1>2 DEF StartOps, NeedMotor, At
<1>3. CASE todo \in StartCalls
  <2>1. Operation
    BY DEF Operation
  <2>2. CASE todo \in {<<"open_brake", "move">>, <<"open_brake">>}
    <3>1. todo' \in {<<"move">>, <<>>}
      BY <2>1, <2>2, StartStep
    <3>2. Head(todo) = "open_brake"
      BY <2>2, Lists
    <3> QED
      BY <3>1, <3>2, ListElements, CallElements DEF At, LetGo
  <2>3. CASE todo \in StartCalls \ {<<"open_brake", "move">>, <<"open_brake">>}
    <3>1. Head(todo) \notin {"open_brake", "set_override", "disconnect_motor"}
      BY <2>3, Lists DEF StartCalls
    <3> QED
      BY <3>1 DEF At
  <2> QED
    BY <1>3, <2>2, <2>3
<1> QED
  BY <1>2, <1>3 DEF CallInv, Starting

\* Setting an output keeps Holding.
LEMMA OutputsHolding ==
    ASSUME TypeOK, CallInv, Exclusive, Holding, Outputs
    PROVE  Holding'
<1>1. Elements(todo) = {Head(todo)} \cup Elements(todo') /\ todo # <<>>
  BY OutputsCall
<1>2. /\ At("set_override") \/ At("disconnect_motor")
           => Elements(todo') \cap (NeedMotor \cup {"hold"}) = {}
      /\ At("open_brake") => Elements(todo') \cap LetGo = {}
  BY OutputsPlace
<1>3. \A op : (Has(op))' => Has(op)
  BY <1>1 DEF Has
<1>4. \A op : ~At(op) /\ Has(op) => (Has(op))'
  BY <1>1 DEF Has, At, Idle
<1>5. \A op : At(op) => Head(todo) = op /\ Has(op)
  BY <1>1 DEF Has, At
<1>6. CASE At("set_override") \/ At("disconnect_motor")
  <2>1. brake' <=> brake
    <3>1. Head(todo) \in {"set_override", "disconnect_motor"}
      BY <1>5, <1>6
    <3>2. ~At("open_brake") /\ ~At("close_brake")
      BY <3>1, <1>5
    <3>3. CASE UNCHANGED <<brake, motor>>
      BY <3>3, Zenon
    <3>4. CASE UNCHANGED power
      BY <3>4, Zenon DEF power
    <3> QED
      BY <1>6, <3>1, <3>2, <3>3, <3>4, <1>5 DEF Outputs
  <2>2. brake => Has("close_brake")
    BY <1>5, <1>6, Zenon DEF Holding
  <2>3. Has("close_brake") => (Has("close_brake"))'
    BY <1>4, <1>5, <1>6
  <2>4. (~Has("permission") /\ ~Has("open_brake") /\ ~Has("move") /\ ~Has("active_enter")
          /\ ~Has("activate") /\ ~Has("hold"))'
    BY <1>2, <1>6 DEF Has, NeedMotor
  <2> QED
    BY <2>1, <2>2, <2>3, <2>4, Zenon DEF Holding
<1>7. CASE At("clear_override")
  <2>1. /\ ~override' /\ (brake' <=> brake) /\ motor' = motor
        /\ Head(todo) = "clear_override"
    <3>1. Head(todo) = "clear_override"
      BY <1>5, <1>7
    <3>2. ~At("open_brake") /\ ~At("close_brake") /\ ~At("set_override")
          /\ ~At("connect_motor") /\ ~At("disconnect_motor")
      BY <3>1, <1>5
    <3>3. override' = FALSE /\ UNCHANGED <<brake, motor>>
      BY <1>7, <3>2 DEF Outputs
    <3> QED
      BY <3>1, <3>3, Zenon DEF power
  <2>2. /\ (Has("close_brake"))' <=> Has("close_brake")
        /\ (Has("connect_motor"))' <=> Has("connect_motor")
    BY <1>3, <1>4, <1>5, <2>1
  <2>3. Held => Held'
    BY <2>1, Zenon DEF Held
  <2> QED
    BY <1>3, <2>1, <2>2, <2>3, Zenon DEF Holding
<1>8. CASE At("close_brake")
  <2>1. ~brake' /\ UNCHANGED <<override, motor>> /\ Head(todo) = "close_brake"
    <3>1. Head(todo) = "close_brake"
      BY <1>5, <1>8
    <3>2. ~At("open_brake") /\ ~At("clear_override") /\ ~At("set_override")
          /\ ~At("connect_motor") /\ ~At("disconnect_motor")
      BY <3>1, <1>5
    <3>3. brake' = FALSE /\ UNCHANGED <<override, motor>>
      BY <1>8, <3>2 DEF Outputs
    <3> QED
      BY <3>1, <3>3, Zenon DEF power
  <2>2. /\ (Has("clear_override"))' <=> Has("clear_override")
        /\ (Has("connect_motor"))' <=> Has("connect_motor")
    BY <1>3, <1>4, <1>5, <2>1
  <2>3. Held => Held'
    BY <2>1, <2>2, Zenon DEF Held
  <2> QED
    BY <1>3, <2>1, <2>2, <2>3, Zenon DEF Holding
<1>9. CASE At("open_brake")
  <2>1. UNCHANGED <<override, motor>> /\ Head(todo) = "open_brake"
    <3>1. Head(todo) = "open_brake"
      BY <1>5, <1>9
    <3>2. ~At("close_brake") /\ ~At("clear_override") /\ ~At("set_override")
          /\ ~At("connect_motor") /\ ~At("disconnect_motor")
      BY <3>1, <1>5
    <3>3. brake' = TRUE /\ UNCHANGED <<override, motor>>
      BY <1>9, <3>2 DEF Outputs
    <3> QED
      BY <3>1, <3>3, Zenon DEF power
  <2>2. /\ (Has("clear_override"))' <=> Has("clear_override")
        /\ (Has("connect_motor"))' <=> Has("connect_motor")
    BY <1>3, <1>4, <1>5, <2>1
  <2>3. Held'
    <3>1. Held
      BY <1>5, <1>9, Zenon DEF Holding
    <3> QED
      BY <2>1, <2>2, <3>1, Zenon DEF Held
  <2>4. (~Has("set_override") /\ ~Has("disconnect_motor"))'
    BY <1>2, <1>9 DEF Has, LetGo
  <2> QED
    BY <1>3, <2>1, <2>2, <2>3, <2>4, Zenon DEF Holding
<1>10. CASE At("connect_motor")
  <2>1. /\ (override' <=> override) /\ (brake' <=> brake) /\ Head(todo) = "connect_motor"
        /\ motor' = [motor EXCEPT !.connect = TRUE, !.disconnect = @ /\ motor.connect]
    <3>1. Head(todo) = "connect_motor"
      BY <1>5, <1>10
    <3>2. ~At("close_brake") /\ ~At("clear_override") /\ ~At("set_override")
          /\ ~At("open_brake") /\ ~At("disconnect_motor")
      BY <3>1, <1>5
    <3>3. /\ motor' = [motor EXCEPT !.connect = TRUE, !.disconnect = @ /\ motor.connect]
          /\ UNCHANGED power
      BY <1>10, <3>2 DEF Outputs
    <3> QED
      BY <3>1, <3>3, Zenon DEF power
  <2>2. /\ (Has("clear_override"))' <=> Has("clear_override")
        /\ (Has("close_brake"))' <=> Has("close_brake")
    BY <1>3, <1>4, <1>5, <2>1
  <2>3. ~motor'.disconnect /\ (motor'.connected <=> motor.connected)
    BY <2>1 DEF Exclusive, TypeOK, Contactor
  <2>4. Held => Held'
    BY <2>1, <2>2, <2>3, Zenon DEF Held
  <2> QED
    BY <1>3, <2>1, <2>2, <2>3, <2>4, Zenon DEF Holding
<1> QED
  BY <1>6, <1>7, <1>8, <1>9, <1>10, Zenon DEF Outputs

\* Every step of a call but an output leaves the outputs and the motor alone,
\* and what it leaves of the call includes all but its first operation.
LEMMA SilentOperation ==
    ASSUME TypeOK, Operation, ~Outputs
    PROVE  /\ UNCHANGED <<power, motor>>
           /\ Elements(todo) \subseteq {Head(todo)} \cup Elements(todo')
           /\ Head(todo) \notin {"set_override", "clear_override", "open_brake", "close_brake",
                                 "connect_motor", "disconnect_motor"}
<1>1. UNCHANGED <<power, motor>>
  BY DEF Operation, init_exe, stop_enter, stop_exe, csc_enter, csc_exe, scCheck_exe,
         stop_exit, hold, permission, move, active_enter, activate, active_exe, active_exit,
         trip_exe, tune_enter, tune, tune_state, tune_exe, tune_exit, estop, clear_stopping,
         clear_speed
<1>2. todo # <<>> /\ todo \in Seq(Ops)
  BY OperationCall DEF TypeOK
<1>3. PICK ops \in Seq(Ops) : Then(ops)
  BY OperationCall
<1>4. Elements(todo') = Elements(ops) \cup Elements(Tail(todo))
  BY <1>2, <1>3, ThenExact
<1> QED
  BY <1>1, <1>2, <1>4, HeadElements, HeadOperation

\* A step of a call keeps Holding: the motor is connected before hold goes on.
LEMMA HoldingOperation ==
    ASSUME TypeOK, CallInv, Exclusive, Holding, Operation
    PROVE  Holding'
<1>1. CASE Outputs
  BY <1>1, OutputsHolding
<1>2. CASE ~Outputs
  <2>1. /\ UNCHANGED <<power, motor>>
        /\ Elements(todo) \subseteq {Head(todo)} \cup Elements(todo')
        /\ Head(todo) \notin {"set_override", "clear_override", "open_brake", "close_brake",
                              "connect_motor", "disconnect_motor"}
    BY <1>2, SilentOperation
  <2>2. /\ (Has("clear_override"))' \/ ~Has("clear_override")
        /\ (Has("close_brake"))' \/ ~Has("close_brake")
    BY <2>1 DEF Has
  <2>3. CASE todo = <<"hold">>
    <3>1. /\ hold /\ todo' \in {<<>>, <<"clear_override">>, <<"clear_override", "permission">>}
          /\ todo' = <<>> \/ motor.connected
      BY <2>3, StartStep
    <3>2. Elements(todo) = {"hold"}
      BY <2>3, ListElements
    <3>3. Elements(todo') \subseteq {"clear_override", "permission"}
      BY <3>1, CallElements, ListElements
    <3>4. CASE "permission" \in Elements(todo')
      <4>1. motor.connected /\ ~motor.disconnect
        <5>1. motor.connected
          BY <3>1, <3>4, CallElements
        <5> QED
          BY <3>2, <5>1 DEF Holding, Has
      <4>2. (Has("clear_override"))'
        BY <3>1, <3>4, CallElements, ListElements DEF Has
      <4>3. Held'
        BY <2>1, <4>1, <4>2 DEF Held
      <4>4. (~Has("hold") /\ ~Has("set_override") /\ ~Has("disconnect_motor"))'
        BY <3>3 DEF Has
      <4> QED
        BY <4>3, <4>4, Zenon DEF Holding
    <3>5. CASE "permission" \notin Elements(todo')
      <4>1. Elements(todo') \cap (NeedMotor \cup LetGo \cup {"hold"}) = {}
        BY <3>3, <3>5 DEF NeedMotor, LetGo
      <4> QED
        BY <2>1, <2>2, <4>1, SameOutputs DEF Has
    <3> QED
      BY <3>4, <3>5
  <2>4. CASE todo \in StartCalls \ {<<"hold">>}
    <3>1. CASE todo \in {<<"csc_exe">>, <<"scCheck_exe">>, <<"stop_exit">>}
      <4>1. todo' \in {<<"clear_override", "scCheck_exe">>, <<"stop_enter">>, <<>>,
                       <<"tune_enter">>, <<"stop_exit">>, <<"connect_motor", "hold">>}
        BY <3>1, StartStep
      <4>2. /\ Elements(todo') \cap (NeedMotor \cup LetGo) = {}
            /\ (Has("hold"))' => (Has("connect_motor"))'
        BY <4>1, CallElements, ListElements DEF NeedMotor, LetGo, Has
      <4> QED
        BY <2>1, <2>2, <4>2, SameOutputs
    <3>2. CASE todo \in {<<"permission">>, <<"move">>, <<"active_enter">>, <<"activate">>,
                         <<"stop_enter", "activate">>}
      <4>1. Elements(todo) \cap NeedMotor # {}
        BY <3>2, ListElements DEF NeedMotor
      <4>2. todo = <<"stop_enter", "activate">> => ~desired
        BY ListElements DEF CallInv, Starting, Has
      <4>3. todo' \in {<<>>, <<"open_brake", "move">>, <<"active_enter">>, <<"activate">>,
                       <<"stop_enter", "activate">>, <<"clear_override", "open_brake">>}
        BY <3>2, <4>2, StartStep
      <4>4. /\ Elements(todo') \cap LetGo = {}
            /\ ~(Has("hold"))'
        BY <4>3, CallElements, ListElements DEF LetGo, Has
      <4> QED
        BY <2>1, <2>2, <4>1, <4>4, SameOutputs
    <3>3. CASE todo \in {<<"clear_override", "scCheck_exe">>, <<"connect_motor", "hold">>,
                         <<"clear_override", "permission">>, <<"open_brake", "move">>,
                         <<"clear_override", "open_brake">>, <<"open_brake">>}
      BY <1>2, <3>3, StartStep
    <3> QED
      BY <2>4, <3>1, <3>2, <3>3 DEF StartCalls
  <2>5. CASE todo \in StopCalls
    <3>1. todo \in {<<"stop_exe">>, <<"csc_enter">>, <<"clear_stopping", "csc_enter">>}
      BY <1>2, <2>5, StopStep DEF StopCalls
    <3>2. todo' \in {<<>>, <<"csc_enter">>, <<"close_brake", "csc_enter">>,
                     <<"close_brake", "set_override", "disconnect_motor", "clear_stopping",
                       "csc_enter">>}
      BY <3>1, StopStep
    <3>3. /\ Elements(todo') \cap NeedMotor = {}
          /\ ~(Has("hold"))'
          /\ Elements(todo') \cap LetGo # {} => (Has("close_brake"))'
      BY <3>2, CallElements, ListElements DEF NeedMotor, LetGo, Has
    <3> QED
      BY <2>1, <2>2, <3>3, SameOutputs
  <2>6. CASE Elements(todo) \cap (StartOps \cup StopOps) = {}
    <3>1. PICK ops \in Seq(Ops) :
             /\ Then(ops)
             /\ "set_override" \in Elements(ops) \/ "disconnect_motor" \in Elements(ops)
                  => "close_brake" \in Elements(ops)
      BY <2>6, OtherCall
    <3>2. /\ Elements(todo') = Elements(ops) \cup Elements(Tail(todo))
          /\ Elements(Tail(todo)) \subseteq Elements(todo)
      BY <3>1, OtherOperation, <2>6, ThenExact, TailElements
    <3>3. Elements(todo') \cap (StartOps \cup StopOps) = {}
      BY <2>6, OtherQuiet
    <3>4. /\ Elements(todo') \cap NeedMotor = {}
          /\ ~(Has("hold"))'
          /\ Elements(todo') \cap LetGo # {}
               => Elements(todo) \cap LetGo # {} \/ (Has("close_brake"))'
      BY <3>1, <3>2, <3>3 DEF NeedMotor, LetGo, Has, StartOps
    <3> QED
      BY <2>1, <2>2, <3>4, SameOutputs
  <2> QED
    BY <2>3, <2>4, <2>5, <2>6 DEF CallInv, Starting, Stopping
<1> QED
  BY <1>1, <1>2

\* An emergency stop closes the brake.
LEMMA EstopCloses ==
    /\ "close_brake" \in Elements(states_estop)
    /\ "close_brake" \in Elements(states_estop \o <<"clear_speed">>)
<1>1. states_estop \in Seq(Ops) /\ Len(states_estop) = 4 /\ states_estop[2] = "close_brake"
      /\ <<"clear_speed">> \in Seq(Ops) /\ Len(<<"clear_speed">>) = 1
  BY DEF states_estop, Ops
<1>2. LET s == states_estop \o <<"clear_speed">> IN Len(s) = 5 /\ s[2] = "close_brake"
  <2>1. ASSUME NEW s \in Seq(Ops), NEW t \in Seq(Ops), Len(s) = 4, Len(t) = 1
        PROVE  Len(s \o t) = 5 /\ (s \o t)[2] = s[2]
    <3>1. /\ Len(s \o t) = Len(s) + Len(t)
          /\ \A i \in 1..Len(s \o t) : (s \o t)[i] = IF i <= Len(s) THEN s[i] ELSE t[i - Len(s)]
      OBVIOUS
    <3>2. Len(s \o t) = 5 /\ 2 \in 1..5 /\ 2 <= Len(s)
      BY <2>1, <3>1
    <3> QED
      BY <3>1, <3>2
  <2> QED
    BY <1>1, <2>1
<1>3. 2 \in 1..4 /\ 2 \in 1..5
  OBVIOUS
<1> QED
  BY <1>1, <1>2, <1>3 DEF Elements

\* Without a protection in the middle of a call and with a feedback input that
\* reads FALSE while the contactor is released, every step keeps HoldInv.
LEMMA HoldStep ==
    ASSUME Preemptive = FALSE, TRUE \notin MainFeedback, TypeOK, CallInv, HoldInv, [Next]_vars
    PROVE  HoldInv'
<1> USE DEF HoldInv
<1> SUFFICES Holding'
  BY ExclusiveStep, MotorOnStep
<1>1. CASE Operation
  BY <1>1, HoldingOperation
<1>2. ASSUME Idle, todo' = todo, ~brake' PROVE Holding'
  <2>1. \A op : ~(Has(op))'
    BY <1>2, CallElements DEF Idle, Has
  <2> QED
    BY <1>2, <2>1, Zenon DEF Holding
<1>3. CASE UNCHANGED <<power, motor, todo>>
  <2>1. Elements(todo') = Elements(todo)
    BY <1>3
  <2> QED
    BY <1>3, <2>1, SameOutputs DEF Has
<1>4. CASE states_trip /\ Idle /\ todo' = todo
  BY <1>2, <1>4, Zenon DEF states_trip
<1>5. CASE vfd_states_handler
  <2>1. Idle /\ UNCHANGED <<power, motor>> /\ Elements(todo') = {vfdstate}
    BY <1>5, CallElements DEF vfd_states_handler
  <2>2. Elements(todo) = {} /\ vfdstate \in States
    BY <2>1, CallElements DEF Idle, TypeOK
  <2>3. Elements(todo') \cap (NeedMotor \cup LetGo \cup {"hold"}) = {}
    BY <2>1, <2>2 DEF States, NeedMotor, LetGo
  <2> QED
    BY <2>1, <2>2, <2>3, SameOutputs DEF Has
<1>6. ASSUME todo' = states_estop \/ todo' = states_estop \o <<"clear_speed">>, Idle,
             UNCHANGED <<power, motor>>
      PROVE  Holding'
  <2>1. "close_brake" \in Elements(todo')
    BY <1>6, EstopCloses
  <2>2. Elements(todo') \cap (NeedMotor \cup {"hold"}) = {}
    BY <1>6, CallElements DEF NeedMotor
  <2>3. Elements(todo) = {}
    BY <1>6, CallElements DEF Idle
  <2> QED
    BY <1>6, <2>1, <2>2, <2>3, SameOutputs DEF Has
<1>7. CASE motor_excitation_handler
  <2>1. Idle /\ todo' = todo /\ UNCHANGED power
    BY <1>7 DEF motor_excitation_handler
  <2>2. \A op : ~Has(op) /\ ~(Has(op))'
    BY <2>1, CallElements DEF Idle, Has
  <2>3. CASE ~brake
    BY <1>2, <2>1, <2>3, Zenon DEF power
  <2>4. CASE brake
    <3>1. motor.connected /\ ~motor.disconnect /\ ~override /\ motor.stage = 1
      BY <2>2, <2>4, Zenon DEF Holding, Held, MotorOn
    <3>2. PICK mConFB \in IF motor.main THEN BOOLEAN ELSE MainFeedback :
             motor' = [motor EXCEPT !.connected = @ \/ mConFB]
      BY <1>7, <3>1 DEF motor_excitation_handler
    <3>3. motor'.connected /\ ~motor'.disconnect
      BY <3>1, <3>2 DEF TypeOK, Contactor
    <3>4. ~override'
      BY <2>1, <3>1, Zenon DEF power
    <3> QED
      BY <2>2, <3>3, <3>4, Zenon DEF Holding, Held
  <2> QED
    BY <2>3, <2>4
<1>8. CASE vfd_trip \/ Softcharge \/ scCheck_current_handler
  BY <1>3, <1>4, <1>8 DEF vfd_trip, Softcharge, scCheck_current_handler
<1>9. CASE vfd_estop \/ vfd_enableCheck
  BY <1>4, <1>6, <1>9 DEF vfd_estop, vfd_enableCheck
<1>10. CASE Run \/ Stop \/ vfd_scurve_exe \/ Environment \/ UNCHANGED vars
  BY <1>3, <1>10 DEF Run, Stop, vfd_scurve_exe, Environment, vars
<1> QED
  BY <1>1, <1>5, <1>7, <1>8, <1>9, <1>10 DEF Next

\* When no protection interrupts a call of the main loop and the feedback input
\* of the main contactor reads FALSE while the contactor is released, the brake
\* is never open between two calls without the inverter driving the motor
\* through a closed contactor.
THEOREM BrakeOpenMotorHoldsAlways ==
    ASSUME Preemptive = FALSE, TRUE \notin MainFeedback
    PROVE  Spec => []BrakeOpenMotorHolds
<1>1. Init => CallInv /\ HoldInv
  <2> SUFFICES ASSUME Init PROVE CallInv /\ HoldInv
    OBVIOUS
  <2>1. /\ todo = <<>> /\ vfdstate = "init_exe" /\ motor = Released
    BY DEF Init
  <2>2. ~brake
    BY Zenon DEF Init
  <2>3. \A op : ~Has(op)
    BY <2>1, CallElements DEF Has
  <2>4. CallInv
    BY <2>1, CallElements DEF CallInv, Starting, Stopping, Ramped, Has, StartOps, StopOps
  <2>5. Exclusive /\ MotorOn
    BY <2>1 DEF Exclusive, MotorOn, Released
  <2>6. Holding
    BY <2>2, <2>3, Zenon DEF Holding
  <2> QED
    BY <2>4, <2>5, <2>6 DEF HoldInv
<1>2. Init => TypeOK
  BY TypeCorrectInit
<1>3. TypeOK /\ CallInv /\ HoldInv /\ [Next]_vars => (TypeOK /\ CallInv /\ HoldInv)'
  BY TypeCorrectStep, CallStep, HoldStep
<1>4. HoldInv => BrakeOpenMotorHolds
  <2> SUFFICES ASSUME HoldInv, Idle, brake PROVE ~override /\ motor.connected /\ motor.main
    BY Zenon DEF BrakeOpenMotorHolds
  <2>1. ~Has("close_brake") /\ ~Has("clear_override")
    BY CallElements DEF Idle, Has
  <2> QED
    BY <2>1, Zenon DEF HoldInv, Holding, Held, MotorOn
<1> QED
  BY <1>1, <1>2, <1>3, <1>4, PTL DEF Spec

-----------------------------------------------------------------------------
(***************************************************************************)
(* BrakeOpenChecked.  The check of the short circuit is over when a call   *)
(* comes to anything that leads to open_brake, and starts anew only from   *)
(* the stop state with the reference speed set; the lift sets it only      *)
(* behind a closed brake, so an open brake in the stop state means that    *)
(* the reference speed is zero.  What enters the stop state must therefore *)
(* find the reference speed zero or the brake closed: active_exit and      *)
(* tune_exit look at the speed, a trip and an emergency stop have closed   *)
(* the brake.  Only the enable input stops the drive with neither.         *)
(***************************************************************************)
Checked == sc_steps = SC_STEPS /\ ~sc_testing

EstopCalls ==
    {states_estop, Tail(states_estop), states_estop \o <<"clear_speed">>,
     Tail(states_estop \o <<"clear_speed">>)}

BenchInv ==
    /\ enabled
    /\ brake => Checked
    /\ \/ Has("stop_exit") \/ Has("hold") \/ Has("permission") \/ Has("open_brake") \/ Has("move")
       \/ Has("active_enter") \/ Has("activate")
       => Checked
    /\ brake /\ (vfdstate = "stop_exe" \/ Has("stop_enter")) => ~ref
    /\ vfdstate = "init_exe" \/ Has("init_exe") \/ Has("trip_exe") => ~brake
    /\ brake /\ Has("estop") => todo \in EstopCalls

\* The operations that lead from the end of the check to the open brake.
AfterCheck == {"stop_exit", "hold", "permission", "open_brake", "move", "active_enter", "activate"}

\* A step of a call adds no emergency stop and no call of the handlers of the
\* first state and of the trip state; it adds a stop when the reference speed
\* is zero or the drive is not enabled, and in those two states and for an
\* emergency stop.
LEMMA AddedStops ==
    ASSUME TypeOK, CallInv, Operation
    PROVE  /\ \A op \in {"estop", "init_exe", "trip_exe"} : (Has(op))' => Has(op)
           /\ (Has("stop_enter"))' =>
                Has("stop_enter") \/ ~ref \/ ~enabled
                \/ Head(todo) \in {"init_exe", "trip_exe", "estop"}
<1> DEFINE Added == {"estop", "init_exe", "trip_exe"}
           Reason == ~ref \/ ~enabled \/ Head(todo) \in {"init_exe", "trip_exe", "estop"}
<1> HIDE DEF Reason
<1>1. ASSUME Elements(todo') \cap Added = {}, "stop_enter" \in Elements(todo') => Reason
      PROVE  /\ \A op \in Added : (Has(op))' => Has(op)
             /\ (Has("stop_enter"))' => Has("stop_enter") \/ Reason
  BY <1>1 DEF Has
<1>2. CASE todo \in StartCalls
  <2>1. CASE todo = <<"csc_exe">>
    <3>1. todo' \in {<<"clear_override", "scCheck_exe">>, <<"stop_enter">>}
          /\ (todo' = <<"stop_enter">> => ~ref)
      BY <2>1, StartStep, Lists
    <3>2. "stop_enter" \in Elements(todo') => ~ref
      BY <3>1, ListElements
    <3> QED
      BY <1>1, <3>1, <3>2, ListElements DEF Reason
  <2>2. CASE todo = <<"active_enter">>
    <3>1. todo' \in {<<"activate">>, <<"stop_enter", "activate">>}
          /\ (todo' = <<"stop_enter", "activate">> => ~enabled)
      BY <2>2, StartStep, Lists
    <3>2. "stop_enter" \in Elements(todo') => ~enabled
      BY <3>1, ListElements
    <3> QED
      BY <1>1, <3>1, <3>2, ListElements DEF Reason
  <2>3. CASE todo \in StartCalls \ {<<"csc_exe">>, <<"active_enter">>}
    <3>1. todo = <<"stop_enter", "activate">> => ~desired
      BY ListElements DEF CallInv, Starting, Has
    <3>2. todo' \in {<<"scCheck_exe">>, <<>>, <<"tune_enter">>, <<"stop_exit">>,
                     <<"connect_motor", "hold">>, <<"hold">>, <<"clear_override">>,
                     <<"clear_override", "permission">>, <<"permission">>,
                     <<"open_brake", "move">>, <<"move">>, <<"active_enter">>, <<"activate">>,
                     <<"clear_override", "open_brake">>, <<"open_brake">>}
      BY <2>3, <3>1, StartStep DEF StartCalls
    <3>3. Elements(todo') \cap Added = {} /\ "stop_enter" \notin Elements(todo')
      BY <3>2, ListElements, CallElements
    <3> QED
      BY <1>1, <3>3 DEF Reason
  <2> QED
    BY <1>2, <2>1, <2>2, <2>3
<1>3. CASE todo \in StopCalls
  <2>1. todo' \in StopCalls \cup {<<>>}
    BY <1>3, StopStep DEF StopCalls
  <2> QED
    BY <1>1, <2>1, ListElements, CallElements DEF Reason, StopCalls
<1>4. CASE Elements(todo) \cap (StartOps \cup StopOps) = {}
  <2> DEFINE Adds(ops) ==
                /\ ops \in Seq(Ops)
                /\ Elements(ops) \cap Added = {}
                /\ "stop_enter" \in Elements(ops) => Reason
             letGo == <<"set_override", "disconnect_motor", "close_brake">>
             tuned == <<"clear_override", "connect_motor", "tune_state">>
  <2>1. Adds(<<>>) /\ (Reason => Adds(<<"stop_enter">>)) /\ Adds(letGo) /\ Adds(tuned)
    <3>1. Elements(<<>>) = {} /\ Elements(<<"stop_enter">>) = {"stop_enter"}
          /\ Elements(letGo) = {"set_override", "disconnect_motor", "close_brake"}
          /\ Elements(tuned) = {"clear_override", "connect_motor", "tune_state"}
      BY CallElements, ListElements
    <3>2. <<>> \in Seq(Ops) /\ <<"stop_enter">> \in Seq(Ops) /\ letGo \in Seq(Ops)
          /\ tuned \in Seq(Ops)
      BY DEF Ops
    <3> QED
      BY <3>1, <3>2
  <2>2. ASSUME NEW op \in {"active_exit", "tune", "tune_exit"}
        PROVE  Adds(If(~enabled, <<"stop_enter">>) \o <<op>>)
    <3>1. op \in Ops
      BY DEF Ops
    <3>2. CASE enabled
      <4>1. If(~enabled, <<"stop_enter">>) \o <<op>> = <<>> \o <<op>>
        BY <3>2 DEF If
      <4>2. <<>> \o <<op>> = <<op>> /\ <<op>> \in Seq(Ops) /\ Elements(<<op>>) = {op}
        BY <3>1, Concatenations, CallTypes, CallElements
      <4>3. {op} \cap Added = {} /\ "stop_enter" # op
        OBVIOUS
      <4> QED
        BY <4>1, <4>2, <4>3
    <3>3. CASE ~enabled
      <4>1. Reason
        BY <3>3 DEF Reason
      <4> QED
        BY <3>1, <4>1, StopFirst
    <3> QED
      BY <3>2, <3>3
  <2> HIDE DEF Adds, letGo, tuned
  <2>4. \E ops : Adds(ops) /\ Then(ops)
    <3>1. CASE Outputs \/ tune_state \/ clear_stopping \/ clear_speed
      BY <2>1, <3>1 DEF Outputs, tune_state, clear_stopping, clear_speed
    <3>2. CASE init_exe
      BY <2>1, <3>2 DEF init_exe, At, Reason
    <3>3. CASE stop_enter
      BY <2>1, <3>3 DEF stop_enter, If, letGo
    <3>4. CASE active_exe
      BY <2>2, <3>4 DEF active_exe
    <3>5. CASE active_exit
      BY <2>1, <3>5 DEF active_exit, If, Reason
    <3>6. CASE trip_exe
      BY <2>1, <3>6 DEF trip_exe, If, At, Reason
    <3>7. CASE tune_enter
      BY <2>2, <3>7 DEF tune_enter
    <3>8. CASE tune
      BY <2>1, <3>8 DEF tune, tuned
    <3>9. CASE tune_exe
      BY <2>2, <3>9 DEF tune_exe
    <3>10. CASE tune_exit
      BY <2>1, <3>10 DEF tune_exit, If, Reason
    <3>11. CASE estop
      BY <2>1, <3>11 DEF estop, If, At, Reason
    <3> QED
      BY <1>4, <3>1, <3>2, <3>3, <3>4, <3>5, <3>6, <3>7, <3>8, <3>9, <3>10, <3>11,
         OtherOperation
  <2>5. PICK ops \in Seq(Ops) :
           /\ Then(ops) /\ Elements(ops) \cap Added = {}
           /\ "stop_enter" \in Elements(ops) => Reason
    BY <2>4 DEF Adds
  <2>6. /\ Elements(todo') = Elements(ops) \cup Elements(Tail(todo))
        /\ Elements(Tail(todo)) \subseteq Elements(todo)
    BY <1>4, <2>5, OtherOperation, ThenExact, TailElements
  <2> QED
    BY <2>5, <2>6 DEF Has, Reason
<1> QED
  BY <1>2, <1>3, <1>4 DEF CallInv, Starting, Stopping, Reason

\* The calls of an emergency stop begin with set_override and close_brake.
LEMMA EstopHeads ==
    /\ Head(states_estop) = "set_override" /\ Head(Tail(states_estop)) = "close_brake"
    /\ Head(states_estop \o <<"clear_speed">>) = "set_override"
    /\ Head(Tail(states_estop \o <<"clear_speed">>)) = "close_brake"
<1> DEFINE s == states_estop \o <<"clear_speed">>
           f == <<"set_override", "close_brake", "estop", "clear_stopping", "clear_speed">>
<1>1. s = f
  <2>1. /\ states_estop \in Seq(Ops) /\ <<"clear_speed">> \in Seq(Ops) /\ f \in Seq(Ops)
        /\ Len(states_estop) = 4 /\ Len(<<"clear_speed">>) = 1 /\ Len(f) = 5
    BY DEF states_estop, Ops
  <2>2. /\ s \in Seq(Ops) /\ Len(s) = Len(states_estop) + Len(<<"clear_speed">>)
        /\ \A i \in 1..Len(s) : s[i] = IF i <= Len(states_estop) THEN states_estop[i]
                                       ELSE <<"clear_speed">>[i - Len(states_estop)]
    <3>1. ASSUME NEW a \in Seq(Ops), NEW b \in Seq(Ops)
          PROVE  /\ a \o b \in Seq(Ops) /\ Len(a \o b) = Len(a) + Len(b)
                 /\ \A i \in 1..Len(a \o b) : (a \o b)[i] = IF i <= Len(a) THEN a[i]
                                                            ELSE b[i - Len(a)]
      OBVIOUS
    <3> QED
      BY <2>1, <3>1
  <2>3. Len(s) = 5
    BY <2>1, <2>2
  <2>4. \A i \in 1..5 : s[i] = f[i]
    <3>1. \A i \in 1..5 : i \in 1..4 \/ i = 5
      OBVIOUS
    <3>2. \A i \in 1..4 : s[i] = states_estop[i]
      BY <2>1, <2>2, <2>3
    <3>3. s[5] = <<"clear_speed">>[1]
      BY <2>1, <2>2, <2>3
    <3>4. \A i \in 1..4 : states_estop[i] = f[i]
      <4>1. \A i \in 1..4 : i = 1 \/ i = 2 \/ i = 3 \/ i = 4
        OBVIOUS
      <4> QED
        BY <4>1 DEF states_estop
    <3>5. <<"clear_speed">>[1] = f[5]
      OBVIOUS
    <3> QED
      BY <3>1, <3>2, <3>3, <3>4, <3>5
  <2> HIDE DEF s, f
  <2> QED
    BY <2>1, <2>2, <2>3, <2>4, SeqEqual
<1> QED
  BY <1>1, Lists DEF states_estop

\* The short-circuit check starts anew only behind a closed brake, and a check
\* that is over stays over until then.
LEMMA CheckedOperation ==
    ASSUME TypeOK, CallInv, Operation, Checked, csc_enter => ~ref
    PROVE  Checked'
<1>1. CASE csc_enter
  <2>1. sc_steps' = sc_steps /\ (sc_testing' <=> sc_testing)
    BY <1>1, Zenon DEF csc_enter
  <2> QED
    BY <2>1, Zenon DEF Checked
<1>2. CASE csc_exe
  <2>1. sc_steps' = sc_steps /\ (sc_testing' => sc_testing)
    BY <1>2, Zenon DEF csc_exe
  <2> QED
    BY <2>1, Zenon DEF Checked
<1>3. CASE scCheck_exe
  <2>1. sc_steps = SC_STEPS
    BY DEF Checked
  <2>2. sc_steps + 1 >= SC_STEPS
    BY <2>1, LateBound
  <2>3. sc_steps' = SC_STEPS
    BY <1>3, <2>2 DEF scCheck_exe
  <2>4. ~sc_testing'
    BY <1>3, Zenon DEF scCheck_exe, Checked
  <2> QED
    BY <2>3, <2>4 DEF Checked
<1>4. CASE UNCHANGED check
  BY <1>4, Zenon DEF Checked, check
<1> QED
  BY <1>1, <1>2, <1>3, <1>4
     DEF Operation, Outputs, init_exe, stop_enter, stop_exe, stop_exit, hold, permission, move,
         active_enter, activate, active_exe, active_exit, trip_exe, tune_enter, tune, tune_state,
         tune_exe, tune_exit, estop, clear_stopping, clear_speed

\* What a step of a call may do to the brake, the speed and the enable input.
LEMMA BenchOperation ==
    ASSUME TypeOK, Operation
    PROVE  /\ brake' => brake \/ (Outputs /\ At("open_brake"))
           /\ Outputs /\ At("close_brake") => ~brake'
           /\ ref' => ref
           /\ enabled => enabled'
           /\ vfdstate' = "stop_exe" => vfdstate = "stop_exe" \/ Has("stop_enter")
           /\ vfdstate' = "init_exe" => vfdstate = "init_exe"
<1> USE DEF Operation, Outputs, init_exe, stop_enter, stop_exe, csc_enter, csc_exe, scCheck_exe,
         stop_exit, hold, permission, move, active_enter, activate, active_exe, active_exit,
         trip_exe, tune_enter, tune, tune_state, tune_exe, tune_exit, estop, clear_stopping,
         clear_speed
<1>1. brake' => brake \/ (Outputs /\ At("open_brake"))
  BY Zenon DEF power
<1>2. Outputs /\ At("close_brake") => ~brake'
  <2>1. SUFFICES ASSUME Outputs, At("close_brake") PROVE ~brake'
    OBVIOUS
  <2>2. brake' = FALSE
    BY <2>1 DEF At
  <2> QED
    BY <2>2, Zenon
<1>3. (ref' => ref) /\ (enabled => enabled')
  <2>1. UNCHANGED speeds \/ clear_speed
    OBVIOUS
  <2>2. UNCHANGED inputs
    OBVIOUS
  <2>3. clear_speed => ~ref'
    BY Zenon
  <2> HIDE DEF clear_speed
  <2>4. UNCHANGED speeds => (ref' => ref)
    BY Zenon DEF speeds
  <2>5. enabled => enabled'
    BY <2>2, Zenon DEF inputs
  <2> QED
    BY <2>1, <2>3, <2>4, <2>5, Zenon
<1>4. /\ vfdstate' = "stop_exe" => vfdstate = "stop_exe" \/ stop_enter
      /\ vfdstate' = "init_exe" => vfdstate = "init_exe"
  OBVIOUS
<1>5. stop_enter => Has("stop_enter")
  BY OperationCall, TailElements DEF At, Has, TypeOK
<1> QED
  BY <1>1, <1>2, <1>3, <1>4, <1>5

\* The brake opens in a call that contains neither a stop nor an emergency
\* stop, and the state it is in is not the stop state.
LEMMA OpeningCall ==
    ASSUME TypeOK, CallInv, Operation, Outputs, At("open_brake")
    PROVE  /\ Has("open_brake") /\ vfdstate \in {"csc_exe", "active_exe"}
           /\ vfdstate' = vfdstate /\ UNCHANGED check
           /\ \A op \in {"stop_enter", "init_exe", "trip_exe", "estop"} : ~(Has(op))'
<1>1. Head(todo) = "open_brake" /\ Has("open_brake")
  BY OutputsCall DEF At, Has
<1>2. vfdstate \in {"csc_exe", "active_exe"} /\ todo \in StartCalls
  BY <1>1 DEF CallInv, Starting, Has, StartOps
<1>3. todo \in {<<"open_brake", "move">>, <<"open_brake">>}
  BY <1>1, <1>2, Lists DEF StartCalls
<1>4. todo' \in {<<"move">>, <<>>}
  BY <1>3, StartStep
<1>5. vfdstate' = vfdstate /\ UNCHANGED check
  BY DEF Outputs
<1> QED
  BY <1>1, <1>2, <1>4, <1>5, ListElements, CallElements DEF Has

\* Every step of a call keeps BenchInv.
LEMMA BenchCall ==
    ASSUME TypeOK, CallInv, BenchInv, Operation
    PROVE  BenchInv'
<1>1. enabled /\ enabled' /\ (ref' => ref)
  BY BenchOperation, Zenon DEF BenchInv
<1>2. csc_enter /\ brake => ~ref
  <2> SUFFICES ASSUME csc_enter, brake PROVE ~ref
    OBVIOUS
  <2>1. Has("csc_enter")
    BY OperationCall, TailElements DEF csc_enter, At, Has, TypeOK
  <2>2. vfdstate = "stop_exe"
    BY <2>1 DEF CallInv, Stopping, Has, StopOps
  <2> QED
    BY <2>2, Zenon DEF BenchInv
<1>3. CASE Outputs /\ At("open_brake")
  <2>1. /\ Has("open_brake") /\ vfdstate \in {"csc_exe", "active_exe"}
        /\ vfdstate' = vfdstate /\ UNCHANGED check
        /\ \A op \in {"stop_enter", "init_exe", "trip_exe", "estop"} : ~(Has(op))'
    BY <1>3, OpeningCall
  <2>2. Checked
    BY <2>1, Zenon DEF BenchInv
  <2>3. Checked'
    BY <2>1, <2>2, Zenon DEF Checked, check
  <2>4. vfdstate' # "stop_exe" /\ vfdstate' # "init_exe"
        /\ ~(Has("stop_enter"))' /\ ~(Has("init_exe"))' /\ ~(Has("trip_exe"))' /\ ~(Has("estop"))'
    BY <2>1
  <2> QED
    BY <1>1, <2>3, <2>4, Zenon DEF BenchInv
<1>4. CASE brake' => brake
  <2>1. brake' => Checked'
    <3>1. brake' => brake /\ Checked
      BY <1>4, Zenon DEF BenchInv
    <3> QED
      BY <1>2, <3>1, CheckedOperation
  <2>2. Elements(todo') \cap AfterCheck # {} => Checked'
    <3>1. CASE Elements(todo) \cap AfterCheck # {}
      <4>1. Checked
        BY <3>1, Zenon DEF BenchInv, AfterCheck, Has
      <4>2. todo \in StartCalls
        BY <3>1 DEF CallInv, Starting, StartOps, AfterCheck
      <4>3. ~csc_enter
        <5>1. Head(todo) # "csc_enter"
          BY <4>2, Lists DEF StartCalls
        <5> QED
          BY <5>1 DEF csc_enter, At
      <4> QED
        BY <4>1, <4>3, CheckedOperation
    <3>2. CASE todo = <<"scCheck_exe">>
      <4>1. /\ scCheck_exe /\ todo' \in {<<>>, <<"tune_enter">>, <<"stop_exit">>}
            /\ todo' = <<>> \/ sc_steps + 1 >= SC_STEPS
        BY <3>2, StartStep
      <4>2. CASE todo' = <<>>
        BY <4>2, CallElements
      <4>3. CASE sc_steps + 1 >= SC_STEPS
        <5>1. sc_steps' = SC_STEPS
          BY <4>1, <4>3 DEF scCheck_exe
        <5>2. ~sc_testing'
          <6>1. sc_testing' = (sc_testing /\ ~(sc_steps + 1 >= SC_STEPS))
            BY <4>1 DEF scCheck_exe
          <6> QED
            BY <4>3, <6>1, Zenon
        <5> QED
          BY <5>1, <5>2 DEF Checked
      <4> QED
        BY <4>1, <4>2, <4>3
    <3>3. CASE todo \in {<<"csc_exe">>, <<"clear_override", "scCheck_exe">>}
      <4>1. todo' \in {<<"clear_override", "scCheck_exe">>, <<"stop_enter">>, <<"scCheck_exe">>}
        BY <3>3, StartStep
      <4>2. Elements(todo') \cap AfterCheck = {}
        BY <4>1, ListElements DEF AfterCheck
      <4> QED
        BY <4>2
    <3>4. CASE todo \in StopCalls
      <4>1. todo' \in StopCalls \cup {<<>>}
        BY <3>4, StopStep DEF StopCalls
      <4>2. Elements(todo') \cap AfterCheck = {}
        BY <4>1, ListElements, CallElements DEF AfterCheck, StopCalls
      <4> QED
        BY <4>2
    <3>5. CASE Elements(todo) \cap (StartOps \cup StopOps) = {}
      BY <3>5, OtherQuiet DEF StartOps, AfterCheck
    <3>6. todo \in StartCalls \ {<<"csc_exe">>, <<"clear_override", "scCheck_exe">>,
                                 <<"scCheck_exe">>} => Elements(todo) \cap AfterCheck # {}
      BY ListElements DEF StartCalls, AfterCheck
    <3> QED
      BY <3>1, <3>2, <3>3, <3>4, <3>5, <3>6 DEF CallInv, Starting, Stopping
  <2>3. (Has("stop_exit") \/ Has("hold") \/ Has("permission") \/ Has("open_brake")
           \/ Has("move") \/ Has("active_enter") \/ Has("activate") => Checked)'
    BY <2>2 DEF AfterCheck, Has
  <2>4. brake /\ Has("estop") => todo \in EstopCalls /\ Head(todo) \in {"set_override", "close_brake"}
    <3>1. brake /\ Has("estop") => todo \in EstopCalls
      BY Zenon DEF BenchInv
    <3> QED
      BY <3>1, EstopHeads DEF EstopCalls
  <2>5. brake' => ~(Has("init_exe"))' /\ ~(Has("trip_exe"))' /\ vfdstate' # "init_exe"
    <3>1. brake' => ~Has("init_exe") /\ ~Has("trip_exe") /\ vfdstate # "init_exe"
      BY <1>4, Zenon DEF BenchInv
    <3>2. vfdstate' = "init_exe" => vfdstate = "init_exe"
      BY BenchOperation
    <3>3. ((Has("init_exe"))' => Has("init_exe")) /\ ((Has("trip_exe"))' => Has("trip_exe"))
      BY AddedStops
    <3> QED
      BY <3>1, <3>2, <3>3
  <2>6. brake' /\ (vfdstate' = "stop_exe" \/ (Has("stop_enter"))') => ~ref'
    <3> SUFFICES ASSUME brake', vfdstate' = "stop_exe" \/ (Has("stop_enter"))' PROVE ~ref'
      OBVIOUS
    <3>1. brake
      BY <1>4
    <3>2. CASE vfdstate = "stop_exe" \/ Has("stop_enter")
      BY <1>1, <3>1, <3>2, Zenon DEF BenchInv
    <3>3. CASE ~ref
      BY <1>1, <3>3
    <3>4. Head(todo) \notin {"init_exe", "trip_exe", "estop"}
      <4>1. Has(Head(todo))
        BY OperationCall, TailElements DEF Has, TypeOK
      <4>2. ~Has("init_exe") /\ ~Has("trip_exe")
        BY <3>1, Zenon DEF BenchInv
      <4> QED
        BY <2>4, <3>1, <4>1, <4>2
    <3> QED
      BY <1>1, <3>2, <3>3, <3>4, AddedStops, BenchOperation
  <2>7. brake' /\ (Has("estop"))' => todo' \in EstopCalls
    <3> SUFFICES ASSUME brake', (Has("estop"))' PROVE todo' \in EstopCalls
      OBVIOUS
    <3>1. brake /\ Has("estop")
      BY <1>4, AddedStops
    <3>2. todo \in EstopCalls /\ Head(todo) \in {"set_override", "close_brake"}
      BY <2>4, <3>1
    <3>3. Outputs
      BY <3>2, HeadOperation
    <3>4. Head(todo) # "close_brake"
      BY <3>3, BenchOperation, OutputsCall DEF At, Idle
    <3>5. todo' = Tail(todo)
      BY <3>3, OutputsCall
    <3> QED
      BY <3>2, <3>4, <3>5, EstopHeads DEF EstopCalls
  <2> QED
    BY <1>1, <2>1, <2>3, <2>5, <2>6, <2>7, Zenon DEF BenchInv
<1> QED
  BY <1>3, <1>4, BenchOperation

\* A drive that is always enabled keeps BenchInv, as long as no protection
\* interrupts a call.
LEMMA BenchStep ==
    ASSUME Preemptive = FALSE, FALSE \notin EnableLevels, TypeOK, CallInv, TripInv, BenchInv,
           [Next]_vars
    PROVE  BenchInv'
<1>1. CASE Operation
  BY <1>1, BenchCall
<1>2. /\ enabled /\ (brake => Checked)
      /\ brake /\ (vfdstate = "stop_exe" \/ Has("stop_enter")) => ~ref
      /\ vfdstate = "init_exe" => ~brake
  BY Zenon DEF BenchInv
<1>3. ASSUME Idle, todo' = todo, enabled' <=> enabled, ~brake' PROVE BenchInv'
  <2>1. \A op : ~(Has(op))'
    BY <1>3, CallElements DEF Idle, Has
  <2> QED
    BY <1>2, <1>3, <2>1, Zenon DEF BenchInv
<1>4. ASSUME UNCHANGED <<vfdstate, power, check, enabled, todo>>, brake /\ ref' => ref
      PROVE  BenchInv'
  <2>1. /\ (enabled' <=> enabled) /\ (brake' <=> brake) /\ vfdstate' = vfdstate /\ todo' = todo
        /\ (Checked => Checked')
    BY <1>4, Zenon DEF power, check, Checked
  <2>2. \A op : (Has(op))' => Has(op)
    BY <2>1 DEF Has
  <2>3. EstopCalls' = EstopCalls
    OBVIOUS
  <2> QED
    BY <1>4, <2>1, <2>2, <2>3, Zenon DEF BenchInv
<1>5. CASE vfd_states_handler
  <2>1. /\ Idle /\ UNCHANGED <<vfdstate, power, check, enabled, speeds>>
        /\ Elements(todo') = {vfdstate} /\ vfdstate \in States
    BY <1>5, CallElements DEF vfd_states_handler, inputs, TypeOK
  <2>2. /\ (enabled' <=> enabled) /\ (brake' <=> brake) /\ (ref' <=> ref)
        /\ vfdstate' = vfdstate /\ (Checked => Checked')
    BY <2>1, Zenon DEF power, check, speeds, Checked
  <2>3. \A op : (Has(op))' => op = vfdstate
    BY <2>1 DEF Has
  <2>4. ~(Has("stop_exit") \/ Has("hold") \/ Has("permission") \/ Has("open_brake")
           \/ Has("move") \/ Has("active_enter") \/ Has("activate") \/ Has("stop_enter")
           \/ Has("estop"))'
    BY <2>1 DEF Has, States
  <2>5. vfdstate = "trip_exe" => ~brake
    BY Zenon DEF TripInv, Safe
  <2>6. (Has("init_exe"))' \/ (Has("trip_exe"))' => ~brake'
    BY <1>2, <2>2, <2>3, <2>5
  <2> QED
    BY <1>2, <2>2, <2>4, <2>6, Zenon DEF BenchInv
<1>6. CASE vfd_estop
  <2>1. /\ UNCHANGED <<vfdstate, power, check, enabled, speeds>>
        /\ todo' = states_estop \o <<"clear_speed">>
    BY <1>6 DEF vfd_estop, inputs
  <2>2. /\ (enabled' <=> enabled) /\ (brake' <=> brake) /\ (ref' <=> ref)
        /\ vfdstate' = vfdstate /\ (Checked => Checked')
    BY <2>1, Zenon DEF power, check, speeds, Checked
  <2>3. ~(Has("stop_exit") \/ Has("hold") \/ Has("permission") \/ Has("open_brake")
           \/ Has("move") \/ Has("active_enter") \/ Has("activate") \/ Has("stop_enter")
           \/ Has("init_exe") \/ Has("trip_exe"))'
    BY <2>1, CallElements DEF Has
  <2>4. todo' \in EstopCalls /\ EstopCalls' = EstopCalls
    BY <2>1 DEF EstopCalls
  <2> QED
    BY <1>2, <2>2, <2>3, <2>4, Zenon DEF BenchInv
<1>7. CASE vfd_trip \/ Softcharge
  <2>1. Idle /\ todo' = todo /\ UNCHANGED <<check, enabled>>
        /\ (states_trip \/ UNCHANGED <<vfdstate, power, motor, speeds>>
              \/ (UNCHANGED <<vfdstate, power, motor>> /\ ref' = FALSE))
    BY <1>7 DEF vfd_trip, Softcharge
  <2>2. CASE states_trip
    BY <1>3, <2>1, <2>2, Zenon DEF states_trip
  <2>3. CASE UNCHANGED <<vfdstate, power, motor, speeds>>
    <3>1. ref' => ref
      BY <2>3, Zenon DEF speeds
    <3> QED
      BY <1>4, <2>1, <2>3, <3>1
  <2>4. CASE UNCHANGED <<vfdstate, power, motor>> /\ ref' = FALSE
    <3>1. ref' => ref
      BY <2>4, Zenon
    <3> QED
      BY <1>4, <2>1, <2>4, <3>1
  <2> QED
    BY <2>1, <2>2, <2>3, <2>4
<1>8. CASE scCheck_current_handler
  <2>1. Idle /\ todo' = todo /\ UNCHANGED enabled /\ states_trip
    BY <1>8 DEF scCheck_current_handler
  <2> QED
    BY <1>3, <2>1, Zenon DEF states_trip
<1>9. ~vfd_enableCheck
  BY <1>2, Zenon DEF vfd_enableCheck
<1>10. CASE Run
  <2>1. Idle /\ todo' = todo /\ UNCHANGED <<power, enabled>>
    BY <1>10 DEF Run, inputs
  <2>2. ~brake'
    <3>1. ~brake
      BY <1>10 DEF Run
    <3> QED
      BY <2>1, <3>1, Zenon DEF power
  <2> QED
    BY <1>3, <2>1, <2>2, Zenon
<1>11. CASE Environment
  <2>1. UNCHANGED <<vfdstate, power, check, speeds, todo>>
    BY <1>11 DEF Environment
  <2>2. enabled' = enabled
    <3>1. EnableLevels \ {enabled} = {}
      BY <1>2, DriveAssumption DEF DriveAssumption, TypeOK
    <3> QED
      BY <1>11, <3>1 DEF Environment
  <2>3. ref' => ref
    BY <2>1, Zenon DEF speeds
  <2> QED
    BY <1>4, <2>1, <2>2, <2>3
<1>12. CASE Stop \/ motor_excitation_handler \/ vfd_scurve_exe \/ UNCHANGED vars
  <2>1. UNCHANGED <<vfdstate, power, check, enabled, todo>>
    BY <1>12 DEF Stop, motor_excitation_handler, vfd_scurve_exe, vars, inputs
  <2>2. UNCHANGED speeds \/ UNCHANGED ref \/ ref' = FALSE
    BY <1>12 DEF Stop, motor_excitation_handler, vfd_scurve_exe, vars
  <2>3. ref' => ref
    BY <2>2, Zenon DEF speeds
  <2> QED
    BY <1>4, <2>1, <2>3
<1> QED
  BY <1>1, <1>5, <1>6, <1>7, <1>8, <1>9, <1>10, <1>11, <1>12 DEF Next

\* When no protection interrupts a call of the main loop and the drive stays
\* enabled, the brake is open only after a complete check of the short circuit,
\* and none is under way.
THEOREM BrakeOpenCheckedAlways ==
    ASSUME Preemptive = FALSE, FALSE \notin EnableLevels
    PROVE  Spec => []BrakeOpenChecked
<1>1. Init => CallInv /\ BenchInv
  <2> SUFFICES ASSUME Init PROVE CallInv /\ BenchInv
    OBVIOUS
  <2>1. todo = <<>> /\ vfdstate = "init_exe"
    BY DEF Init
  <2>2. ~brake /\ enabled
    BY Zenon DEF Init
  <2>3. \A op : ~Has(op)
    BY <2>1, CallElements DEF Has
  <2>4. CallInv
    BY <2>1, CallElements DEF CallInv, Starting, Stopping, Ramped, Has, StartOps, StopOps
  <2>5. BenchInv
    BY <2>2, <2>3, Zenon DEF BenchInv
  <2> QED
    BY <2>4, <2>5
<1>2. TypeOK /\ CallInv /\ TripInv /\ BenchInv /\ [Next]_vars => (CallInv /\ BenchInv)'
  BY CallStep, BenchStep
<1>3. BenchInv => BrakeOpenChecked
  BY Zenon DEF BenchInv, BrakeOpenChecked, Checked
<1> QED
  BY <1>1, <1>2, <1>3, TripInvariant, PTL DEF Spec

=============================================================================
