----------------------------- MODULE ErsdProofs -----------------------------
(* Proofs about Ersd for every length of its delays.                         *)
EXTENDS Ersd, TLAPS

\* What makes ChargingHeld inductive: the soft charge begins only where the
\* signal has come, which is after the drive was initialised, so the trip that
\* goes with it takes effect, and it lasts as long as the drive is tripped.
Charge == softcharge = 1 => vfdstate = "trip" /\ ~relay
Late ==
  /\ ersin \/ prev_ersin = 1 \/ ersdstate # "off" => Initialized
  /\ seen => Initialized

\* The battery is on its way in or out only behind the soft charge.
Switching ==
  (ersdstate = "off" /\ ersd_exitingAuto = 1) \/ ersdstate \in {"init", "turningOff"} =>
    softcharge = 1

Inv == Charge /\ Late /\ Switching

USE DEF On, Initialized, Goto, drive, supply, lift

\* It holds at the start.
LEMMA InitInv == Init => Inv
  BY DEF Init, Inv, Charge, Late, Switching

\* Every call of the handler preserves the invariant.
LEMMA HandlerInv == Inv /\ ersdstates_handler => Inv'
<1> SUFFICES ASSUME Inv, ersdstates_handler PROVE Inv'
  OBVIOUS
<1> USE DEF Inv, Charge, Late, Switching
<1>1. CASE OffExit
  BY <1>1 DEF OffExit, TripToCharge, ersdstates_handler
<1>2. CASE Exiting
  BY <1>2 DEF Exiting, ersdstates_handler
<1>3. CASE OffAgain
  BY <1>3 DEF OffAgain, TripToCharge, ersdstates_handler
<1>4. CASE Charged
  BY <1>4 DEF Charged, ersdstates_handler
<1>5. CASE TurnOff
  BY <1>5 DEF TurnOff, TripToCharge, ersdstates_handler
<1>6. CASE TurningOff
  BY <1>6 DEF TurningOff, ersdstates_handler
<1>7. CASE FoundByTorque
  BY <1>7 DEF FoundByTorque, Moves, ersdstates_handler
<1>8. CASE FindByCurrent
  BY <1>8 DEF FindByCurrent, Moves, Estop, ersdstates_handler
<1> QED
  BY <1>1, <1>2, <1>3, <1>4, <1>5, <1>6, <1>7, <1>8 DEF ersdstates_handler

\* So do the commands of the lift.
LEMMA LiftInv ==
  Inv /\ (state_check \/ Stops \/ SetsOff \/ ersd_move \/ ForceOrAllow) => Inv'
<1> SUFFICES ASSUME Inv, state_check \/ Stops \/ SetsOff \/ ersd_move \/ ForceOrAllow PROVE Inv'
  OBVIOUS
<1> USE DEF Inv, Charge, Late, Switching
<1>1. CASE auto_stop_enter /\ seen' \in {seen, ersin}
  BY <1>1 DEF auto_stop_enter, Estop, Unstoppable
<1>2. CASE SetsOff
  BY <1>2 DEF SetsOff
<1>3. CASE ersd_move
  \* the signal has been seen, so the drive was initialised
  <2>1. Initialized /\ UNCHANGED <<vfdstate, relay, softcharge, ersin, seen>>
    BY <1>3 DEF ersd_move, Moves
  <2>2. ersdstate' = "find_ldir"
    BY <1>3 DEF ersd_move
  <2> QED
    BY <2>1, <2>2
<1>4. CASE ForceOrAllow
  <2>1. UNCHANGED <<vfdstate, relay, softcharge, ersin, prev_ersin, ersdstate,
                    ersd_exitingAuto, seen>>
    BY <1>4 DEF ForceOrAllow
  <2> QED
    BY <2>1
<1> QED
  BY <1>1, <1>2, <1>3, <1>4 DEF state_check, Stops

\* So do the drive, the protections and the mains, which fail only later.
LEMMA WorldInv ==
  ~ColdStart /\ Inv /\ (vfd_states_handler \/ Protection \/ Mains) => Inv'
<1> SUFFICES ASSUME ~ColdStart, Inv, vfd_states_handler \/ Protection \/ Mains PROVE Inv'
  OBVIOUS
<1> USE DEF Inv, Charge, Late, Switching
<1>1. CASE vfd_states_handler
  BY <1>1 DEF vfd_states_handler, Entered
<1>2. CASE Protection
  BY <1>2 DEF Protection
<1>3. CASE Mains
  BY <1>3 DEF Mains
<1> QED
  BY <1>1, <1>2, <1>3

\* A step of something else changes none of it.
LEMMA StutterInv == Inv /\ UNCHANGED vars => Inv'
  BY DEF Inv, Charge, Late, Switching, vars

\* The invariant holds where the mains fail only after the drive is initialised.
THEOREM InvHolds == ASSUME ~ColdStart PROVE Spec => []Inv
<1>1. Inv /\ [Next]_vars => Inv'
  BY HandlerInv, LiftInv, WorldInv, StutterInv DEF Next
<1> QED
  BY InitInv, <1>1, PTL DEF Spec

\* The bus is never charged with the drive running or the resistor bridged,
\* however the mains, the lift, the faults and the settings interleave.
THEOREM ChargingHeldSafe == ASSUME ~ColdStart PROVE Spec => []ChargingHeld
<1>1. Inv => ChargingHeld
  BY DEF Inv, Charge, ChargingHeld
<1> QED
  BY InvHolds, <1>1, PTL

\* Only two calls of the supply's handler switch the battery's contactor.
LEMMA Switches == Next /\ m_ers' # m_ers => Exiting \/ TurningOff
<1> SUFFICES ASSUME Next, m_ers' # m_ers PROVE Exiting \/ TurningOff
  OBVIOUS
<1>1. CASE ersdstates_handler
  BY <1>1 DEF ersdstates_handler, OffExit, OffAgain, Charged, TurnOff, FoundByTorque,
              FindByCurrent
<1>2. CASE state_check \/ Stops
  BY <1>2 DEF state_check, Stops, auto_stop_enter
<1>3. CASE SetsOff
  BY <1>3 DEF SetsOff
<1>4. CASE ersd_move
  BY <1>4 DEF ersd_move
<1>5. CASE ForceOrAllow
  <2>1. m_ers' = m_ers
    BY <1>5 DEF ForceOrAllow
  <2> QED
    BY <2>1
<1>6. CASE vfd_states_handler
  BY <1>6 DEF vfd_states_handler
<1>7. CASE Protection
  BY <1>7 DEF Protection
<1>8. CASE Mains
  BY <1>8 DEF Mains
<1> QED
  BY <1>1, <1>2, <1>3, <1>4, <1>5, <1>6, <1>7, <1>8 DEF Next

\* The battery's contactor changes only with the drive tripped.
THEOREM BatterySwitchedSafe == ASSUME ~ColdStart PROVE Spec => BatterySwitched
<1>1. Inv /\ [Next]_vars => [m_ers' # m_ers => vfdstate = "trip"]_vars
  <2> SUFFICES ASSUME Inv, Next, m_ers' # m_ers PROVE vfdstate = "trip"
    BY DEF vars
  <2>1. Exiting \/ TurningOff
    BY Switches
  <2> QED
    BY <2>1 DEF Exiting, TurningOff, Inv, Switching, Charge
<1> QED
  BY InvHolds, <1>1, PTL DEF Spec, BatterySwitched
=============================================================================
