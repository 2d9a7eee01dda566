---------------------------- MODULE ModeService ----------------------------
(***************************************************************************)
(* What mode.c promises to those who use it, whatever its queue and its     *)
(* task do: one mode at a time, changed by way of SLEEP only; at most one   *)
(* request outstanding; an accepted request leads to the mode asked for, or *)
(* is discarded, and then only because the machine has meanwhile left the   *)
(* state in which the request was allowed; a reset only out of SLEEP.       *)
(***************************************************************************)
CONSTANTS Modes,      \* the modes of mode.h
          Terminals,  \* the terminal actions
          None        \* no mode, no request

VARIABLES mode,    \* the mode the machine is in
          moving,  \* the mode whose entry or whose way to SLEEP has begun, or None
          pending, \* the accepted request: a mode, a terminal action, or None
          up       \* the processor has not executed a reset

vars == <<mode, moving, pending, up>>

Init == mode = "SLEEP" /\ moving = None /\ pending = None /\ up = TRUE

\* A state is asked for from SLEEP, or SLEEP from elsewhere.
Acceptable(r) ==
  /\ pending = None /\ mode # "USB"
  /\ r \in Terminals \/ (r \in Modes \ {"USB"} /\ "SLEEP" \in {mode, r})

Accept(r) ==
  /\ up /\ Acceptable(r)
  /\ pending' = r
  /\ UNCHANGED <<mode, moving, up>>

\* The entry of m begins; a request for m is answered by it.
Enter(m) ==
  /\ up /\ mode = "SLEEP" /\ moving = None /\ m # "SLEEP"
  /\ moving' = m
  /\ pending' \in {pending} \cup (IF pending = m THEN {None} ELSE {})
  /\ UNCHANGED <<mode, up>>

Leave ==
  /\ up /\ mode # "SLEEP" /\ moving = None
  /\ moving' = "SLEEP"
  /\ UNCHANGED <<mode, pending, up>>

\* The change is complete.  Coming to SLEEP answers a request for SLEEP and
\* executes a terminal action.
Arrive ==
  /\ up /\ moving # None
  /\ mode' = moving /\ moving' = None
  /\ IF moving = "SLEEP" /\ pending \in Terminals
     THEN pending' = None /\ up' = FALSE
     ELSE /\ pending' \in {pending} \cup (IF pending = moving THEN {None} ELSE {})
          /\ UNCHANGED up

\* The request is void: its state has been reached or can no longer be.
Discard ==
  /\ up /\ moving = None /\ pending # None
  /\ \/ pending = mode
     \/ pending \in Modes \ {"SLEEP"} /\ mode # "SLEEP"
     \/ mode = "USB"
  /\ pending' = None
  /\ UNCHANGED <<mode, moving, up>>

Reset ==
  /\ up /\ mode = "SLEEP" /\ moving = None /\ pending \in Terminals
  /\ pending' = None /\ up' = FALSE
  /\ UNCHANGED <<mode, moving>>

Boot ==
  /\ ~up
  /\ mode' = "SLEEP" /\ moving' = None /\ pending' = None /\ up' = TRUE

\* What the machine does of itself.
Move ==
  \/ \E m \in Modes : Enter(m)
  \/ Leave \/ Arrive \/ Discard \/ Reset

Next == Move \/ Boot \/ \E r \in Modes \cup Terminals : Accept(r)

Spec == Init /\ [][Next]_vars
=============================================================================
