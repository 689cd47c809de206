------------------------------ MODULE Detector ------------------------------
(***************************************************************************)
(* What the verification of one target transaction promises, without its   *)
(* stack, its ledgers or its storage: when a call is put to the test, what *)
(* a test may conclude, and which entry function a report may name.        *)
(* VerifyHost implements this specification.                               *)
(***************************************************************************)
CONSTANTS Selector, NoSelector

VARIABLES
  stage,      \* "idle", "open": a call to a different DApp, "victim": its test
  controlled, \* the caller controls the open call
  entry,      \* the entry function of the latest call to a different DApp
  hit,        \* the entry function whose test read the related function
  leak,       \* an interpreter is stopped by a leak
  report      \* the entry function that was reported

vars == <<stage, controlled, entry, hit, leak, report>>

TypeOK ==
  /\ stage \in {"idle", "open", "victim"}
  /\ controlled \in BOOLEAN /\ leak \in BOOLEAN
  /\ {entry, hit, report} \subseteq Selector \union {NoSelector}

Init ==
  /\ stage = "idle" /\ controlled = FALSE /\ leak = FALSE
  /\ entry = NoSelector /\ hit = NoSelector /\ report = NoSelector

\* Only one call is open at a time, and none is opened after a hit.
Open(selector, c) ==
  /\ stage = "idle" /\ hit = NoSelector
  /\ stage' = "open" /\ entry' = selector /\ controlled' = c
  /\ UNCHANGED <<hit, leak, report>>

\* A victim transaction only interrupts a call that the caller controls.
Probe ==
  /\ stage = "open" /\ controlled
  /\ stage' = "victim"
  /\ UNCHANGED <<controlled, entry, hit, leak, report>>

Hit ==
  /\ stage = "victim"
  /\ hit' = entry
  /\ UNCHANGED <<stage, controlled, entry, leak, report>>

Close ==
  /\ stage # "idle"
  /\ stage' = "idle" /\ controlled' = FALSE
  /\ UNCHANGED <<entry, hit, leak, report>>

\* The target writes storage after the call that was hit.
Leak ==
  /\ stage = "idle" /\ hit # NoSelector
  /\ leak' = TRUE
  /\ UNCHANGED <<stage, controlled, entry, hit, report>>

\* CREATE takes a leak of its init code for a failed creation.
Swallow ==
  /\ leak
  /\ leak' = FALSE
  /\ UNCHANGED <<stage, controlled, entry, hit, report>>

Report ==
  /\ leak /\ report = NoSelector
  /\ leak' = FALSE /\ report' = hit
  /\ UNCHANGED <<stage, controlled, entry, hit>>

Next ==
  \/ \E selector \in Selector, c \in BOOLEAN : Open(selector, c)
  \/ Probe \/ Hit \/ Close \/ Leak \/ Swallow \/ Report

Spec == Init /\ [][Next]_vars
=============================================================================
