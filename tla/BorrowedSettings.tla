------------------------- MODULE BorrowedSettings -------------------------
(***************************************************************************)
(* What a temporary override of somebody's settings promises, whoever      *)
(* keeps the record of what to put back: the settings are the owner's      *)
(* unless they are on loan, a loan ends with the owner's settings in       *)
(* force, and the owner's choice is never rewritten.  After an accident    *)
(* that the implementation names, nothing is promised.                     *)
(***************************************************************************)
CONSTANT Setting

VARIABLES
  settings,  \* in force
  chosen,    \* the owner's
  onLoan,    \* somebody holds a record to restore `chosen` from
  excused    \* an accident happened

cvars == <<settings, chosen, onLoan, excused>>

CInit ==
  /\ settings \in Setting
  /\ chosen = settings
  /\ onLoan = FALSE
  /\ excused = FALSE

Choose ==
  /\ ~onLoan
  /\ settings' \in Setting
  /\ chosen' = settings'
  /\ UNCHANGED <<onLoan, excused>>

Borrow ==
  /\ ~onLoan /\ onLoan'
  /\ UNCHANGED <<settings, chosen, excused>>

Override ==
  /\ onLoan
  /\ settings' \in Setting
  /\ UNCHANGED <<chosen, onLoan, excused>>

GiveBack ==
  /\ onLoan /\ ~onLoan'
  /\ settings = chosen
  /\ UNCHANGED <<settings, chosen, excused>>

Accident == excused'

CNext == Choose \/ Borrow \/ Override \/ GiveBack \/ Accident

CSpec == CInit /\ [][CNext]_cvars
=============================================================================
