----------------------------- MODULE PolkitAgent -----------------------------
(***************************************************************************)
(* The Polkit authentication agent (astrea-polkit-agent.py).               *)
(*                                                                         *)
(* Each request of polkitd is a flow over the identities that may          *)
(* authorize it: a session of libpolkit with one identity after the other, *)
(* each of which may ask for passwords.  Requests and cancellations arrive *)
(* in the listener's own thread (RUN_IN_THREAD); everything else happens   *)
(* in the main loop, which stands still while a prompt is on the screen.   *)
(***************************************************************************)
EXTENDS Naturals

CONSTANTS
  Flows,          \* requests of polkitd
  MaxIdentities,  \* identities a request may have
  MaxAsks,        \* questions of one session
  Nobody          \* no flow

VARIABLES
  pc,         \* a flow: "new", "queued" (idle_add), "tried" (it has a session), "done"
  names,      \* how many identities it may try
  index,      \* how many it has tried
  session,    \* its session: "none", "runs" in PAM, "asks": PAM waits for a response
  asks,       \* questions its session has asked
  prompt,     \* the flow whose prompt is on the screen: the loop waits for it
  cancelled,  \* is its cancellable cancelled?
  gained,     \* history: has one of its sessions gained the authorization?
  answer      \* what polkitd was told: "none", "yes", "no", "cancelled"

pkVars == <<pc, names, index, session, asks, prompt, cancelled, gained, answer>>

PkInit ==
  /\ pc = [f \in Flows |-> "new"] /\ names \in [Flows -> 0..MaxIdentities]
  /\ index = [f \in Flows |-> 0] /\ session = [f \in Flows |-> "none"]
  /\ asks = [f \in Flows |-> 0] /\ prompt = Nobody
  /\ cancelled = [f \in Flows |-> FALSE] /\ gained = [f \in Flows |-> FALSE]
  /\ answer = [f \in Flows |-> "none"]

\* finish: the task says "cancelled" whatever it is given once its cancellable is.
Finish(f, authorized) ==
  /\ pc' = [pc EXCEPT ![f] = "done"] /\ session' = [session EXCEPT ![f] = "none"]
  /\ answer' = [answer EXCEPT ![f] = IF cancelled[f] THEN "cancelled"
                                     ELSE IF authorized THEN "yes" ELSE "no"]
  /\ UNCHANGED <<index, asks>>

TryNextIdentity(f) ==
  \/ (cancelled[f] \/ index[f] >= names[f]) /\ Finish(f, FALSE)
  \/ /\ ~cancelled[f] /\ index[f] < names[f]
     /\ index' = [index EXCEPT ![f] = @ + 1] /\ asks' = [asks EXCEPT ![f] = 0]
     /\ pc' = [pc EXCEPT ![f] = "tried"] /\ session' = [session EXCEPT ![f] = "runs"]
     /\ UNCHANGED answer

\* on_completed
Completed(f, authorized) == IF authorized THEN Finish(f, TRUE) ELSE TryNextIdentity(f)

----------------------------------------------------------------------------
(* The listener's thread *)

InitiateAuthentication(f) ==
  /\ pc[f] = "new" /\ pc' = [pc EXCEPT ![f] = "queued"]
  /\ UNCHANGED <<names, index, session, asks, prompt, cancelled, gained, answer>>

\* polkitd gives the request up; a prompt on the screen is told to terminate.
Cancel(f) ==
  /\ pc[f] \in {"queued", "tried"} /\ ~cancelled[f]
  /\ cancelled' = [cancelled EXCEPT ![f] = TRUE]
  /\ UNCHANGED <<pc, names, index, session, asks, prompt, gained, answer>>

----------------------------------------------------------------------------
(* The main loop *)

Start(f) ==
  /\ prompt = Nobody /\ pc[f] = "queued"
  /\ IF names[f] = 0 THEN Finish(f, FALSE) ELSE TryNextIdentity(f)
  /\ UNCHANGED <<names, prompt, cancelled, gained>>

\* on_request and run_prompt: the loop waits for the prompt's end.
Request(f) ==
  /\ prompt = Nobody /\ session[f] = "runs" /\ asks[f] < MaxAsks
  /\ prompt' = f /\ session' = [session EXCEPT ![f] = "asks"]
  /\ asks' = [asks EXCEPT ![f] = @ + 1]
  /\ UNCHANGED <<pc, names, index, cancelled, gained, answer>>

\* session.response
Respond(f) ==
  /\ prompt = f /\ ~cancelled[f]
  /\ prompt' = Nobody /\ session' = [session EXCEPT ![f] = "runs"]
  /\ UNCHANGED <<pc, names, index, asks, cancelled, gained, answer>>

\* mutant: the session is left alone with its question
LeaveSession(f) == UNCHANGED <<pc, index, session, asks, answer>>

\* session.cancel completes the session, without the authorization.
CancelSession(f) == Completed(f, FALSE)

\* PromptCancelled: the user closes the prompt, or it was terminated.
Refuse(f) ==
  /\ prompt = f /\ prompt' = Nobody /\ CancelSession(f)
  /\ UNCHANGED <<names, cancelled, gained>>

\* PAM is satisfied, or not; the helper may also die.
SessionEnds(f) ==
  /\ prompt = Nobody /\ session[f] = "runs"
  /\ \E authorized \in BOOLEAN :
       Completed(f, authorized) /\ gained' = [gained EXCEPT ![f] = authorized]
  /\ UNCHANGED <<names, prompt, cancelled>>

PkNext == \E f \in Flows :
  \/ InitiateAuthentication(f) \/ Cancel(f)
  \/ Start(f) \/ Request(f) \/ Respond(f) \/ Refuse(f) \/ SessionEnds(f)

PkSpec == PkInit /\ [][PkNext]_pkVars

----------------------------------------------------------------------------
\* No request is stranded: until it is answered something is due that will bring
\* it on, its start, its session's next event or the end of its own prompt, and
\* the loop waits for no prompt of a request that is over.  Whatever prompts are
\* closed, sessions fail and requests are cancelled meanwhile, every request is
\* thus answered if PAM, the loop and the user go on.
NoneIsStranded ==
  /\ \A f \in Flows :
       pc[f] \in {"queued", "tried"} =>
         \/ pc[f] = "queued" /\ session[f] = "none"
         \/ session[f] = "runs"
         \/ session[f] = "asks" /\ prompt = f
  /\ prompt # Nobody => pc[prompt] = "tried" /\ session[prompt] = "asks"

\* What polkitd is told is true: "yes" when a session gained the authorization,
\* "no" when every identity was tried and none did, and no session outlives its
\* request.
AnswersAreEarned ==
  \A f \in Flows :
    /\ answer[f] = "yes" => gained[f]
    /\ answer[f] = "no" => ~gained[f] /\ index[f] = names[f]
    /\ answer[f] # "none" => session[f] = "none"

\* Where a flow is says what it has done: it has no session and no answer before its
\* start, one that is tried has not been granted yet, and only one that is over has an
\* answer.  From this the two invariants above are kept by every step.
Flow(f) ==
  /\ pc[f] \in {"new", "queued"} => session[f] = "none"
  /\ pc[f] \in {"new", "queued", "tried"} => ~gained[f] /\ answer[f] = "none"
  /\ pc[f] = "done" => session[f] = "none" /\ answer[f] # "none"
  /\ session[f] = "asks" => prompt = f
  /\ pc[f] = "new" => index[f] = 0
  /\ index[f] <= names[f]

PkTypeOK ==
  /\ pc \in [Flows -> {"new", "queued", "tried", "done"}]
  /\ names \in [Flows -> 0..MaxIdentities] /\ index \in [Flows -> 0..MaxIdentities]
  /\ session \in [Flows -> {"none", "runs", "asks"}] /\ asks \in [Flows -> 0..MaxAsks]
  /\ prompt \in Flows \cup {Nobody}
  /\ cancelled \in [Flows -> BOOLEAN] /\ gained \in [Flows -> BOOLEAN]
  /\ answer \in [Flows -> {"none", "yes", "no", "cancelled"}]

PkInv == PkTypeOK /\ NoneIsStranded /\ AnswersAreEarned /\ \A f \in Flows : Flow(f)

\* A request that polkitd cancelled goes on to no further identity.
CancellingStep == \A f \in Flows : cancelled[f] => index'[f] = index[f]
=============================================================================
