----------------------------- MODULE TurnRuntime -----------------------------
(***************************************************************************)
(* A private Telegram turn from ingress to acknowledgement: the dispatcher *)
(* of DurableDispatcher, the runtime's single promise queue and its handle *)
(* method (runtime/tether-runtime.cjs), the causal journal, the provider   *)
(* with or without a tool transaction, memory and the channel's send.      *)
(*                                                                         *)
(* Every durable append is a step of its own, so the process can die       *)
(* before and after each.  Providers and Telegram answer or fail as they   *)
(* like; what has reached them is kept in history variables.               *)
(***************************************************************************)
EXTENDS DurableDispatcher, CausalJournal, Sequences

CONSTANTS
  EnvelopesOf,  \* the envelopes an update may be prepared into: none for an
                \* update with nothing to say, several when an image is
                \* transcribed anew by a vision model on each attempt
  ToolTurns,    \* updates whose turn runs in a durable tool transaction
  MaxAsks,      \* bound on provider requests
  MaxTears      \* bound on causal or memory appends that throw

ASSUME TurnAssumption ==
  /\ EnvelopesOf \in [Update -> SUBSET Envelope]
  /\ ToolTurns \subseteq Update
  /\ MaxAsks \in Nat
  /\ MaxTears \in Nat

VARIABLES
  step,         \* where the live turn of each update stands
  input,        \* the envelope it was prepared into ({} before that)
  queue,        \* the runtime's promise queue; its head is being handled
  asking,       \* updates with a provider request on the wire
  tool,         \* durable: last event of the tool transaction
  remembered,   \* durable: updates whose turn is in memory
  spent,        \* how often each bounded event has happened
  commits,      \* history: outputs committed per update
  shown,        \* history: sends that reached the user per update
  lost,         \* history: updates whose request was cut off by a crash
  verdict       \* history: the operator's last command on each update

turnVars == <<step, input, queue, asking, tool, remembered, spent, commits,
              shown, lost, verdict>>
vars == <<dvars, causal, turnVars>>

Step == {"none", "preparing", "queued", "accepted", "compiling", "asking",
         "answered", "recording", "delivering", "sending", "sent", "redone"}

Verdict == {"none", "requeue", "resume", "archive"}

ToolEvent == {"none", "open", "request-started", "final"}

TurnInit ==
  /\ Init
  /\ CausalInit
  /\ step = [u \in Update |-> "none"]
  /\ input = [u \in Update |-> {}]
  /\ queue = <<>>
  /\ asking = {}
  /\ tool = [u \in Update |-> "none"]
  /\ remembered = {}
  /\ spent = [asks |-> 0, tears |-> 0]
  /\ commits = [u \in Update |-> 0]
  /\ shown = [u \in Update |-> 0]
  /\ lost = {}
  /\ verdict = [u \in Update |-> "none"]

\* Mutant of CanResume: a request in doubt is resumed as well.
CanResumeInDoubt(u) == tool[u] # "none"

\* inference-started is resumed only over a tool transaction whose last event
\* leaves no request in doubt.
CanResume(u) == tool[u] \in {"open", "final"}

-----------------------------------------------------------------------------
(* The dispatcher's steps around the turn.                                 *)

\* A task that starts begins with the preparation of its update.
StartsPreparing ==
  step' = [u \in Update |->
             IF task[u] = "idle" /\ task'[u] = "dispatching" THEN "preparing"
             ELSE step[u]]

Receives ==
  /\ \E u \in Update : Ingest(u)
  /\ StartsPreparing
  /\ UNCHANGED <<causal, input, queue, asking, tool, remembered, spent,
                 commits, shown, lost, verdict>>

Passes ==
  /\ \E c \in Chat, u \in Update : RunStep(c, u)
  /\ StartsPreparing
  /\ UNCHANGED <<causal, input, queue, asking, tool, remembered, spent,
                 commits, shown, lost, verdict>>

Background ==
  /\ \/ WriteOffset \/ RetryDue \/ Restart \/ ReplayDone
     \/ \E u \in Update : NoticeSettles(u) \/ Waited(u)
  /\ UNCHANGED <<causal, turnVars>>

OperatorActs ==
  /\ \E u \in Update :
       /\ Operator(u)
       /\ verdict' = [verdict EXCEPT ![u] =
            IF entry'[u].state = "done" THEN "archive"
            ELSE IF entry[u].state = "operator-paused" THEN "resume"
            ELSE "requeue"]
  /\ UNCHANGED <<causal, step, input, queue, asking, tool, remembered, spent,
                 commits, shown, lost>>

Dies ==
  /\ Crash
  /\ step' = [u \in Update |-> "none"]
  /\ input' = [u \in Update |-> {}]
  /\ queue' = <<>>
  /\ lost' = lost \cup asking
  /\ asking' = {}
  /\ UNCHANGED <<causal, tool, remembered, spent, commits, shown, verdict>>

-----------------------------------------------------------------------------
(* One live step of a turn, and its ends.                                  *)

Live(u) == phase # "down" /\ Drained

Goes(u, from, to) ==
  /\ Live(u) /\ step[u] = from
  /\ step' = [step EXCEPT ![u] = to]
  /\ UNCHANGED <<dvars, input, queue, lost, verdict>>

\* Mutant of LeavesTurn: a turn that ends is never taken off the queue.
LeavesTurnQueued(u) ==
  /\ step' = [step EXCEPT ![u] = "none"]
  /\ input' = [input EXCEPT ![u] = {}]
  /\ queue' = queue

LeavesTurn(u) ==
  /\ step' = [step EXCEPT ![u] = "none"]
  /\ input' = [input EXCEPT ![u] = {}]
  /\ queue' = IF queue # <<>> /\ Head(queue) = u THEN Tail(queue) ELSE queue

\* The handler's promise resolves, the dispatcher books the result.
Succeeds(u) ==
  /\ TaskSucceeds(u) \/ DoneAppendFails(u)
  /\ LeavesTurn(u)

Throws(u, action) ==
  /\ \/ TaskFails(u, action)
     \/ FailureAppendFails(u)
  /\ LeavesTurn(u)

\* An append to the causal journal or to memory throws.
Tears == /\ spent.tears < MaxTears
         /\ spent' = [spent EXCEPT !.tears = @ + 1]

-----------------------------------------------------------------------------
(* Ingress (prepareUpdate, then enqueue).                                  *)

Prepare(u) ==
  /\ Live(u) /\ step[u] = "preparing"
  /\ \E e \in EnvelopesOf[u] : input' = [input EXCEPT ![u] = {e}]
  /\ step' = [step EXCEPT ![u] = "queued"]
  /\ queue' = Append(queue, u)
  /\ UNCHANGED <<dvars, causal, asking, tool, remembered, spent, commits,
                 shown, lost, verdict>>

NothingToSay(u) ==
  /\ step[u] = "preparing" /\ EnvelopesOf[u] = {}
  /\ Succeeds(u)
  /\ UNCHANGED <<causal, asking, tool, remembered, spent, commits, shown,
                 lost, verdict>>

\* An attachment cannot be downloaded.
PrepareFails(u) ==
  /\ step[u] = "preparing" /\ EnvelopesOf[u] # {}
  /\ Throws(u, "fail")
  /\ UNCHANGED <<causal, asking, tool, remembered, spent, commits, shown,
                 lost, verdict>>

-----------------------------------------------------------------------------
(* handle: what the causal record allows.                                  *)

Handled(u) == step[u] = "queued" /\ queue # <<>> /\ Head(queue) = u

Presented(u) == CHOOSE e \in input[u] : TRUE

Known(u) == ~Mismatch(u, Presented(u))

Refuses(u) ==
  /\ Handled(u)
  /\ \/ /\ ~Known(u)
        /\ Throws(u, "fail")
     \/ /\ Known(u)
        /\ \/ causal[u].state = "inference-started" /\ ~CanResume(u)
           \/ causal[u].state = "delivery-started"
        /\ Throws(u, "operator-pause")
  /\ UNCHANGED <<causal, asking, tool, remembered, spent, commits, shown,
                 lost, verdict>>

TakesInput(u) ==
  /\ Handled(u) /\ Known(u)
  /\ \/ causal[u].state \in {"none", "received", "inference-rejected"}
     \/ causal[u].state = "inference-started" /\ CanResume(u)
  /\ PrepareInput(u, Presented(u))
  /\ Goes(u, "queued", "accepted")
  /\ UNCHANGED <<asking, tool, remembered, spent, commits, shown>>

ReplaysUnrecorded(u) ==
  /\ Handled(u) /\ Known(u)
  /\ causal[u].state \in {"committed", "delivery-failed"}
  /\ Goes(u, "queued", "delivering")
  /\ UNCHANGED <<causal, asking, tool, remembered, spent, commits, shown>>

Replays(u) ==
  /\ Handled(u) /\ Known(u)
  /\ \/ /\ causal[u].state \in {"committed", "delivery-failed"}
        /\ Goes(u, "queued", "recording")
     \/ /\ causal[u].state = "delivered"
        /\ Goes(u, "queued", "redone")
  /\ UNCHANGED <<causal, asking, tool, remembered, spent, commits, shown>>

-----------------------------------------------------------------------------
(* Inference.                                                              *)

StartsInference(u) ==
  /\ Goes(u, "accepted", "compiling")
  /\ IF causal[u].state = "inference-started" THEN UNCHANGED causal
     ELSE MarkInferenceStarted(u)
  /\ UNCHANGED <<asking, tool, remembered, spent, commits, shown>>

\* respond() begins or resumes the tool transaction; a durable final result
\* is the answer.
Responds(u) ==
  /\ \/ u \in ToolTurns /\ tool[u] = "final" /\ Goes(u, "compiling", "answered")
     \/ ~(u \in ToolTurns /\ tool[u] = "final") /\ Goes(u, "compiling", "asking")
  /\ tool' = IF u \in ToolTurns /\ tool[u] = "none" THEN [tool EXCEPT ![u] = "open"]
             ELSE tool
  /\ UNCHANGED <<causal, asking, remembered, spent, commits, shown>>

\* The prompt cannot be compiled, or no longer hashes to the one the tool
\* transaction began with.
CompileFails(u) ==
  /\ step[u] = "compiling"
  /\ Throws(u, "fail")
  /\ UNCHANGED <<causal, asking, tool, remembered, spent, commits, shown,
                 lost, verdict>>

Requests(u) ==
  /\ u \notin asking
  /\ spent.asks < MaxAsks
  /\ spent' = [spent EXCEPT !.asks = @ + 1]
  /\ Goes(u, "asking", "asking")
  /\ asking' = asking \cup {u}
  /\ tool' = IF u \in ToolTurns THEN [tool EXCEPT ![u] = "request-started"] ELSE tool
  /\ UNCHANGED <<causal, remembered, commits, shown>>

\* A final completion.
Answers(u) ==
  /\ u \in asking
  /\ Goes(u, "asking", "answered")
  /\ asking' = asking \ {u}
  /\ tool' = IF u \in ToolTurns THEN [tool EXCEPT ![u] = "final"] ELSE tool
  /\ UNCHANGED <<causal, remembered, spent, commits, shown>>

\* A tool call to run, an error reply, or a reply to be repaired for the channel:
\* there may be another request.
AsksOn(u) ==
  /\ u \in asking
  /\ Goes(u, "asking", "asking")
  /\ asking' = asking \ {u}
  /\ tool' = IF u \in ToolTurns THEN [tool EXCEPT ![u] = "open"] ELSE tool
  /\ UNCHANGED <<causal, remembered, spent, commits, shown>>

\* No reply: outside a transaction the next attempt asks again, inside one
\* the request stays in doubt.
RequestVanishes(u) ==
  /\ u \in asking
  /\ asking' = asking \ {u}
  /\ IF u \in ToolTurns
     THEN /\ Throws(u, "operator-pause")
          /\ lost' = lost \cup {u}
          /\ UNCHANGED verdict
     ELSE Goes(u, "asking", "asking")
  /\ UNCHANGED <<causal, tool, remembered, spent, commits, shown>>

\* Every provider failed or the circuit is open; or the answer breaks the
\* reply contract.
Rejects(u) ==
  /\ u \notin asking
  /\ \/ step[u] = "asking" /\ \E action \in {"fail", "operator-pause"} : Throws(u, action)
     \/ step[u] = "answered" /\ Throws(u, "fail")
  /\ MarkInferenceRejected(u)
  /\ UNCHANGED <<asking, tool, remembered, spent, commits, shown, lost, verdict>>

\* The tool loop stops: an approval is pending, an effect is ambiguous, the
\* iteration limit is reached.  The inference stays started.
ToolLoopStops(u) ==
  /\ u \in ToolTurns /\ u \notin asking /\ step[u] = "asking"
  /\ \E action \in ErrorAction : Throws(u, action)
  /\ UNCHANGED <<causal, asking, tool, remembered, spent, commits, shown,
                 lost, verdict>>

Commits(u) ==
  /\ Goes(u, "answered", "recording")
  /\ CommitOutput(u)
  /\ commits' = [commits EXCEPT ![u] = @ + 1]
  /\ UNCHANGED <<asking, tool, remembered, spent, shown>>

-----------------------------------------------------------------------------
(* Memory and delivery.                                                    *)

Records(u) ==
  /\ Goes(u, "recording", "delivering")
  /\ remembered' = remembered \cup {u}
  /\ UNCHANGED <<causal, asking, tool, spent, commits, shown>>

StartsDelivery(u) ==
  /\ Goes(u, "delivering", "sending")
  /\ MarkDeliveryStarted(u)
  /\ UNCHANGED <<asking, tool, remembered, spent, commits, shown>>

\* The message, or its first part, appears in the chat.
Shows(u) ==
  /\ Goes(u, "sending", "sent")
  /\ shown' = [shown EXCEPT ![u] = @ + 1]
  /\ UNCHANGED <<causal, asking, tool, remembered, spent, commits>>

\* Mutant of SendRefused: any failure of a send counts as not delivered.
SendRefusedAlways(u) ==
  /\ step[u] \in {"sending", "sent"}
  /\ MarkDeliveryFailed(u)
  /\ Throws(u, "fail")
  /\ UNCHANGED <<asking, tool, remembered, spent, commits, shown, lost, verdict>>

\* Telegram refused the first part with an answer of its own.
SendRefused(u) ==
  /\ step[u] = "sending"
  /\ MarkDeliveryFailed(u)
  /\ Throws(u, "fail")
  /\ UNCHANGED <<asking, tool, remembered, spent, commits, shown, lost, verdict>>

\* Mutant of SendAmbiguous: a send without an answer counts as delivered.
SendAmbiguousIgnored(u) ==
  /\ step[u] \in {"sending", "sent"}
  /\ Succeeds(u)
  /\ UNCHANGED <<causal, asking, tool, remembered, spent, commits, shown,
                 lost, verdict>>

\* No answer at all, or a later part failed.
SendAmbiguous(u) ==
  /\ step[u] \in {"sending", "sent"}
  /\ Throws(u, "operator-pause")
  /\ UNCHANGED <<causal, asking, tool, remembered, spent, commits, shown,
                 lost, verdict>>

Acknowledges(u) ==
  /\ step[u] = "sent"
  /\ MarkDelivered(u)
  /\ Succeeds(u)
  /\ UNCHANGED <<asking, tool, remembered, spent, commits, shown, lost, verdict>>

\* The turn was delivered before: only memory is brought up to date.
Reaffirms(u) ==
  /\ step[u] = "redone"
  /\ Succeeds(u)
  /\ remembered' = remembered \cup {u}
  /\ UNCHANGED <<causal, asking, tool, spent, commits, shown, lost, verdict>>

\* The append of the current step throws: the turn ends with an ordinary
\* failure, and the journals keep what they had.
AppendThrows(u) ==
  /\ \/ Handled(u) /\ causal[u].state = "none"
     \/ step[u] \in {"accepted", "answered", "recording", "delivering", "sending",
                     "sent", "redone"}
  /\ Tears
  /\ Throws(u, "fail")
  /\ UNCHANGED <<causal, asking, tool, remembered, commits, shown, lost, verdict>>

\* The append of a provider's reply to the tool transaction throws, or its
\* mutation lock is held by the operator's tether-tools: the reply is lost.
ToolAppendThrows(u) ==
  /\ u \in ToolTurns /\ step[u] = "asking"
  /\ Tears
  /\ Throws(u, "fail")
  /\ asking' = asking \ {u}
  /\ lost' = lost \cup (asking \cap {u})
  /\ UNCHANGED <<causal, tool, remembered, commits, shown, verdict>>

-----------------------------------------------------------------------------
TurnStep(u) ==
  \/ Prepare(u) \/ NothingToSay(u) \/ PrepareFails(u)
  \/ Refuses(u) \/ TakesInput(u) \/ Replays(u)
  \/ StartsInference(u) \/ Responds(u) \/ CompileFails(u)
  \/ Requests(u) \/ Answers(u) \/ AsksOn(u) \/ RequestVanishes(u)
  \/ Rejects(u) \/ ToolLoopStops(u) \/ Commits(u)
  \/ Records(u) \/ StartsDelivery(u) \/ Shows(u) \/ SendRefused(u)
  \/ SendAmbiguous(u) \/ Acknowledges(u) \/ Reaffirms(u) \/ AppendThrows(u)
  \/ ToolAppendThrows(u)

TurnNext ==
  \/ Receives \/ Passes \/ Background \/ OperatorActs \/ Dies
  \/ \E u \in Update : TurnStep(u)

TurnSpec == TurnInit /\ [][TurnNext]_vars

\* The dispatcher's fairness, where the end of a task is now a step of the
\* turn: every request has a timeout, so a live turn takes its next step.
TurnFairness ==
  /\ \A u \in Update : SF_vars(TurnStep(u))
  /\ WF_vars(Receives)
  /\ WF_vars(Passes)
  /\ WF_vars(WriteOffset /\ Background)
  /\ WF_vars(RetryDue /\ Background)
  /\ WF_vars((Restart \/ ReplayDone) /\ Background)
  /\ \A u \in Update : SF_vars((NoticeSettles(u) \/ Waited(u)) /\ Background)

TurnFairSpec == TurnSpec /\ TurnFairness

-----------------------------------------------------------------------------
(* Properties.                                                             *)

InTurn(u) == step[u] \notin {"none", "preparing", "queued"}

\* Every variable keeps its shape.
TurnTypeOK ==
  /\ TypeOK
  /\ causal \in [Update -> CausalRecord]
  /\ step \in [Update -> Step]
  /\ input \in [Update -> SUBSET Envelope]
  /\ queue \in Seq(Update)
  /\ asking \subseteq Update
  /\ tool \in [Update -> ToolEvent]
  /\ remembered \subseteq Update
  /\ spent \in [asks : 0 .. MaxAsks, tears : 0 .. MaxTears]
  /\ commits \in [Update -> Nat]
  /\ shown \in [Update -> Nat]
  /\ lost \subseteq Update
  /\ verdict \in [Update -> Verdict]

\* At most one output is committed for a causal id, and the user sees at most
\* one: through crashes at any append, lost acknowledgements, retries,
\* redeliveries and every operator command (SELFSAME_PROTOCOL 4.6).
AtMostOnce == \A u \in Update : commits[u] <= 1 /\ shown[u] <= 1

\* A request whose reply died with the process, or with the append of the
\* reply, is never followed by another for the same causal id.
NoReinferenceAfterLoss == lost \cap asking = {}

\* An update the runtime closed as done was answered, the answer delivered
\* and remembered; one with nothing to say and one the operator archived are
\* the only others.
DoneMeansDelivered ==
  \A u \in Update :
    /\ entry[u].state = "done"
    /\ EnvelopesOf[u] # {}
    /\ verdict[u] # "archive"
    => causal[u].state = "delivered" /\ shown[u] = 1 /\ u \in remembered

\* What the user has read is in memory: no crash or failed append between
\* the commit and the send loses the turn from the agent's history.
ShownIsRemembered == \A u \in Update : shown[u] > 0 => u \in remembered

\* One turn of the session at a time, whatever the chats do concurrently.
OneTurnAtATime ==
  \A u, v \in Update : InTurn(u) /\ InTurn(v) => u = v

\* No step of a live turn meets a causal state that its transition refuses,
\* and a live turn is always its dispatcher task's.
TurnMatchesJournal ==
  \A u \in Update :
    /\ step[u] # "none" <=> task[u] = "dispatching"
    /\ step[u] = "accepted" =>
         causal[u].state \in {"received", "inference-rejected", "inference-started"}
    /\ step[u] \in {"compiling", "asking", "answered"} =>
         causal[u].state = "inference-started"
    /\ step[u] \in {"recording", "delivering"} =>
         causal[u].state \in {"committed", "delivery-failed"}
    /\ step[u] \in {"sending", "sent"} => causal[u].state = "delivery-started"

\* What an inbox entry says of its update to someone who waits for the answer.
StatusOf(e) ==
  CASE e.state = "none" -> "unseen"
    [] e.state = "done" -> "done"
    [] e.state = "dead-letter" -> "dead"
    [] e.state = "operator-paused" -> "parked"
    [] OTHER -> "open"

\* The promise of the Selfsame Protocol's causal idempotency, as a
\* specification of its own.
Promise == INSTANCE SelfsameTurn WITH
  Silent <- {u \in Update : EnvelopesOf[u] = {}},
  status <- [u \in Update |-> StatusOf(entry[u])],
  answers <- commits

\* Every step of the runtime is a step of the promise or invisible to it.
KeepsPromise == Promise!Spec

=============================================================================
