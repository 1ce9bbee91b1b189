------------------------------ MODULE ToolLoop ------------------------------
(***************************************************************************)
(* Turns that may use tools: the provider loop (openai-compatible.cjs), the *)
(* tool journal (tool-journal.cjs), the workspace tools                     *)
(* (workspace-tools.cjs), the provider circuit and, of handle, what decides *)
(* whether a turn reaches them.                                             *)
(*                                                                         *)
(* The promise queue runs one turn at a time: run is where it stands.  Each *)
(* step appends at most one record or changes the file once, so that a      *)
(* crash, the operator or an editor of the file may come between any two.   *)
(* The workspace is one file.                                               *)
(***************************************************************************)
EXTENDS Integers, Sequences, FiniteSets

CONSTANTS
  Turn, NoTurn,    \* causal ids
  CallId, Content, Absent,   \* tool call identifiers, contents of the file
  Answers,         \* what providers may answer to a turn: calls, each [id, op], and a text
  Providers,       \* length of the provider chain
  Broken,          \* providers whose configuration or images are refused
  MaxIterations, Threshold, MaxAttempts,
  NeedApproval,    \* turns whose scope asks approval of writes
  MaxEvents        \* bound on crashes, failed appends, edits, revivals and folds

Chain == 0 .. Providers - 1

\* An operation is the content to write, a read, or one that is rejected
\* before it does anything: arguments, root or policy.
Op == Content \cup {"read", "bad"}
Call == [id : CallId, op : Op]

ASSUME ToolAssumption ==
  /\ NoTurn \notin Turn /\ Absent \notin Content
  /\ {"read", "bad"} \cap Content = {}
  /\ Providers \in Nat \ {0} /\ Broken \subseteq Chain
  /\ \A t \in Turn : Answers[t] \subseteq [calls : Seq(Call), text : BOOLEAN]
  /\ MaxIterations \in Nat \ {0} /\ Threshold \in Nat \ {0} /\ MaxAttempts \in Nat \ {0}
  /\ NeedApproval \subseteq Turn
  /\ MaxEvents \in Nat

VARIABLES
  run,        \* the turn inside respond
  entry,      \* of the inbox: "due", "parked", "dead" or "done"
  tries,      \* of the inbox
  causal,     \* durable: "received", "started", "rejected" or "committed"
  tx,         \* durable: the tool transactions
  ops,        \* durable: the tool operations
  approvals,  \* durable
  circuit,    \* durable
  file,       \* the workspace file
  context,    \* version of what a request is hashed over
  asked,      \* history: the requests sent, by iteration and provider
  doubt,      \* history: turns with a request whose outcome was not recorded
  writes,     \* history: writes of each call since the file was changed by another
  held,       \* history: calls whose content the file has had since they were prepared
  revived,    \* history: turns resumed while the circuit was closed
  events      \* crashes, faults, edits, revivals and folds so far

durable == <<causal, tx, ops, approvals, circuit, file, context>>
history == <<asked, doubt, writes, held, revived>>
vars == <<run, entry, tries, durable, history, events>>

Idle == [turn |-> NoTurn, at |-> "idle", iter |-> 0, prov |-> 0, result |-> "none", asks |-> 0]

NewTx == [last |-> "none", hash |-> 0, iter |-> 0, prov |-> 0,
          calls |-> <<>>, text |-> FALSE, done |-> 0]

NoOp == [st |-> "none", op |-> "bad", prior |-> Absent]

Init ==
  /\ run = Idle
  /\ entry = [t \in Turn |-> "due"] /\ tries = [t \in Turn |-> 0]
  /\ causal = [t \in Turn |-> "received"]
  /\ tx = [t \in Turn |-> NewTx]
  /\ ops = [t \in Turn |-> [id \in CallId |-> NoOp]]
  /\ approvals = [t \in Turn |-> [c \in Call |-> "none"]]
  /\ circuit = [open |-> FALSE, keys |-> {}]
  /\ file = Absent /\ context = 0
  /\ asked = [t \in Turn |-> {}] /\ doubt = {}
  /\ writes = [t \in Turn |-> [id \in CallId |-> 0]] /\ held = {}
  /\ revived = {} /\ events = 0

Counts == events < MaxEvents /\ events' = events + 1

t0 == run.turn

-----------------------------------------------------------------------------
(* The tool journal.                                                       *)

Follows ==
  [begin            |-> {"none"},
   request_started  |-> {"begin", "provider-failed", "tool-result"},
   provider_failed  |-> {"begin", "request-started", "provider-failed", "tool-result"},
   provider_step    |-> {"request-started"},
   tool_result      |-> {"provider-step", "tool-result"},
   final            |-> {"provider-step"}]

CanResume(t) == tx[t].last \notin {"none", "request-started"}

\* Some call of the latest step has no result yet.  Results are recorded in the
\* order of the calls, so done counts them.
Missing(t) == tx[t].done < Len(tx[t].calls)

\* recordTransaction: the event that run.at goes on to record.
Records(event, new) ==
  /\ tx[t0].last \in Follows[event]
  /\ tx' = [tx EXCEPT ![t0] = new]

-----------------------------------------------------------------------------
(* How a turn leaves handle.                                               *)

Leaves(outcome) ==
  /\ entry' = [entry EXCEPT ![t0] = outcome]
  /\ run' = Idle

FailsUncounted == Leaves("due") /\ UNCHANGED tries

\* markFailed counts the attempt.
Fails ==
  /\ tries' = [tries EXCEPT ![t0] = @ + 1]
  /\ Leaves(IF tries[t0] + 1 < MaxAttempts THEN "due" ELSE "dead")

Parks == Leaves("parked") /\ UNCHANGED tries

\* A timed pause, after which the turn is due again.
Pauses == Leaves("due") /\ UNCHANGED tries

GoesTo(at) == run' = [run EXCEPT !.at = at] /\ UNCHANGED <<entry, tries>>

-----------------------------------------------------------------------------
(* handle up to respond.                                                   *)

\* A turn whose inference is in doubt is not asked again; a committed one is
\* delivered.
Refuses(t) ==
  /\ run = Idle /\ entry[t] = "due"
  /\ \/ causal[t] = "started" /\ ~CanResume(t) /\ entry' = [entry EXCEPT ![t] = "parked"]
     \/ causal[t] = "committed" /\ entry' = [entry EXCEPT ![t] = "done"]
  /\ UNCHANGED <<run, tries, durable, history, events>>

Starts(t) ==
  /\ run = Idle /\ entry[t] = "due"
  /\ causal[t] \in {"received", "rejected"} \/ (causal[t] = "started" /\ CanResume(t))
  /\ causal' = [causal EXCEPT ![t] = "started"]
  /\ run' = [Idle EXCEPT !.turn = t, !.at = "respond"]
  /\ UNCHANGED <<entry, tries, tx, ops, approvals, circuit, file, context, history, events>>

\* The circuit refuses at once, and the inference is rejected.
CircuitRefuses ==
  /\ run.at = "respond" /\ circuit.open
  /\ causal' = [causal EXCEPT ![t0] = "rejected"]
  /\ Parks
  /\ UNCHANGED <<tx, ops, approvals, circuit, file, context, history, events>>

\* beginTransaction binds the request to the messages as they are now.
Begins ==
  /\ run.at = "respond" /\ ~circuit.open /\ tx[t0].last = "none"
  /\ Records("begin", [NewTx EXCEPT !.last = "begin", !.hash = context])
  /\ GoesTo("ask")
  /\ UNCHANGED <<causal, ops, approvals, circuit, file, context, history, events>>

Begun == run.at = "respond" /\ ~circuit.open /\ tx[t0].last # "none"
Matches == tx[t0].hash = context

Mismatches ==
  /\ Begun /\ ~Matches
  /\ Fails
  /\ UNCHANGED <<durable, history, events>>

\* The retry goes on where the transaction stopped.
ResumesAt(step, skip) ==
  /\ Begun /\ Matches
  /\ run' = [run EXCEPT
       !.at = CASE tx[t0].last = "final" -> "final"
                [] tx[t0].last = "provider-step" -> step
                [] tx[t0].last = "tool-result" -> "tool"
                [] OTHER -> "ask",
       !.iter = tx[t0].iter,
       !.prov = IF tx[t0].last = "provider-failed" THEN tx[t0].prov + skip ELSE 0]
  /\ UNCHANGED <<entry, tries, durable, history, events>>

\* Mutants: the provider that failed is asked again; a step is forgotten.
ResumesSameProvider == ResumesAt("step", 0)
\* The retry goes on where the transaction stopped.
Resumes == ResumesAt("step", 1)

-----------------------------------------------------------------------------
(* Asking the providers.                                                   *)

Asking == run.at = "ask" /\ run.prov < Providers

Skips ==
  /\ Asking /\ run.prov \in Broken
  /\ Records("provider_failed",
       [tx[t0] EXCEPT !.last = "provider-failed", !.iter = run.iter, !.prov = run.prov])
  /\ run' = [run EXCEPT !.prov = @ + 1]
  /\ UNCHANGED <<entry, tries, causal, ops, approvals, circuit, file, context, history, events>>

\* request-started is durable before the request is sent.
Asks ==
  /\ Asking /\ run.prov \notin Broken
  /\ Records("request_started",
       [tx[t0] EXCEPT !.last = "request-started", !.iter = run.iter, !.prov = run.prov])
  /\ asked' = [asked EXCEPT ![t0] = @ \cup {<<run.iter, run.prov>>}]
  /\ doubt' = doubt \cup {t0}
  /\ run' = [run EXCEPT !.at = "wire", !.asks = @ + 1]
  /\ UNCHANGED <<entry, tries, causal, ops, approvals, circuit, file, context, writes, held,
                 revived, events>>

\* An answer that is not ok goes to the next provider.
ProviderFails ==
  /\ run.at = "wire"
  /\ Records("provider_failed", [tx[t0] EXCEPT !.last = "provider-failed"])
  /\ doubt' = doubt \ {t0}
  /\ run' = [run EXCEPT !.at = "ask", !.prov = @ + 1]
  /\ UNCHANGED <<entry, tries, causal, ops, approvals, circuit, file, context, asked, writes,
                 held, revived, events>>

ProviderAnswers ==
  /\ run.at = "wire"
  /\ \E answer \in Answers[t0] :
       Records("provider_step", [tx[t0] EXCEPT !.last = "provider-step", !.calls = answer.calls,
                                                !.text = answer.text, !.done = 0])
  /\ doubt' = doubt \ {t0}
  /\ GoesTo("step")
  /\ UNCHANGED <<causal, ops, approvals, circuit, file, context, asked, writes, held,
                 revived, events>>

\* No answer, or one that is no completion: it may have been computed.
AnswerIsLost ==
  /\ run.at = "wire"
  /\ Parks
  /\ UNCHANGED <<durable, history, events>>

\* Tool calls without a name or with one identifier twice: an ordinary error
\* before anything is recorded.
AnswerIsMalformed ==
  /\ run.at = "wire"
  /\ Fails
  /\ UNCHANGED <<durable, history, events>>

\* Every provider failed: the circuit counts the turn, the inference is rejected.
AllFailed ==
  LET keys == circuit.keys \cup {t0}
      open == circuit.open \/ Cardinality(keys) >= Threshold
  IN
  /\ run.at = "ask" /\ run.prov >= Providers
  /\ circuit' = [open |-> open, keys |-> keys]
  /\ causal' = [causal EXCEPT ![t0] = "rejected"]
  /\ IF open THEN Parks ELSE Fails
  /\ UNCHANGED <<tx, ops, approvals, file, context, history, events>>

-----------------------------------------------------------------------------
(* A step of the provider.                                                 *)

AtStep == run.at = "step"

\* The final answer; an empty one is an error, now and on every retry.
Finals ==
  /\ AtStep /\ tx[t0].calls = <<>> /\ tx[t0].text
  /\ Records("final", [tx[t0] EXCEPT !.last = "final"])
  /\ GoesTo("final")
  /\ UNCHANGED <<causal, ops, approvals, circuit, file, context, history, events>>

AnswerIsEmpty ==
  /\ AtStep /\ tx[t0].calls = <<>> /\ ~tx[t0].text
  /\ Fails
  /\ UNCHANGED <<durable, history, events>>

ToolLimit ==
  /\ AtStep /\ tx[t0].calls # <<>> /\ tx[t0].iter >= MaxIterations
  /\ Fails
  /\ UNCHANGED <<durable, history, events>>

GoesToTools ==
  /\ AtStep /\ tx[t0].calls # <<>> /\ tx[t0].iter < MaxIterations
  /\ GoesTo("tool")
  /\ UNCHANGED <<durable, history, events>>

-----------------------------------------------------------------------------
(* execute: the first call without a result.                               *)

AtTool == run.at = "tool" /\ Missing(t0)
call == tx[t0].calls[tx[t0].done + 1]
op == ops[t0][call.id]
approval == approvals[t0][call]

Known == call.op # "bad" /\ (op.st = "none" \/ op.op = call.op)
Guarded == t0 \in NeedApproval /\ call.op \in Content
Permitted == Known /\ op.st # "committed" /\ (Guarded => approval = "approved")

Yields(result) == run' = [run EXCEPT !.at = "result", !.result = result] /\ UNCHANGED <<entry, tries>>

\* Rejected, committed before, or denied: there is nothing to do.
ExecuteAnswers ==
  /\ AtTool
  /\ \/ ~Known /\ Yields("error")
     \/ Known /\ op.st = "committed" /\ Yields("done")
     \/ Known /\ op.st # "committed" /\ Guarded /\ approval = "denied" /\ Yields("denied")
  /\ UNCHANGED <<durable, history, events>>

\* The approval is requested once; the turn waits for the operator.
ExecuteWaits ==
  /\ AtTool /\ Known /\ op.st # "committed" /\ Guarded /\ approval \in {"none", "pending"}
  /\ approvals' = [approvals EXCEPT ![t0][call] = "pending"]
  /\ Pauses
  /\ UNCHANGED <<causal, tx, ops, circuit, file, context, history, events>>

\* History: the prepared calls whose content is the file's, to be kept in held.
Holding(content, records) ==
  {c \in Turn \X CallId : /\ records[c[1]][c[2]].st = "prepared"
                          /\ records[c[1]][c[2]].op = content}

\* prepareOperation, which keeps the state of the file, or what a read found.
PreparesIf(allowed, again) ==
  /\ AtTool /\ allowed
  /\ ops' = IF op.st = "prepared" THEN ops
            ELSE [ops EXCEPT ![t0][call.id] = [st |-> "prepared", op |-> call.op, prior |-> file]]
  /\ held' = held \cup Holding(file, ops')
  /\ GoesTo(IF call.op = "read" THEN "commit-op" ELSE IF op.st = "prepared" THEN again ELSE "check")
  /\ UNCHANGED <<causal, tx, approvals, circuit, file, context, asked, doubt, writes, revived,
                 events>>

\* Mutants: the approval is not looked at; a retry takes a prepared write for a made one.
PreparesUnasked == PreparesIf(Known /\ op.st # "committed", "check")
PreparesTrusting == PreparesIf(Permitted, "commit-op")

Prepares == PreparesIf(Permitted, "check")

\* Mutant of Check: a write that is already there is made again.
CheckAgain ==
  /\ run.at = "check"
  /\ IF file \in {call.op, op.prior} THEN GoesTo("rename") ELSE Parks
  /\ UNCHANGED <<durable, history, events>>

\* writeFile compares the file with what the call wants and with what it found
\* when it was prepared.
Check ==
  /\ run.at = "check"
  /\ \/ file = call.op /\ GoesTo("commit-op")
     \/ file # call.op /\ file = op.prior /\ GoesTo("rename")
     \/ file \notin {call.op, op.prior} /\ Parks
  /\ UNCHANGED <<durable, history, events>>

Rename ==
  /\ run.at = "rename"
  /\ file' = call.op
  /\ writes' = [t \in Turn |-> [id \in CallId |->
                  IF t = t0 /\ id = call.id THEN writes[t][id] + 1 ELSE 0]]
  /\ held' = held \cup Holding(file', ops)
  /\ GoesTo("commit-op")
  /\ UNCHANGED <<causal, tx, ops, approvals, circuit, context, asked, doubt, revived, events>>

CommitOperation ==
  /\ run.at = "commit-op"
  /\ ops' = [ops EXCEPT ![t0][call.id].st = "committed"]
  /\ Yields("done")
  /\ UNCHANGED <<causal, tx, approvals, circuit, file, context, history, events>>

\* Inside execute every error but two becomes a result for the model: a refused
\* path or size, a failed append, read or write.
OperationFails ==
  /\ \/ AtTool /\ Known /\ op.st # "committed" /\ Guarded /\ approval = "none"
     \/ AtTool /\ Permitted /\ op.st = "none"
     \/ run.at \in {"rename", "commit-op"}
  /\ Counts
  /\ Yields("error")
  /\ UNCHANGED <<durable, history>>

RecordsResult ==
  /\ run.at = "result"
  /\ Records("tool_result", [tx[t0] EXCEPT !.last = "tool-result", !.done = @ + 1])
  /\ run' = [run EXCEPT !.at = "tool", !.result = "none"]
  /\ UNCHANGED <<entry, tries, causal, ops, approvals, circuit, file, context, history, events>>

\* Every call has its result: the next iteration begins with the first provider.
AsksAgain ==
  /\ run.at = "tool" /\ ~Missing(t0)
  /\ run' = [run EXCEPT !.at = "ask", !.iter = tx[t0].iter + 1, !.prov = 0]
  /\ UNCHANGED <<entry, tries, durable, history, events>>

-----------------------------------------------------------------------------
(* The end of a turn.                                                      *)

\* A closed circuit forgets the failures.
Succeeds ==
  /\ run.at = "final"
  /\ circuit' = IF circuit.open THEN circuit ELSE [circuit EXCEPT !.keys = {}]
  /\ GoesTo("output")
  /\ UNCHANGED <<causal, tx, ops, approvals, file, context, history, events>>

\* The output is committed and the turn becomes part of what others are asked with.
Commits ==
  /\ run.at = "output"
  /\ causal' = [causal EXCEPT ![t0] = "committed"]
  /\ context' = context + 1
  /\ GoesTo("deliver")
  /\ UNCHANGED <<tx, ops, approvals, circuit, file, history, events>>

Delivers ==
  /\ run.at = "deliver"
  /\ Leaves("done")
  /\ UNCHANGED <<tries, durable, history, events>>

-----------------------------------------------------------------------------
(* Faults, the operator and others.                                        *)

\* An append of the transaction or of the output fails: the disk, or the lock of
\* the journal held by tether-tools.  Nothing was recorded.
AppendThrows ==
  /\ \/ run.at = "respond" /\ ~circuit.open /\ tx[t0].last = "none"
     \/ run.at = "ask" /\ run.prov < Providers
     \/ run.at \in {"wire", "result", "output"}
     \/ AtStep /\ tx[t0].calls = <<>> /\ tx[t0].text
  /\ Counts
  /\ Fails
  /\ UNCHANGED <<durable, history>>

Crash ==
  /\ run # Idle /\ Counts
  /\ run' = Idle
  /\ UNCHANGED <<entry, tries, durable, history>>

\* tether-tools approve or deny.
Resolve(t, c) ==
  /\ approvals[t][c] = "pending"
  /\ \E verdict \in {"approved", "denied"} : approvals' = [approvals EXCEPT ![t][c] = verdict]
  /\ UNCHANGED <<run, entry, tries, causal, tx, ops, circuit, file, context, history, events>>

\* tether-ops resume, requeue and circuit-clear, while the runtime is stopped.
Revives(t) ==
  /\ run = Idle /\ entry[t] \in {"parked", "dead"}
  /\ Counts
  /\ entry' = [entry EXCEPT ![t] = "due"] /\ tries' = [tries EXCEPT ![t] = 0]
  /\ revived' = IF circuit.open THEN revived ELSE revived \cup {t}
  /\ UNCHANGED <<run, durable, asked, doubt, writes, held>>

ClearCircuit ==
  /\ run = Idle /\ circuit.open
  /\ circuit' = [open |-> FALSE, keys |-> {}]
  /\ UNCHANGED <<run, entry, tries, causal, tx, ops, approvals, file, context, history, events>>

\* Someone else changes the file, perhaps between the check and the rename.
Edits ==
  /\ Counts
  /\ file' \in (Content \cup {Absent}) \ {file}
  /\ writes' = [t \in Turn |-> [id \in CallId |-> 0]]
  /\ held' = held \cup Holding(file', ops)
  /\ UNCHANGED <<run, entry, tries, causal, tx, ops, approvals, circuit, context, asked, doubt, revived>>

\* Maintenance changes the memory that messages are built from, or the operator
\* repairs the provider chain.
Folds ==
  /\ Counts
  /\ context' = context + 1
  /\ UNCHANGED <<run, entry, tries, causal, tx, ops, approvals, circuit, file, history>>

-----------------------------------------------------------------------------

Respond ==
  \/ CircuitRefuses \/ Begins \/ Mismatches \/ Resumes
  \/ Skips \/ Asks \/ ProviderFails \/ ProviderAnswers \/ AnswerIsLost \/ AnswerIsMalformed
  \/ AllFailed \/ Finals \/ AnswerIsEmpty \/ ToolLimit \/ GoesToTools

Execute ==
  \/ ExecuteAnswers \/ ExecuteWaits \/ Prepares \/ Check \/ Rename \/ CommitOperation
  \/ RecordsResult \/ AsksAgain

Handle == Respond \/ Execute \/ Succeeds \/ Commits \/ Delivers

Operator ==
  \/ \E t \in Turn : Revives(t) \/ (\E c \in Call : Resolve(t, c))
  \/ ClearCircuit

Next ==
  \/ \E t \in Turn : Refuses(t) \/ Starts(t)
  \/ Handle
  \/ OperationFails \/ AppendThrows \/ Crash
  \/ Operator
  \/ Edits \/ Folds

Spec == Init /\ [][Next]_vars

\* A request ends by its timeout; the queue takes every turn that is due.
FairSpec ==
  /\ Spec /\ WF_vars(Handle)
  /\ \A t \in Turn : SF_vars(Refuses(t)) /\ SF_vars(Starts(t))

-----------------------------------------------------------------------------
(* Properties.                                                             *)

Position == (0 .. MaxIterations) \X Chain

Ats == {"idle", "respond", "ask", "wire", "step", "tool", "check", "rename", "commit-op",
        "result", "final", "output", "deliver"}

\* Every part of the state has its shape (the records of the two journals, the
\* circuit file, the inbox entry and the locals of respondWithTools).
TypeOK ==
  /\ run \in [turn : Turn \cup {NoTurn}, at : Ats, iter : 0 .. MaxIterations,
              prov : 0 .. Providers, result : {"none", "done", "denied", "error"},
              asks : Nat]
  /\ (run.turn = NoTurn) = (run.at = "idle")
  /\ entry \in [Turn -> {"due", "parked", "dead", "done"}]
  /\ tries \in [Turn -> 0 .. MaxAttempts]
  /\ causal \in [Turn -> {"received", "started", "rejected", "committed"}]
  /\ tx \in [Turn -> [last : {"none", "begin", "request-started", "provider-failed",
                              "provider-step", "tool-result", "final"},
                      hash : Nat, iter : 0 .. MaxIterations, prov : Chain \cup {0},
                      calls : Seq(Call), text : BOOLEAN, done : Nat]]
  /\ ops \in [Turn -> [CallId -> [st : {"none", "prepared", "committed"}, op : Op,
                                  prior : Content \cup {Absent}]]]
  /\ approvals \in [Turn -> [Call -> {"none", "pending", "approved", "denied"}]]
  /\ circuit \in [open : BOOLEAN, keys : SUBSET Turn]
  /\ file \in Content \cup {Absent} /\ context \in Nat
  /\ asked \in [Turn -> SUBSET Position] /\ doubt \subseteq Turn
  /\ writes \in [Turn -> [CallId -> Nat]] /\ held \subseteq Turn \X CallId
  /\ revived \subseteq Turn /\ events \in Nat

\* No request is sent twice: over retries, restarts and the operator's resumes a
\* provider gets the request of an iteration at most once, and a turn with a request
\* whose outcome was not recorded sends none any more (canResume, the order of the
\* transaction's events and the position a resumed turn starts at).
AskedOnce ==
  run.at = "ask" /\ run.prov < Providers =>
    t0 \notin doubt /\ <<run.iter, run.prov>> \notin asked[t0]

\* Wherever a turn stops, the turn that goes on records only events that may follow
\* the last one: the journal refuses nothing, and the journal written can be read
\* (respondWithTools' resumption against _invalidTransactionAppend).
JournalAccepts ==
  LET last == tx[t0].last IN
  /\ run.at = "ask" => last \in Follows.request_started \cap Follows.provider_failed
  /\ run.at = "wire" => last = "request-started"
  /\ run.at = "step" => last = "provider-step"
  /\ run.at \in {"check", "rename", "commit-op", "result"} =>
       last \in Follows.tool_result /\ Missing(t0)

\* The file is written once for a call: not again after a crash, a result that was
\* lost or a resume, unless somebody else changed the file since (prepareOperation,
\* writeFile, commitOperation).
WrittenOnce == \A t \in Turn, id \in CallId : writes[t][id] <= 1

\* What the model is told was written was: a write is committed only when the file has had
\* the approved content at some moment since the call was prepared, whatever crashed, failed
\* to append or was edited between prepare, rename and commit, in this run or an earlier
\* one (prepareOperation, writeFile's look at the file, commitOperation).
CommittedWasWritten ==
  \A t \in Turn, id \in CallId :
    ops[t][id].st = "committed" /\ ops[t][id].op \in Content => <<t, id>> \in held

\* In a scope that asks for approval nothing is prepared or written but the exact
\* content the operator approved for that call of that turn.
WrittenAsApproved ==
  \A t \in NeedApproval, id \in CallId :
    ops[t][id].st # "none" /\ ops[t][id].op \in Content =>
      approvals[t][[id |-> id, op |-> ops[t][id].op]] = "approved"

\* While the circuit is open no provider is asked, for no turn.
OpenAsksNobody == circuit.open => run.at \in {"idle", "respond"}

\* A turn that is due is answered, parked or dead in the end, or waits for the
\* operator's answer to an approval.
Waits(t) == entry[t] = "due" /\ \E c \in Call : approvals[t][c] = "pending"
TurnsSettle == \A t \in Turn : <>[](entry[t] \in {"done", "parked", "dead"} \/ Waits(t))

=============================================================================
