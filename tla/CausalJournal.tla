---------------------------- MODULE CausalJournal ----------------------------
(***************************************************************************)
(* The causal journal (runtime/causal-journal.cjs): per causal id, which   *)
(* for a Telegram turn is the update's, the last durable record.  Every    *)
(* transition names the states it may leave and is refused from any other. *)
(* An input envelope is a value that only equality tells apart: the        *)
(* journal compares the hashes of the text and the metadata.               *)
(***************************************************************************)
EXTENDS DurableInbox

CONSTANTS
  Envelope      \* the input envelopes (text and metadata) turns are prepared into

VARIABLES
  causal        \* durable: the last causal record of each update

CausalState == {"none", "received", "inference-started", "inference-rejected",
                "committed", "delivery-started", "delivery-failed", "delivered"}

CausalRecord == [state : CausalState, input : SUBSET Envelope]

NoRecord == [state |-> "none", input |-> {}]

CausalInit == causal = [u \in Update |-> NoRecord]

\* The output bytes exist.
Committed(u) ==
  causal[u].state \in {"committed", "delivery-started", "delivery-failed", "delivered"}

\* A duplicate whose envelope differs from the recorded one.
Mismatch(u, e) == causal[u].state # "none" /\ causal[u].input # {e}

\* prepareInput appends the input of an unknown causal id, and only that.
PrepareInput(u, e) ==
  causal' = IF causal[u].state = "none"
            THEN [causal EXCEPT ![u] = [state |-> "received", input |-> {e}]]
            ELSE causal

Transition(u, from, to) ==
  /\ causal[u].state \in from
  /\ causal' = [causal EXCEPT ![u].state = to]

MarkInferenceStarted(u) ==
  Transition(u, {"received", "inference-rejected"}, "inference-started")

MarkInferenceRejected(u) ==
  Transition(u, {"inference-started"}, "inference-rejected")

CommitOutput(u) == Transition(u, {"inference-started"}, "committed")

MarkDeliveryStarted(u) ==
  Transition(u, {"committed", "delivery-failed"}, "delivery-started")

MarkDeliveryFailed(u) ==
  Transition(u, {"delivery-started"}, "delivery-failed")

MarkDelivered(u) == Transition(u, {"delivery-started"}, "delivered")

=============================================================================
