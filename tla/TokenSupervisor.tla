---------------------------- MODULE TokenSupervisor ----------------------------
(***************************************************************************)
(* Token supervision of Provider requests (runner/token-supervisor.ts): the  *)
(* reservation ledger of one Orchestrator process, its append-only file, and  *)
(* the supervised streams that reserve before they call the Provider and      *)
(* settle, or charge in full, when its stream ends.  A supervised stream      *)
(* awaits its context and its Provider: at those points, and only there, the  *)
(* requests interleave.                                                      *)
(***************************************************************************)
EXTENDS Integers, FiniteSets

CONSTANTS
    Requests,    \* request ids; next_request_id never repeats one
    Runs,        \* run ids
    RunOf,       \* the run of each request
    RunCap,      \* per_run_accounted_cap_tokens
    ProjectCap,  \* project_accounted_cap_tokens
    Estimates,   \* estimated input and maximum output of a request, together
    Costs,       \* what the Provider may bill for a request
    MaxFaults    \* bound on the appends that fail

ASSUME TokenAssumption ==
    /\ IsFiniteSet(Requests)
    /\ RunOf \in [Requests -> Runs]
    /\ RunCap \in Nat /\ ProjectCap \in Nat
    /\ Estimates \subseteq Nat \ {0}
    /\ Costs \subseteq Nat
    /\ MaxFaults \in Nat

VARIABLES
    \* the ledger
    reservations,            \* the open ones
    runAccountedTokens,
    projectAccountedTokens,
    reconciliationRequired,
    lines,                   \* the lines of the file, by request
    \* the supervised streams
    stream,                  \* where each is
    reserved,                \* reservation_tokens of each
    output,                  \* the terminal event its consumer was given
    \* the world
    charge,                  \* the tokens the ledger counts for the request
    billed,                  \* the tokens the Provider bills for it
    faults

sums == <<runAccountedTokens, projectAccountedTokens>>
vars == <<reservations, sums, reconciliationRequired, lines, stream, reserved, output,
          charge, billed, faults>>

Closings == {"settled", "charged_unverified", "protocol_invalid"}

TypeOK ==
    /\ reservations \in SUBSET Requests
    /\ runAccountedTokens \in [Runs -> Int]
    /\ projectAccountedTokens \in Int
    /\ reconciliationRequired \in BOOLEAN
    /\ lines \in [Requests -> SUBSET (Closings \cup {"open", "rejected"})]
    /\ stream \in [Requests -> {"preparing", "sent", "raised", "over"}]
    /\ reserved \in [Requests -> Estimates \cup {0}]
    /\ output \in [Requests -> {"none", "done", "error"}]
    /\ charge \in [Requests -> Nat]
    /\ billed \in [Requests -> Costs \cup {0}]
    /\ faults \in 0..MaxFaults

Init ==
    /\ reservations = {}
    /\ runAccountedTokens = [x \in Runs |-> 0]
    /\ projectAccountedTokens = 0
    /\ reconciliationRequired = FALSE
    /\ lines = [r \in Requests |-> {}]
    /\ stream = [r \in Requests |-> "preparing"]
    /\ reserved = [r \in Requests |-> 0]
    /\ output = [r \in Requests |-> "none"]
    /\ charge = [r \in Requests |-> 0]
    /\ billed = [r \in Requests |-> 0]
    /\ faults = 0
-----------------------------------------------------------------------------
(* The file.                                                                *)

\* write and fsync: either may raise, and then the line is there or is not.
Append(r, line, raises) ==
    \/ /\ ~ raises
       /\ lines' = [lines EXCEPT ![r] = @ \cup {line}]
       /\ UNCHANGED faults
    \/ /\ raises
       /\ \E written \in SUBSET {line} : lines' = [lines EXCEPT ![r] = @ \cup written]
       /\ faults < MaxFaults /\ faults' = faults + 1
-----------------------------------------------------------------------------
(* The ledger.                                                              *)

Count(r, tokens) ==
    /\ runAccountedTokens' = [runAccountedTokens EXCEPT ![RunOf[r]] = @ + tokens]
    /\ projectAccountedTokens' = projectAccountedTokens + tokens
    /\ charge' = [charge EXCEPT ![r] = @ + tokens]

\* Faulty: the tokens asked for are not added.
FitsSoFar(r, tokens) ==
    /\ runAccountedTokens[RunOf[r]] <= RunCap
    /\ projectAccountedTokens <= ProjectCap

Fits(r, tokens) ==
    /\ runAccountedTokens[RunOf[r]] + tokens <= RunCap
    /\ projectAccountedTokens + tokens <= ProjectCap

\* The caller sees a rejection and an append that failed alike.
Reject(r) ==
    /\ \E raises \in BOOLEAN : Append(r, "rejected", raises)
    /\ UNCHANGED <<reservations, sums, charge, reserved>>

\* The memory changes before the line is written.
Reserve(r, tokens, raises) ==
    /\ ~ reconciliationRequired /\ Fits(r, tokens)
    /\ reservations' = reservations \cup {r}
    /\ reserved' = [reserved EXCEPT ![r] = tokens]
    /\ Count(r, tokens)
    /\ Append(r, "open", raises)

\* Usage that does not add up or exceeds the reservation is no settlement.
Settle(r, raises) ==
    /\ r \in reservations
    /\ billed[r] <= reserved[r]
    /\ reservations' = reservations \ {r}
    /\ Count(r, billed[r] - reserved[r])
    /\ Append(r, "settled", raises)
    /\ UNCHANGED reconciliationRequired

\* chargeUnverified and protocolInvalid; assertOpen raises when somebody closed it.
ChargeInFull(r, line, raises) ==
    /\ r \in reservations
    /\ reservations' = reservations \ {r}
    /\ reconciliationRequired' = TRUE
    /\ Append(r, line, raises)
    /\ UNCHANGED <<sums, charge>>

AlreadyClosed(r) ==
    /\ r \notin reservations
    /\ UNCHANGED <<reservations, reconciliationRequired, lines, faults, sums, charge>>
-----------------------------------------------------------------------------
(* The supervised stream.                                                   *)

\* The consumer's stream ends with the first terminal event it is given.
Push(r, event) == output' = [output EXCEPT ![r] = IF @ = "none" THEN event ELSE @]
At(r, where) == stream' = [stream EXCEPT ![r] = where]
Ends(r, event) == At(r, "over") /\ Push(r, event)

\* The context cannot be prepared or estimated.
NotPrepared(r) ==
    /\ stream[r] = "preparing"
    /\ Ends(r, "error")
    /\ UNCHANGED <<reservations, sums, reconciliationRequired, lines, reserved, charge, billed,
                   faults>>

Refused(r, tokens) ==
    /\ stream[r] = "preparing"
    /\ reconciliationRequired \/ ~ Fits(r, tokens)
    /\ Reject(r)
    /\ Ends(r, "error")
    /\ UNCHANGED <<reconciliationRequired, billed>>

\* Faulty: the request is sent whether or not its reservation could be written.
SentAnyway(r, tokens, cost) ==
    /\ stream[r] = "preparing"
    /\ \E raises \in BOOLEAN : Reserve(r, tokens, raises)
    /\ At(r, "sent")
    /\ billed' = [billed EXCEPT ![r] = cost]
    /\ UNCHANGED <<reconciliationRequired, output>>

\* Nothing happens between the reservation and the call of the Provider.
Sent(r, tokens, cost) ==
    /\ stream[r] = "preparing"
    /\ Reserve(r, tokens, FALSE)
    /\ At(r, "sent")
    /\ billed' = [billed EXCEPT ![r] = cost]
    /\ UNCHANGED <<reconciliationRequired, output>>

\* The reservation is not in `admission` yet: nobody will close it.
NotRecorded(r, tokens) ==
    /\ stream[r] = "preparing"
    /\ Reserve(r, tokens, TRUE)
    /\ Ends(r, "error")
    /\ UNCHANGED <<reconciliationRequired, billed>>

\* A "done" event with the usage that was billed: the error of a settlement that could
\* not be written becomes the consumer's.  Reading on, the source may still raise.
Done(r) ==
    /\ stream[r] = "sent"
    /\ \E raises \in BOOLEAN : Settle(r, raises) /\ Push(r, IF raises THEN "error" ELSE "done")
    /\ At(r, "over") \/ At(r, "raised")
    /\ UNCHANGED <<reserved, billed>>

\* A "done" event with inconsistent usage, or more of it than was reserved.
DoneInvalid(r) ==
    /\ stream[r] = "sent"
    /\ \E raises \in BOOLEAN : ChargeInFull(r, "protocol_invalid", raises)
    /\ Push(r, "error")
    /\ At(r, "over") \/ At(r, "raised")
    /\ UNCHANGED <<reserved, billed>>

\* An "error" event, or a stream that ends without a terminal event.
Uncertain(r) ==
    /\ stream[r] = "sent"
    /\ \/ /\ ChargeInFull(r, "charged_unverified", FALSE)
          /\ Ends(r, "error")
       \/ /\ ChargeInFull(r, "charged_unverified", TRUE)
          /\ At(r, "raised")
          /\ UNCHANGED output
    /\ UNCHANGED <<reserved, billed>>

\* The Provider call, or its stream before a terminal event, raises.
Raised(r) ==
    /\ stream[r] = "sent"
    /\ At(r, "raised")
    /\ UNCHANGED <<reservations, sums, reconciliationRequired, lines, reserved, output, charge,
                   billed, faults>>

\* Faulty: the consumer is told only when the reservation was still open.
CaughtSilently(r) ==
    /\ stream[r] = "raised"
    /\ \/ \E raises \in BOOLEAN : ChargeInFull(r, "charged_unverified", raises) /\ Push(r, "error")
       \/ AlreadyClosed(r) /\ UNCHANGED output
    /\ At(r, "over")
    /\ UNCHANGED <<reserved, billed>>

\* The catch block charges what a terminal event has not closed yet.
Caught(r) ==
    /\ stream[r] = "raised"
    /\ \/ \E raises \in BOOLEAN : ChargeInFull(r, "charged_unverified", raises)
       \/ AlreadyClosed(r)
    /\ Ends(r, "error")
    /\ UNCHANGED <<reserved, billed>>

Answered(r) == Done(r) \/ DoneInvalid(r) \/ Uncertain(r) \/ Raised(r)

Next ==
    \E r \in Requests :
        \/ NotPrepared(r)
        \/ \E tokens \in Estimates :
              \/ Refused(r, tokens)
              \/ \E cost \in Costs : Sent(r, tokens, cost)
              \/ NotRecorded(r, tokens)
        \/ Answered(r)
        \/ Caught(r)

Spec == Init /\ [][Next]_vars

\* A Provider stream ends, one way or another; the supervisor's own code runs on.
FairSpec ==
    /\ Spec
    /\ \A r \in Requests : WF_vars(Answered(r)) /\ WF_vars(Caught(r))
-----------------------------------------------------------------------------
(* Properties.                                                              *)

\* The sum of f over S, counted in tokens.
Units(f, S) == UNION {{r} \X (1..f[r]) : r \in S}
Total(f, S) == Cardinality(Units(f, S))

\* Tokens billed for a request, as far as its reservation covers them.
Covered == [r \in Requests |-> IF billed[r] <= reserved[r] THEN billed[r] ELSE 0]

\* Whatever is in flight, refused, failed or unrecorded, the tokens the Provider bills
\* within their reservations never exceed the cap of a run or of the project (reserve
\* checks counters that settle and the two charges keep up to date).
SpendingWithinCaps ==
    /\ Total(Covered, Requests) <= ProjectCap
    /\ \A x \in Runs : Total(Covered, {r \in Requests : RunOf[r] = x}) <= RunCap

\* What a reader of the file counts for a request: the exact usage once it is settled,
\* the whole reservation while it is open or charged.
FileCharge(r) ==
    IF "settled" \in lines[r] THEN billed[r]
    ELSE IF lines[r] \cap {"open", "charged_unverified", "protocol_invalid"} # {}
         THEN reserved[r] ELSE 0

\* "A request is never sent before its budget charge is durable" (FsyncTokenLedgerSink):
\* a process killed at any moment, also between two failed appends, leaves a file that
\* covers what was billed within the reservation.
FileCoversBilling == \A r \in Requests : Covered[r] <= FileCharge(r)

\* However a stream ends - a terminal event, an exception after one, a failed append
\* and then the catch block - its reservation is closed by at most one line, and only
\* when it was opened by one (assertOpen).
ClosedOnce ==
    \A r \in Requests :
        /\ Cardinality(lines[r] \cap Closings) <= 1
        /\ lines[r] \cap Closings # {} => "open" \in lines[r]

\* The counters may lag behind the bill of a request whose stream is over only when
\* every later request is refused until somebody reconciles the books.
OverrunBlocks ==
    \A r \in Requests :
        r \notin reservations /\ billed[r] > charge[r] => reconciliationRequired

\* The consumer of a supervised stream that called the Provider is given a terminal
\* event, whatever the Provider and the file do.
StreamsEnd == \A r \in Requests : stream[r] = "sent" ~> output[r] # "none"
=============================================================================
