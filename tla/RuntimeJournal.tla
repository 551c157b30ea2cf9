--------------------------- MODULE RuntimeJournal ---------------------------
(***************************************************************************)
(* RuntimeOperationJournal (runtime_journal.py): the append-only file of     *)
(* accepted and terminal records, and the index kept in memory.  A record is *)
(* terminal exactly when it has a response.  The hash chain is not modelled: *)
(* it breaks exactly where the sequence numbers do.                          *)
(***************************************************************************)
EXTENDS Naturals, Sequences, FiniteSets

CONSTANTS
    Operations, Requests, Responses,
    NoResponse,  \* the response of an accepted record
    NoRecord,
    Garbled,     \* a complete line that is not a record
    Faults       \* outcomes of an append that the process survives

VARIABLES
    disk,   \* the complete lines of journal.jsonl
    tail,   \* "torn": an incomplete line follows them
    next,   \* sequence of the next record (_last_record.sequence + 1)
    index   \* _records_by_operation

journalVars == <<disk, tail, next, index>>

Records == [seq : Nat, op : Operations, request : Requests,
            response : Responses \cup {NoResponse}]

Outcomes == {"ok", "lost", "torn", "unsynced"}

ASSUME JournalAssumption ==
    /\ NoResponse \notin Responses
    /\ NoRecord \notin Records
    /\ NoRecord \notin [request : Requests, response : Responses \cup {NoResponse}]
    /\ Garbled \notin Records
    /\ Faults \subseteq Outcomes \ {"ok"}

JournalTypeOK ==
    /\ disk \in Seq(Records \cup {Garbled})
    /\ tail \in {"none", "torn"}
    /\ next \in Nat
    /\ index \in [Operations -> Records \cup {NoRecord}]

JournalInit ==
    /\ disk = <<>>
    /\ tail = "none"
    /\ next = 0
    /\ index = [op \in Operations |-> NoRecord]
-----------------------------------------------------------------------------
\* What the file looks like after a whole line was written behind its tail.
Written(record) == Append(disk, IF tail = "torn" THEN Garbled ELSE record)

\* _append, for the outcome the operating system gives it: the record is
\* synced and only then indexed; or the call raises and memory is as before
\* while the file got nothing, a part of the line, or the line without fsync.
AppendRecord(op, request, response, outcome) ==
    LET record == [seq |-> next, op |-> op, request |-> request, response |-> response]
    IN  \/ /\ outcome = "ok"
           /\ disk' = Written(record)
           /\ tail' = "none"
           /\ next' = next + 1
           /\ index' = [index EXCEPT ![op] = record]
        \/ /\ outcome = "lost"
           /\ UNCHANGED journalVars
        \/ /\ outcome = "torn"
           /\ tail' = "torn"
           /\ UNCHANGED <<disk, next, index>>
        \/ /\ outcome = "unsynced"
           /\ disk' = Written(record)
           /\ tail' = "none"
           /\ UNCHANGED <<next, index>>

\* begin accepts an operation once; finish needs its accepted record.
MayBegin(op) == index[op] = NoRecord

MayFinish(op, request) ==
    /\ index[op] # NoRecord
    /\ index[op].response = NoResponse
    /\ index[op].request = request

Lines(op) == {i \in DOMAIN disk : disk[i] # Garbled /\ disk[i].op = op}

\* load accepts the file: contiguous sequence, at most one accepted and then
\* one terminal record of each operation, bound to the same request.
Loadable ==
    /\ \A i \in DOMAIN disk : disk[i] # Garbled /\ disk[i].seq = i - 1
    /\ \A i \in DOMAIN disk :
          IF disk[i].response = NoResponse
          THEN \A j \in Lines(disk[i].op) : j >= i
          ELSE \E j \in Lines(disk[i].op) :
                  /\ j < i
                  /\ Lines(disk[i].op) = {i, j}
                  /\ disk[j].response = NoResponse
                  /\ disk[j].request = disk[i].request

LastLine(op) == CHOOSE i \in Lines(op) : \A j \in Lines(op) : j <= i

\* What load returns for an operation.
Stored(op) == IF Lines(op) = {} THEN NoRecord ELSE disk[LastLine(op)]

\* Faulty: the incomplete last line stays in the file.
LoadKeepingTail ==
    /\ Loadable
    /\ next' = Len(disk)
    /\ index' = [op \in Operations |-> Stored(op)]
    /\ UNCHANGED <<disk, tail>>

\* load: the incomplete last line is set aside and truncated.
Load ==
    /\ Loadable
    /\ tail' = "none"
    /\ next' = Len(disk)
    /\ index' = [op \in Operations |-> Stored(op)]
    /\ UNCHANGED disk
=============================================================================
