----------------------------- MODULE AgentSession -----------------------------
(***************************************************************************)
(* The session tree of an agent (harness/session/session.ts over             *)
(* session/jsonl-storage.ts): an append-only list of entries, each with the   *)
(* parent that was the leaf when its append began, and the leaf.  An append   *)
(* awaits the leaf first and the file then, so two of them can interleave.    *)
(***************************************************************************)
EXTENDS Integers, Sequences, FiniteSets

CONSTANTS
    Messages,   \* messages given by a caller
    None        \* no append in progress

VARIABLES
    entries,    \* the lines of the file after its header
    leaf,       \* currentLeafId, 0 at the root
    write       \* the entry each task is appending, or None

session == <<entries, leaf, write>>

\* "calls" and "answer" are assistant messages with and without tool calls, "tool" is a
\* tool result, "failure" the assistant message of a failed run.
OwnItems == {"calls", "answer", "tool", "failure", "branch_summary", "none"}
Items == Messages \cup OwnItems
Entries == [kind : {"message", "compaction", "leaf"}, item : Items,
            parent : Nat, reference : Nat]

ASSUME SessionAssumption == Messages \cap OwnItems = {} /\ None \notin Entries

\* reference: the first kept entry of a compaction, the target of a leaf entry.
Entry(kind, item, parent, reference) ==
    [kind |-> kind, item |-> item, parent |-> parent, reference |-> reference]

SessionInit == entries = <<>> /\ leaf = 0
-----------------------------------------------------------------------------
(* Reading.                                                                 *)

leafIdAfterEntry(i) == IF entries[i].kind = "leaf" THEN entries[i].reference ELSE i

\* getPathToRoot, oldest first
Path[i \in 0..Len(entries)] == IF i = 0 THEN <<>> ELSE Append(Path[entries[i].parent], i)
Branch == Path[leaf]

\* buildSessionContext: the messages of a path, or, after its last compaction, the
\* summary, what that one kept and what came later.
MessagesOf(path) ==
    LET messages[k \in 0..Len(path)] ==
            IF k = 0 THEN <<>>
            ELSE IF entries[path[k]].kind = "message"
            THEN Append(messages[k - 1], entries[path[k]].item)
            ELSE messages[k - 1]
    IN  messages[Len(path)]

Context ==
    LET compactions == {k \in 1..Len(Branch) : entries[Branch[k]].kind = "compaction"}
        c == CHOOSE k \in compactions : \A j \in compactions : j <= k
        kept == {k \in 1..(c - 1) : Branch[k] = entries[Branch[c]].reference}
        first == IF kept = {} THEN c ELSE CHOOSE k \in kept : TRUE
    IN  IF compactions = {} THEN MessagesOf(Branch)
        ELSE <<"summary">> \o MessagesOf(SubSeq(Branch, first, Len(Branch)))
-----------------------------------------------------------------------------
(* Writing.                                                                 *)

BeginAt(task, kind, item, parent, reference) ==
    /\ write[task] = None
    /\ write' = [write EXCEPT ![task] = Entry(kind, item, parent, reference)]
    /\ UNCHANGED <<entries, leaf>>

Begin(task, kind, item, reference) == BeginAt(task, kind, item, leaf, reference)

\* Faulty: navigation moves the leaf in memory only.
LandInMemory(task) ==
    /\ write[task] # None
    /\ IF write[task].kind = "leaf"
       THEN leaf' = write[task].reference /\ UNCHANGED entries
       ELSE leaf' = Len(entries) + 1 /\ entries' = Append(entries, write[task])
    /\ write' = [write EXCEPT ![task] = None]

\* The line is in the file, and then the memory follows.
Land(task) ==
    /\ write[task] # None
    /\ entries' = Append(entries, write[task])
    /\ leaf' = IF write[task].kind = "leaf" THEN write[task].reference ELSE Len(entries) + 1
    /\ write' = [write EXCEPT ![task] = None]

\* The file system refuses the line.
Miss(task) ==
    /\ write[task] # None
    /\ write' = [write EXCEPT ![task] = None]
    /\ UNCHANGED <<entries, leaf>>
=============================================================================
