------------------------------ MODULE PageSequence ------------------------------
(***************************************************************************)
(* The list of pages of Assignment-6/sequence.c, with its calls made one   *)
(* after the other.  A page is known by its address.  A call with a length *)
(* above PAGE_SIZE and a kmalloc that fails change nothing and are left    *)
(* out.                                                                    *)
(***************************************************************************)
EXTENDS Integers, Sequences

CONSTANTS Memory,  \* the addresses that kmalloc may return
          Data     \* what a page may hold

\* The address of none of them.
NULL == CHOOSE a : a \notin Memory

VARIABLES head, tail, current,  \* of the sequence
          next, data,           \* [Memory -> ...]: of the pages
          live,                 \* the pages that are allocated
          curr,                 \* sequence_destroy's local
          destroying,           \* BOOLEAN: in the loop of sequence_destroy
          out,                  \* what the last read copied to its caller
          (* history *)
          pages,                \* the pages of the sequence, in the order they were written
          turn,                 \* the place in it of the page to be read next
          freed                 \* how many of them sequence_destroy has freed

sequence == <<head, tail, current>>
heap == <<next, data, live>>
history == <<pages, turn, freed>>
seq_vars == <<sequence, heap, curr, destroying, out, history>>

sequence_init ==
  /\ head = NULL /\ tail = NULL /\ current = NULL
  /\ next \in [Memory -> Memory \cup {NULL}] /\ data \in [Memory -> Data]
  /\ live = {} /\ curr = NULL /\ destroying = FALSE /\ out \in Data
  /\ pages = <<>> /\ turn = 0 /\ freed = 0

sequence_write(page, d) ==
  /\ ~destroying /\ page \in Memory \ live
  /\ live' = live \cup {page}
  /\ data' = [data EXCEPT ![page] = d]
  /\ tail' = page
  /\ IF head = NULL THEN /\ head' = page /\ current' = page
                         /\ next' = [next EXCEPT ![page] = NULL]
     ELSE /\ next' = [next EXCEPT ![page] = NULL, ![tail] = page]
          /\ UNCHANGED <<head, current>>
  /\ pages' = Append(pages, page)
  /\ turn' = IF turn = 0 THEN 1 ELSE turn
  /\ UNCHANGED <<curr, destroying, out, freed>>

\* The page a read looks at.  It is not tested: on an empty sequence the read follows
\* a null pointer, which is not done here.
Looked == IF current = NULL THEN head ELSE current

sequence_read ==
  /\ ~destroying /\ Looked # NULL
  /\ out' = data[Looked]
  /\ current' = IF next[Looked] = NULL THEN head ELSE next[Looked]
  /\ turn' = IF turn = Len(pages) THEN 1 ELSE turn + 1
  /\ UNCHANGED <<head, tail, heap, curr, destroying, pages, freed>>

\* copy_to_user fails
ReadFails == /\ ~destroying /\ Looked # NULL
             /\ current' = Looked
             /\ UNCHANGED <<head, tail, heap, curr, destroying, out, history>>

sequence_destroy == /\ ~destroying
                    /\ destroying' = TRUE /\ curr' = head
                    /\ UNCHANGED <<sequence, heap, out, history>>

\* One turn of the loop: a page is freed after its successor was read.
Free == /\ destroying /\ curr # NULL
        /\ curr' = next[curr]
        /\ live' = live \ {curr}
        /\ freed' = freed + 1
        /\ UNCHANGED <<sequence, next, data, destroying, out, pages, turn>>

Destroyed == /\ destroying /\ curr = NULL
             /\ head' = NULL /\ tail' = NULL /\ current' = NULL
             /\ destroying' = FALSE
             /\ pages' = <<>> /\ turn' = 0 /\ freed' = 0
             /\ UNCHANGED <<heap, curr, out>>

SequenceNext == \/ \E page \in Memory, d \in Data : sequence_write(page, d)
                \/ sequence_read \/ ReadFails \/ sequence_destroy \/ Free \/ Destroyed

SequenceSpec == sequence_init /\ [][SequenceNext]_seq_vars

-----------------------------------------------------------------------------
(* Properties.                                                             *)

\* The type of every variable.
SequenceTypeOK ==
  /\ head \in Memory \cup {NULL} /\ tail \in Memory \cup {NULL}
  /\ current \in Memory \cup {NULL} /\ curr \in Memory \cup {NULL}
  /\ next \in [Memory -> Memory \cup {NULL}] /\ data \in [Memory -> Data]
  /\ live \subseteq Memory /\ destroying \in BOOLEAN /\ out \in Data
  /\ pages \in Seq(Memory) /\ turn \in 0..Len(pages) /\ freed \in 0..Len(pages)

\* The list is what was written: from head to tail by next, each page once, with
\* head and tail at its ends (sequence.c:46-60).
Linked == /\ \A i, j \in 1..Len(pages) : pages[i] = pages[j] => i = j
          /\ pages = <<>> => head = NULL
          /\ pages # <<>> => /\ head = pages[1] /\ tail = pages[Len(pages)]
                             /\ next[pages[Len(pages)]] = NULL
          /\ \A i \in 1..(Len(pages) - 1) : next[pages[i]] = pages[i + 1]

\* The page to be read next is there as soon as anything was written: only a read of
\* an empty sequence finds none (sequence.c:49-60, 69-77).
InTurn == /\ turn = 0 <=> pages = <<>>
          /\ current = IF turn = 0 THEN NULL ELSE pages[turn]

\* What is allocated is what the sequence holds, up to what sequence_destroy has freed:
\* nothing is lost, nothing freed twice or read after it was freed (sequence.c:23-35).
Accounted == /\ live = {pages[i] : i \in (freed + 1)..Len(pages)}
             /\ ~destroying => freed = 0
             /\ destroying => curr = IF freed = Len(pages) THEN NULL ELSE pages[freed + 1]

\* The sequence hands its pages out in turn, whatever is written in between.
Promised == INSTANCE Rotation WITH text <- [i \in 1..Len(pages) |-> data[pages[i]]], at <- turn
ImplementsRotation == Promised!Spec
=============================================================================
