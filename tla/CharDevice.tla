------------------------------ MODULE CharDevice ------------------------------
(***************************************************************************)
(* The encrypted memory of Assignment-6: char_device_init and _exit,       *)
(* device_read, device_write and device_ioctl of char_device.c, with       *)
(* encrypt_memory of encryption.h.                                         *)
(* There is no lock: processes that have the device open run the three     *)
(* calls at the same time, on one page and one key.                        *)
(*                                                                         *)
(* copy_from_user stores byte after byte; ptr[i] ^= key is a load and a    *)
(* store of one word.  A byte is one bit here, and a key W of them, so     *)
(* that the phase at which a byte meets the key is kept.  What a read      *)
(* returns is the bytes as they are stored; nothing depends on it, and     *)
(* only the file position it moves is modelled.                            *)
(*                                                                         *)
(* The offset is never compared with the size of the page.  A call that    *)
(* would leave the page is not made here: its effect is not defined.       *)
(***************************************************************************)
EXTENDS Integers, FiniteSets

CONSTANTS Procs,      \* processes that have opened the device, each its own file
          PAGE_SIZE,  \* bytes in the page
          W,          \* sizeof(unsigned int)
          Keys,       \* the keys that are set, besides the initial key 0
          MaxCalls    \* bound: calls in one behaviour

ASSUME CharDeviceAssumption == /\ PAGE_SIZE \in Nat \ {0}
                               /\ W \in Nat \ {0}
                               /\ PAGE_SIZE % W = 0
                               /\ Keys \subseteq [0..(W - 1) -> BOOLEAN]
                               /\ MaxCalls \in Nat

Page == 0..(PAGE_SIZE - 1)
Key == [0..(W - 1) -> BOOLEAN]
ZeroKey == [j \in 0..(W - 1) |-> FALSE]
Xor(a, b) == a # b

VARIABLES loader,         \* where insmod is: the next step of char_device_init
          acquired,       \* what the module has acquired
          memory_buffer,  \* [Page -> BOOLEAN]
          key,            \* the module's key
          offset,         \* [Procs -> 0..PAGE_SIZE]: the file position of each process
          pc,             \* [Procs -> label]: the next step of each process
          call,           \* [Procs -> Calls]: the locals of the call it is in
          calls,          \* calls begun so far
          (* history *)
          plain,          \* [Page -> BOOLEAN]: what was last written there
          clash,          \* [Procs -> SUBSET Page]: bytes of its call that another call
                          \* in progress uses too
          sound           \* the bytes that were written as words of the page, and
                          \* that no two calls have used at the same time since

module == <<loader, acquired>>
vars == <<module, memory_buffer, key, offset, pc, call, calls, plain, clash, sound>>

(***************************************************************************)
(* call: the bytes it works on, from first on; the byte or word it is at;  *)
(* data, what is written (all its bytes are equal); by, the key argument   *)
(* of encrypt_memory; reg, the word loaded; new, the key to set.           *)
(***************************************************************************)
Calls == [first : 0..PAGE_SIZE, count : 0..PAGE_SIZE, i : 0..PAGE_SIZE, data : BOOLEAN,
          by : Key, reg : Key, new : Key]
Idle == [first |-> 0, count |-> 0, i |-> 0, data |-> FALSE,
         by |-> ZeroKey, reg |-> ZeroKey, new |-> ZeroKey]

\* The write and the two halves of a change of key each run encrypt_memory.
Loads == {"write_load", "decrypt_load", "encrypt_load"}
Stores == {"write_store", "decrypt_store", "encrypt_store"}
KeyChange == {"decrypt_load", "decrypt_store", "set_key", "encrypt_load", "encrypt_store"}
Labels == {"idle", "copy"} \cup Loads \cup Stores \cup KeyChange

NoBytes == [b \in Page |-> FALSE]

Init == /\ loader = "out" /\ acquired = {}
        /\ memory_buffer = NoBytes
        /\ key = ZeroKey
        /\ offset = [p \in Procs |-> 0]
        /\ pc = [p \in Procs |-> "idle"]
        /\ call = [p \in Procs |-> Idle]
        /\ calls = 0
        /\ plain = NoBytes
        /\ clash = [p \in Procs |-> {}]
        /\ sound = {}

Goto(p, label) == pc' = [pc EXCEPT ![p] = label]

Bytes(p) == call[p].first .. (call[p].first + call[p].count - 1)

-----------------------------------------------------------------------------
(* char_device_init and char_device_exit.  class_create and device_create  *)
(* report a failure by an ERR_PTR, which is not NULL, and cdev_add by an   *)
(* error that is not -1: these three steps may fail, and the module goes   *)
(* on to the next as if they had not.                                      *)

page == <<memory_buffer, key, plain, sound>>
files == <<offset, pc, call, calls, clash>>

AllocRegion == /\ loader = "out"
               /\ \/ loader' = "class" /\ acquired' = acquired \cup {"region"}
                  \/ UNCHANGED module
               /\ UNCHANGED <<page, files>>

\* One of the three, which needs what is in needs.
Unchecked(step, what, needs, next) ==
  /\ loader = step
  /\ loader' = next
  /\ \/ needs \subseteq acquired /\ acquired' = acquired \cup {what}
     \/ UNCHANGED acquired
  /\ UNCHANGED <<page, files>>

CreateClass == Unchecked("class", "class", {}, "device")
CreateDevice == Unchecked("device", "device", {"class"}, "cdev")
AddCdev == Unchecked("cdev", "cdev", {}, "buffer")

\* kmalloc, and the page encrypted with the key 0
AllocBuffer == /\ loader = "buffer"
               /\ loader' = "loaded"
               /\ acquired' = acquired \cup {"buffer"}
               /\ memory_buffer' \in [Page -> BOOLEAN]
               /\ key' = ZeroKey
               /\ plain' = memory_buffer' /\ sound' = Page
               /\ UNCHANGED files

\* cdev_del, device_destroy, class_destroy, unregister_chrdev_region: device_destroy
\* follows the pointer to the class, which is no class if its creation failed.
Release == IF "class" \in acquired
           THEN loader' = "out" /\ acquired' = acquired \ {"buffer", "cdev", "device", "class", "region"}
           ELSE loader' = "oops" /\ acquired' = acquired \ {"buffer", "cdev"}

\* Variant: the device stays when there is no memory.
AllocBufferFailsKeepsDevice == /\ loader = "buffer"
                               /\ loader' = "out" /\ acquired' = acquired \ {"cdev", "class", "region"}
                               /\ UNCHANGED <<page, files>>

\* No memory
AllocBufferFails == loader = "buffer" /\ Release /\ UNCHANGED <<page, files>>

\* rmmod.  The module does not name itself the owner of its operations, and the
\* kernel would unload it under a call; that is not followed here.
Unload == /\ loader = "loaded" /\ \A p \in Procs : pc[p] = "idle"
          /\ Release
          /\ memory_buffer' = NoBytes /\ plain' = NoBytes /\ sound' = {}
          /\ key' = ZeroKey
          /\ offset' = [p \in Procs |-> 0]
          /\ UNCHANGED <<pc, call, calls, clash>>

Module == \/ AllocRegion \/ CreateClass \/ CreateDevice \/ AddCdev
          \/ AllocBuffer \/ AllocBufferFails \/ Unload

\* A process opens the device by the node that device_create makes, and the calls
\* reach the module by the cdev.
Calling(p) == /\ loader = "loaded" /\ {"device", "cdev"} \subseteq acquired
              /\ pc[p] = "idle" /\ calls < MaxCalls
              /\ UNCHANGED module

-----------------------------------------------------------------------------
(* History: which calls meet.                                              *)

\* p begins a call that changes bytes B: it clashes with every call in progress.
Meets(p, B) ==
  LET others == UNION {Bytes(q) : q \in {r \in Procs \ {p} : pc[r] # "idle"}}
  IN  clash' = [q \in Procs |-> IF q = p THEN B \cap others
                                ELSE IF pc[q] = "idle" THEN clash[q]
                                ELSE clash[q] \cup (B \cap Bytes(q))]

\* The bytes of p's call that encrypt_memory takes at the page's own words.
WholeWords(p) == IF call[p].first % W = 0
                 THEN {b \in Bytes(p) : b < call[p].first + W * (call[p].count \div W)} ELSE {}

-----------------------------------------------------------------------------
(* device_read                                                             *)

\* length is cut to the page
Limit(length) == IF length > PAGE_SIZE THEN PAGE_SIZE ELSE length

\* copy_to_user may also fail, and then the position stays
Read(p) == /\ Calling(p)
           /\ \E length \in 0..(PAGE_SIZE + 1) :
                /\ offset[p] + Limit(length) <= PAGE_SIZE
                /\ offset' = [offset EXCEPT ![p] = @ + Limit(length)]
           /\ calls' = calls + 1
           /\ UNCHANGED <<memory_buffer, key, pc, call, plain, clash, sound>>

-----------------------------------------------------------------------------
(* device_write                                                            *)

Write(p) == /\ Calling(p)
            /\ \E length \in 0..(PAGE_SIZE + 1), d \in BOOLEAN :
                 /\ offset[p] + Limit(length) <= PAGE_SIZE
                 /\ call' = [call EXCEPT ![p] = [Idle EXCEPT !.first = offset[p],
                                                             !.count = Limit(length), !.data = d]]
                 /\ Meets(p, offset[p] .. (offset[p] + Limit(length) - 1))
                 /\ sound' = sound \ (offset[p] .. (offset[p] + Limit(length) - 1))
            /\ calls' = calls + 1
            /\ Goto(p, "copy")
            /\ UNCHANGED <<memory_buffer, key, offset, plain>>

\* Variant: copies one byte too many.
CopyTooFar(p) ==
  /\ pc[p] = "copy"
  /\ call[p].i <= call[p].count
  /\ memory_buffer' = [b \in Page |-> IF b = call[p].first + call[p].i THEN call[p].data
                                      ELSE memory_buffer[b]]
  /\ plain' = [b \in Page |-> IF b = call[p].first + call[p].i THEN call[p].data ELSE plain[b]]
  /\ call' = [call EXCEPT ![p].i = @ + 1]
  /\ UNCHANGED <<module, key, offset, pc, calls, clash, sound>>

\* copy_from_user, the next byte
Copy(p) == /\ pc[p] = "copy"
           /\ call[p].i < call[p].count
           /\ LET b == call[p].first + call[p].i
              IN  /\ memory_buffer' = [memory_buffer EXCEPT ![b] = call[p].data]
                  /\ plain' = [plain EXCEPT ![b] = call[p].data]
           /\ call' = [call EXCEPT ![p].i = @ + 1]
           /\ UNCHANGED <<module, key, offset, pc, calls, clash, sound>>

\* The user's buffer ends early: copy_from_user clears what it could not copy, and
\* the write returns -EFAULT without encrypting anything.
CopyFails(p) == /\ pc[p] = "copy"
                /\ call[p].i < call[p].count
                /\ memory_buffer' = [b \in Page |->
                                       IF b \in Bytes(p) /\ b >= call[p].first + call[p].i
                                       THEN FALSE ELSE memory_buffer[b]]
                /\ Goto(p, "idle")
                /\ call' = [call EXCEPT ![p] = Idle]
                /\ clash' = [clash EXCEPT ![p] = {}]
                /\ UNCHANGED <<module, key, offset, calls, plain, sound>>

\* encrypt_memory is called with the key of this moment
Copied(p) == /\ pc[p] = "copy"
             /\ call[p].i = call[p].count
             /\ call' = [call EXCEPT ![p].i = 0, ![p].by = key]
             /\ Goto(p, "write_load")
             /\ UNCHANGED <<module, memory_buffer, key, offset, calls, plain, clash, sound>>

WriteReturns(p) == /\ pc[p] = "write_load"
                   /\ call[p].i = call[p].count \div W
                   /\ offset' = [offset EXCEPT ![p] = @ + call[p].count]
                   /\ Goto(p, "idle")
                   /\ sound' = sound \cup (WholeWords(p) \ clash[p])
                   /\ call' = [call EXCEPT ![p] = Idle]
                   /\ clash' = [clash EXCEPT ![p] = {}]
                   /\ UNCHANGED <<module, memory_buffer, key, calls, plain>>

-----------------------------------------------------------------------------
(* encrypt_memory: num_ints words from the first byte on                   *)

Alternate(label) == CASE label = "write_load" -> "write_store"
                      [] label = "decrypt_load" -> "decrypt_store"
                      [] label = "encrypt_load" -> "encrypt_store"
                      [] label = "write_store" -> "write_load"
                      [] label = "decrypt_store" -> "decrypt_load"
                      [] label = "encrypt_store" -> "encrypt_load"

Word(p) == [j \in 0..(W - 1) |-> call[p].first + W * call[p].i + j]

Load(p) == /\ pc[p] \in Loads
           /\ call[p].i < call[p].count \div W
           /\ call' = [call EXCEPT ![p].reg = [j \in 0..(W - 1) |-> memory_buffer[Word(p)[j]]]]
           /\ Goto(p, Alternate(pc[p]))
           /\ UNCHANGED <<module, memory_buffer, key, offset, calls, plain, clash, sound>>

Store(p) == /\ pc[p] \in Stores
            /\ LET from == Word(p)[0]
               IN  memory_buffer' =
                     [b \in Page |-> IF b \in from .. (from + W - 1)
                                     THEN Xor(call[p].reg[b - from], call[p].by[b - from])
                                     ELSE memory_buffer[b]]
            /\ call' = [call EXCEPT ![p].i = @ + 1, ![p].reg = ZeroKey]
            /\ Goto(p, Alternate(pc[p]))
            /\ UNCHANGED <<module, key, offset, calls, plain, clash, sound>>

-----------------------------------------------------------------------------
(* device_ioctl, IOCTL_SET_KEY                                             *)

SetKey(p, new) == /\ Calling(p)
                  /\ new # key
                  /\ call' = [call EXCEPT ![p] = [Idle EXCEPT !.count = PAGE_SIZE,
                                                              !.by = key, !.new = new]]
                  /\ Meets(p, Page)
                  /\ sound' = sound \ UNION {Bytes(q) : q \in {r \in Procs : pc[r] # "idle"}}
                  /\ Goto(p, "decrypt_load")
                  /\ calls' = calls + 1
                  /\ UNCHANGED <<memory_buffer, key, offset, plain>>

Decrypted(p) == /\ pc[p] = "decrypt_load"
                /\ call[p].i = call[p].count \div W
                /\ Goto(p, "set_key")
                /\ UNCHANGED <<module, memory_buffer, key, offset, call, calls, plain, clash, sound>>

\* Variant: the page is encrypted with the key it was decrypted with.
KeySetLate(p) == /\ pc[p] = "set_key"
                 /\ key' = call[p].new
                 /\ call' = [call EXCEPT ![p].i = 0]
                 /\ Goto(p, "encrypt_load")
                 /\ UNCHANGED <<module, memory_buffer, offset, calls, plain, clash, sound>>

\* key = new_key, and the call of encrypt_memory: the compiler has new_key at hand
\* and does not read key again
KeySet(p) == /\ pc[p] = "set_key"
             /\ key' = call[p].new
             /\ call' = [call EXCEPT ![p].i = 0, ![p].by = call[p].new]
             /\ Goto(p, "encrypt_load")
             /\ UNCHANGED <<module, memory_buffer, offset, calls, plain, clash, sound>>

IoctlReturns(p) == /\ pc[p] = "encrypt_load"
                   /\ call[p].i = call[p].count \div W
                   /\ Goto(p, "idle")
                   /\ call' = [call EXCEPT ![p] = Idle]
                   /\ clash' = [clash EXCEPT ![p] = {}]
                   /\ UNCHANGED <<module, memory_buffer, key, offset, calls, plain, sound>>

-----------------------------------------------------------------------------
Process(p) == \/ Read(p) \/ Write(p) \/ Copy(p) \/ CopyFails(p) \/ Copied(p) \/ WriteReturns(p)
              \/ Load(p) \/ Store(p) \/ \E new \in Keys : SetKey(p, new)
              \/ Decrypted(p) \/ KeySet(p) \/ IoctlReturns(p)

Next == Module \/ \E p \in Procs : Process(p)

Spec == Init /\ [][Next]_vars

-----------------------------------------------------------------------------
(* Properties.                                                             *)

\* The type of every variable.
TypeOK == /\ loader \in {"out", "class", "device", "cdev", "buffer", "loaded", "oops"}
          /\ acquired \subseteq {"region", "class", "device", "cdev", "buffer"}
          /\ memory_buffer \in [Page -> BOOLEAN]
          /\ key \in Key
          /\ offset \in [Procs -> 0..PAGE_SIZE]
          /\ pc \in [Procs -> Labels]
          /\ call \in [Procs -> Calls]
          /\ calls \in 0..MaxCalls
          /\ plain \in [Page -> BOOLEAN]
          /\ clash \in [Procs -> SUBSET Page]
          /\ sound \subseteq Page

\* While the key is not being changed, a byte that was written as part of a word
\* of the page, and that no two calls used at the same time since, is stored under
\* the key in force, however often the key was changed and whatever other calls did
\* to other bytes, with no lock anywhere (char_device.c:44-80).
StoredUnderKey ==
  (\A p \in Procs : pc[p] \notin KeyChange) =>
    \A b \in sound : memory_buffer[b] = Xor(plain[b], key[b % W])

\* Whenever the module is not in the kernel it has left nothing there, whichever
\* steps of the loads before failed, noticed or not; and a page is held exactly while
\* it is loaded, even if the kernel stopped in the middle of a release
\* (char_device.c:90-149).
NothingLeftBehind == /\ loader = "out" => acquired = {}
                     /\ "buffer" \in acquired <=> loader = "loaded"
=============================================================================
