--------------------------- MODULE Assignment6Proofs ---------------------------
(***************************************************************************)
(* The encrypted memory, for any number of processes, any page, any size   *)
(* of a word and any number of calls; and the page sequence, for every     *)
(* memory and whatever the pages hold.                                     *)
(*                                                                         *)
(* The device has no lock, so that its invariant says of every process in  *)
(* the middle of a call what its bytes are like as long as nobody else is  *)
(* at them: a writer has its own bytes in the clear or sealed under the    *)
(* key of this moment (Written), a change of key has the sound bytes       *)
(* sealed up to where it is and open from there, or the reverse (Changed). *)
(* That nobody else is at them follows from what the calls register when   *)
(* they meet (Meeting) and from what has lost its soundness then (Apart).  *)
(***************************************************************************)
EXTENDS CharDevice, PageSequence, TLAPS

-----------------------------------------------------------------------------
(* Words and phases.                                                       *)

\* A word that encrypt_memory comes to lies inside its bytes.
LEMMA WordInside ==
  ASSUME NEW n \in Nat, NEW i \in Nat, i < n \div W
  PROVE  W * i \in Nat /\ W * (i + 1) = W * i + W /\ W * i + W <= n
<1>1. W \in Nat \ {0}
  BY CharDeviceAssumption
<1>2. n \div W \in Nat /\ W * (n \div W) <= n
  BY <1>1
<1>3. W * i + W <= W * (n \div W)
  BY <1>1, <1>2
<1>4. W * i \in Nat /\ W * (i + 1) = W * i + W
  BY <1>1
<1> QED
  BY <1>1, <1>2, <1>3, <1>4

\* What encrypt_memory covers when it is at its end; the whole page is whole words.
LEMMA WordsCovered ==
  ASSUME NEW n \in Nat
  PROVE  n \div W \in Nat /\ n \div W <= n /\ W * (n \div W) \in Nat /\ W * (n \div W) <= n
         /\ (n = PAGE_SIZE => W * (n \div W) = n)
<1>1. W \in Nat \ {0} /\ PAGE_SIZE % W = 0
  BY CharDeviceAssumption
<1>2. n \div W \in Nat /\ W * (n \div W) <= n /\ W * (n \div W) \in Nat
  BY <1>1
<1>3. n = W * (n \div W) + (n % W)
  BY <1>1
<1>4. n \div W <= n
  BY <1>1, <1>2
<1> QED
  BY <1>1, <1>2, <1>3, <1>4

\* The j-th byte of a word of the page meets the j-th byte of the key.
LEMMA PhaseOf ==
  ASSUME NEW a \in Nat, a % W = 0, NEW i \in Nat, NEW j \in 0..(W - 1)
  PROVE  (a + W * i + j) % W = j
<1>1. W \in Nat \ {0}
  BY CharDeviceAssumption
<1>2. a \div W \in Nat /\ a = W * (a \div W)
  BY <1>1
<1>3. a + W * i + j = W * ((a \div W) + i) + j
  BY <1>1, <1>2
<1>4. (a \div W) + i \in Nat
  BY <1>2
<1>5. \A q \in Nat : (W * q + j) % W = j
  BY <1>1
<1> QED
  BY <1>3, <1>4, <1>5

\* The same key twice leaves a byte as it was, and the key 0 does once.
LEMMA XorFacts ==
  ASSUME NEW a \in BOOLEAN, NEW b \in BOOLEAN
  PROVE  Xor(a, b) \in BOOLEAN /\ Xor(Xor(a, b), b) = a /\ Xor(a, FALSE) = a
  BY Zenon DEF Xor

-----------------------------------------------------------------------------
(* The invariant.                                                          *)

Active(p) == pc[p] # "idle"
Writing == {"copy", "write_load", "write_store"}

\* Where a call can be: inside the page, and no further than its last word.
LocalsOf(p) ==
  /\ pc[p] = "idle" => call[p].count = 0
  /\ Active(p) => loader = "loaded"
  /\ call[p].first + call[p].count <= PAGE_SIZE
  /\ pc[p] = "copy" => call[p].i <= call[p].count
  /\ pc[p] \in Loads => call[p].i <= call[p].count \div W
  /\ pc[p] \in Stores => call[p].i < call[p].count \div W
  /\ pc[p] = "set_key" => call[p].i = call[p].count \div W
  /\ pc[p] \in Writing => offset[p] = call[p].first
  /\ pc[p] \in KeyChange => call[p].first = 0 /\ call[p].count = PAGE_SIZE

Locals == \A p \in Procs : LocalsOf(p)

\* Two calls in progress know of each other what bytes they share.
Meeting ==
  \A p, q \in Procs : p # q /\ Active(p) /\ Active(q) => Bytes(p) \cap Bytes(q) \subseteq clash[p]

\* No byte of a write in progress is sound, and none is while two keys are changed.
Apart == /\ \A p \in Procs : pc[p] \in Writing => sound \cap Bytes(p) = {}
         /\ \A p, q \in Procs : pc[p] \in KeyChange /\ pc[q] \in KeyChange /\ p # q => sound = {}

Sealed(b) == memory_buffer[b] = Xor(plain[b], key[b % W])
Open(b) == memory_buffer[b] = plain[b]

\* The byte that encrypt_memory is at, and what a call that is to store has loaded.
Reached(p) == call[p].first + W * call[p].i
InReg(p, b) == b \in Reached(p) .. (Reached(p) + W - 1) => call[p].reg[b - Reached(p)] = memory_buffer[b]

\* A byte that only the writer p is at: open once it is copied, and sealed behind
\* the place where encrypt_memory is.
Own(p, b) ==
  /\ pc[p] = "copy" /\ b < call[p].first + call[p].i => Open(b)
  /\ pc[p] \in {"write_load", "write_store"} =>
       /\ call[p].by = key
       /\ b < Reached(p) => (call[p].first % W = 0 => Sealed(b))
       /\ b >= Reached(p) => Open(b)
  /\ pc[p] = "write_store" => InReg(p, b)

Written == \A p \in Procs : pc[p] \in Writing => \A b \in Bytes(p) \ clash[p] : Own(p, b)

\* A sound byte while p changes the key.
Half(p, b) ==
  /\ pc[p] \in {"decrypt_load", "decrypt_store"} =>
       call[p].by = key /\ IF b < Reached(p) THEN Open(b) ELSE Sealed(b)
  /\ pc[p] = "set_key" => Open(b)
  /\ pc[p] \in {"encrypt_load", "encrypt_store"} =>
       call[p].by = key /\ IF b < Reached(p) THEN Sealed(b) ELSE Open(b)
  /\ pc[p] \in Stores => InReg(p, b)

Changed == \A p \in Procs : pc[p] \in KeyChange => \A b \in sound : Half(p, b)

IInv == /\ TypeOK /\ NothingLeftBehind /\ Locals
        /\ Meeting /\ Apart
        /\ Written /\ StoredUnderKey /\ Changed

-----------------------------------------------------------------------------
(* Types, locals and the module.                                           *)

\* The locals of a call, and the bytes and the word it works on.
LEMMA CallFacts ==
  ASSUME TypeOK, Locals, NEW p \in Procs
  PROVE  /\ call[p] \in Calls /\ call[p].first \in 0..PAGE_SIZE /\ call[p].count \in 0..PAGE_SIZE
         /\ call[p].i \in 0..PAGE_SIZE /\ call[p].data \in BOOLEAN
         /\ call[p].by \in Key /\ call[p].reg \in Key /\ call[p].new \in Key
         /\ call[p].first + call[p].count <= PAGE_SIZE
         /\ Bytes(p) \subseteq Page /\ (Active(p) \/ Bytes(p) = {})
         /\ pc[p] \in KeyChange => Bytes(p) = Page
<1>1. call[p] \in Calls
  BY DEF TypeOK
<1>2. LocalsOf(p)
  BY DEF Locals
<1>3. /\ call[p].first \in 0..PAGE_SIZE /\ call[p].count \in 0..PAGE_SIZE
      /\ call[p].i \in 0..PAGE_SIZE /\ call[p].data \in BOOLEAN
      /\ call[p].by \in Key /\ call[p].reg \in Key /\ call[p].new \in Key
  BY <1>1 DEF Calls
<1>4. call[p].first + call[p].count <= PAGE_SIZE /\ (Active(p) \/ call[p].count = 0)
      /\ (pc[p] \in KeyChange => call[p].first = 0 /\ call[p].count = PAGE_SIZE)
  BY <1>2 DEF LocalsOf, Active
<1>5. Bytes(p) \subseteq Page /\ (Active(p) \/ Bytes(p) = {}) /\ (pc[p] \in KeyChange => Bytes(p) = Page)
  BY <1>3, <1>4, CharDeviceAssumption DEF Bytes, Page
<1> QED
  BY <1>1, <1>3, <1>4, <1>5

\* The word that encrypt_memory is at lies in the bytes of the call.
LEMMA WordFacts ==
  ASSUME TypeOK, Locals, NEW p \in Procs, call[p].i < call[p].count \div W
  PROVE  /\ Reached(p) \in Nat /\ Reached(p) .. (Reached(p) + W - 1) \subseteq Bytes(p)
         /\ Word(p) = [j \in 0..(W - 1) |-> Reached(p) + j]
         /\ call[p].first + W * (call[p].i + 1) = Reached(p) + W
<1> DEFINE i == call[p].i
           n == call[p].count
           f == call[p].first
<1>1. i \in Nat /\ n \in Nat /\ f \in Nat /\ W \in Nat \ {0}
  BY CallFacts, CharDeviceAssumption
<1>2. W * i \in Nat /\ W * (i + 1) = W * i + W /\ W * i + W <= n
  BY <1>1, WordInside
<1> HIDE DEF i, n, f
<1>3. f + W * i \in Nat /\ (f + W * i) .. (f + W * i + W - 1) \subseteq f .. (f + n - 1)
      /\ f + W * (i + 1) = f + W * i + W
  BY <1>1, <1>2
<1> QED
  BY <1>3 DEF i, n, f, Reached, Bytes, Word

\* A process changes nothing of another one.
LEMMA OthersStay ==
  ASSUME TypeOK, NEW q \in Procs, Process(q), NEW p \in Procs, p # q
  PROVE  /\ pc'[p] = pc[p] /\ call'[p] = call[p] /\ offset'[p] = offset[p]
         /\ loader' = loader /\ acquired' = acquired
         /\ Bytes(p)' = Bytes(p) /\ Reached(p)' = Reached(p)
<1>1. /\ pc'[p] = pc[p] /\ call'[p] = call[p] /\ offset'[p] = offset[p]
      /\ loader' = loader /\ acquired' = acquired
  BY DEF TypeOK, Process, Read, Write, Copy, CopyFails, Copied, WriteReturns, Load, Store, SetKey,
         Decrypted, KeySet, IoctlReturns, Calling, Goto, module
<1> QED
  BY <1>1 DEF Bytes, Reached

\* What encrypt_memory alternates between.
LEMMA AlternateFacts ==
  ASSUME NEW label
  PROVE  /\ label \in Loads => Alternate(label) \in Stores
         /\ label \in Stores => Alternate(label) \in Loads
         /\ label \in Loads \cup Stores =>
              /\ (label \in Writing <=> Alternate(label) \in Writing) /\ Alternate(label) # "copy"
              /\ (label \in KeyChange <=> Alternate(label) \in KeyChange) /\ Alternate(label) # "set_key"
              /\ (label = "write_load" <=> Alternate(label) = "write_store")
              /\ (label = "write_store" <=> Alternate(label) = "write_load")
              /\ (label = "decrypt_load" <=> Alternate(label) = "decrypt_store")
              /\ (label = "decrypt_store" <=> Alternate(label) = "decrypt_load")
              /\ (label = "encrypt_load" <=> Alternate(label) = "encrypt_store")
              /\ (label = "encrypt_store" <=> Alternate(label) = "encrypt_load")
  BY DEF Loads, Stores, Alternate, Writing, KeyChange

\* The locals of a process between two calls.
LEMMA IdleFacts == Idle \in Calls /\ ZeroKey \in Key /\ Idle.first = 0 /\ Idle.count = 0 /\ Idle.i = 0
<1>1. ZeroKey \in Key
  BY DEF ZeroKey, Key
<1>2. 0 \in 0..PAGE_SIZE
  BY CharDeviceAssumption
<1> QED
  BY <1>1, <1>2 DEF Idle, Calls

\* The sizes.
LEMMA SizeFacts == /\ PAGE_SIZE \in Nat \ {0} /\ W \in Nat \ {0}
                   /\ 0 \in 0..PAGE_SIZE /\ PAGE_SIZE \in 0..PAGE_SIZE /\ Keys \subseteq Key
  BY CharDeviceAssumption DEF Key

\* device_write and device_ioctl set up the locals of the call.
LEMMA BeginLocals ==
  ASSUME TypeOK, Locals, NEW q \in Procs, Write(q) \/ \E new \in Keys : SetKey(q, new)
  PROVE  call'[q] \in Calls /\ LocalsOf(q)' /\ call'[q].i = 0
<1> USE SizeFacts
<1>1. offset[q] \in 0..PAGE_SIZE /\ loader' = loader /\ offset' = offset /\ pc[q] = "idle" /\ loader = "loaded"
  BY DEF TypeOK, Write, SetKey, Calling, module
<1>2. CASE Write(q)
  <2>1. PICK length \in 0..(PAGE_SIZE + 1), d \in BOOLEAN :
             /\ offset[q] + Limit(length) <= PAGE_SIZE
             /\ call' = [call EXCEPT ![q] = [Idle EXCEPT !.first = offset[q],
                                                         !.count = Limit(length), !.data = d]]
    BY <1>2 DEF Write
  <2>2. Limit(length) \in 0..PAGE_SIZE
    BY DEF Limit
  <2>3. call'[q] = [Idle EXCEPT !.first = offset[q], !.count = Limit(length), !.data = d]
    BY <2>1 DEF TypeOK
  <2>4. call'[q] \in Calls /\ call'[q].first = offset[q] /\ call'[q].count = Limit(length) /\ call'[q].i = 0
    BY <1>1, <2>2, <2>3, IdleFacts DEF Calls
  <2>5. pc'[q] = "copy"
    BY <1>2 DEF Write, Goto, TypeOK
  <2> QED
    BY <1>1, <2>1, <2>2, <2>4, <2>5
       DEF LocalsOf, Active, Loads, Stores, KeyChange, Writing
<1>3. ASSUME NEW new \in Keys, SetKey(q, new) PROVE call'[q] \in Calls /\ LocalsOf(q)' /\ call'[q].i = 0
  <2>1. call'[q] = [Idle EXCEPT !.count = PAGE_SIZE, !.by = key, !.new = new]
    BY <1>3 DEF SetKey, TypeOK
  <2>2. new \in Key /\ key \in Key
    BY DEF Key, TypeOK
  <2>3. call'[q] \in Calls /\ call'[q].first = 0 /\ call'[q].count = PAGE_SIZE /\ call'[q].i = 0
    BY <2>1, <2>2, IdleFacts DEF Calls
  <2>4. pc'[q] = "decrypt_load"
    BY <1>3 DEF SetKey, Goto, TypeOK
  <2>5. PAGE_SIZE \div W \in Nat
    BY WordsCovered
  <2> QED
    BY <1>1, <2>3, <2>4, <2>5 DEF LocalsOf, Active, Loads, Stores, KeyChange, Writing
<1> QED
  BY <1>2, <1>3

\* The steps of encrypt_memory, and what is between them.
LEMMA EncryptLocals ==
  ASSUME TypeOK, Locals, NEW q \in Procs,
         Copied(q) \/ Load(q) \/ Store(q) \/ Decrypted(q) \/ KeySet(q)
  PROVE  call'[q] \in Calls /\ LocalsOf(q)'
<1> USE SizeFacts
<1>1. /\ call[q] \in Calls /\ call[q].first \in 0..PAGE_SIZE /\ call[q].count \in 0..PAGE_SIZE
      /\ call[q].i \in 0..PAGE_SIZE /\ LocalsOf(q) /\ key \in Key /\ call[q].new \in Key
  BY CallFacts DEF Locals, TypeOK
<1>2. loader' = loader /\ offset' = offset
  BY DEF Copied, Load, Store, Decrypted, KeySet, module
<1>3. call[q].count \div W \in Nat /\ call[q].count \div W <= PAGE_SIZE
  <2>1. call[q].count \div W \in Nat /\ call[q].count \div W <= call[q].count
    BY <1>1, WordsCovered
  <2> QED
    BY <1>1, <2>1
<1>4. CASE Copied(q)
  <2>1. call'[q] = [call[q] EXCEPT !.i = 0, !.by = key] /\ pc'[q] = "write_load" /\ pc[q] = "copy"
    BY <1>4 DEF Copied, Goto, TypeOK
  <2>2. call'[q] \in Calls /\ call'[q].i = 0 /\ call'[q].first = call[q].first /\ call'[q].count = call[q].count
    BY <1>1, <2>1 DEF Calls
  <2> QED
    BY <1>1, <1>2, <1>3, <2>1, <2>2 DEF LocalsOf, Active, Loads, Stores, KeyChange, Writing
<1>5. CASE Load(q)
  <2> DEFINE r == [j \in 0..(W - 1) |-> memory_buffer[Word(q)[j]]]
  <2>1. /\ call'[q] = [call[q] EXCEPT !.reg = r] /\ pc'[q] = Alternate(pc[q]) /\ pc[q] \in Loads
        /\ call[q].i < call[q].count \div W
    BY <1>5 DEF Load, Goto, TypeOK
  <2>2. r \in Key
    <3>1. \A j \in 0..(W - 1) : Word(q)[j] \in Page
      <4>1. Word(q) = [j \in 0..(W - 1) |-> Reached(q) + j] /\ Reached(q) \in Nat
            /\ Reached(q) .. (Reached(q) + W - 1) \subseteq Page
        BY <2>1, WordFacts, CallFacts
      <4> QED
        BY <4>1
    <3> QED
      BY <3>1 DEF Key, TypeOK
  <2> HIDE DEF r
  <2>3. call'[q] \in Calls /\ call'[q].i = call[q].i /\ call'[q].first = call[q].first /\ call'[q].count = call[q].count
    BY <1>1, <2>1, <2>2 DEF Calls
  <2>4. pc'[q] \in Stores /\ (pc[q] \in Writing <=> pc'[q] \in Writing) /\ (pc[q] \in KeyChange <=> pc'[q] \in KeyChange)
    BY <2>1, AlternateFacts
  <2>5. pc'[q] \notin {"idle", "copy", "set_key"} \cup Loads /\ Active(q)
    BY <2>1, <2>4 DEF Stores, Loads, Active
  <2> QED
    BY <1>1, <1>2, <2>1, <2>3, <2>4, <2>5 DEF LocalsOf, Active
<1>6. CASE Store(q)
  <2>1. /\ call'[q] = [call[q] EXCEPT !.i = call[q].i + 1, !.reg = ZeroKey] /\ pc'[q] = Alternate(pc[q])
        /\ pc[q] \in Stores
    BY <1>6 DEF Store, Goto, TypeOK
  <2>2. call[q].i < call[q].count \div W
    BY <1>1, <2>1 DEF LocalsOf
  <2>3. call[q].i + 1 \in 0..PAGE_SIZE /\ call[q].i + 1 <= call[q].count \div W
    BY <1>1, <1>3, <2>2
  <2>4. /\ call'[q] \in Calls /\ call'[q].i = call[q].i + 1
        /\ call'[q].first = call[q].first /\ call'[q].count = call[q].count
    BY <1>1, <2>1, <2>3, IdleFacts DEF Calls
  <2>5. pc'[q] \in Loads /\ (pc[q] \in Writing <=> pc'[q] \in Writing) /\ (pc[q] \in KeyChange <=> pc'[q] \in KeyChange)
    BY <2>1, AlternateFacts
  <2>6. pc'[q] \notin {"idle", "copy", "set_key"} \cup Stores /\ Active(q)
    BY <2>1, <2>5 DEF Stores, Loads, Active
  <2> QED
    BY <1>1, <1>2, <2>3, <2>4, <2>5, <2>6 DEF LocalsOf, Active
<1>7. CASE Decrypted(q)
  <2>1. call' = call /\ pc'[q] = "set_key" /\ pc[q] = "decrypt_load" /\ call[q].i = call[q].count \div W
    BY <1>7 DEF Decrypted, Goto, TypeOK
  <2> QED
    BY <1>1, <1>2, <2>1 DEF LocalsOf, Active, Loads, Stores, KeyChange, Writing
<1>8. CASE KeySet(q)
  <2>1. call'[q] = [call[q] EXCEPT !.i = 0, !.by = call[q].new] /\ pc'[q] = "encrypt_load" /\ pc[q] = "set_key"
    BY <1>8 DEF KeySet, Goto, TypeOK
  <2>2. call'[q] \in Calls /\ call'[q].i = 0 /\ call'[q].first = call[q].first /\ call'[q].count = call[q].count
    BY <1>1, <2>1 DEF Calls
  <2> QED
    BY <1>1, <1>2, <1>3, <2>1, <2>2 DEF LocalsOf, Active, Loads, Stores, KeyChange, Writing
<1> QED
  BY <1>4, <1>5, <1>6, <1>7, <1>8

\* A call that ends, and the copying of a byte.
LEMMA OtherLocals ==
  ASSUME TypeOK, Locals, NEW q \in Procs,
         Read(q) \/ Copy(q) \/ CopyFails(q) \/ WriteReturns(q) \/ IoctlReturns(q)
  PROVE  call'[q] \in Calls /\ LocalsOf(q)'
<1> USE SizeFacts
<1>1. /\ call[q] \in Calls /\ call[q].first \in 0..PAGE_SIZE /\ call[q].count \in 0..PAGE_SIZE
      /\ call[q].i \in 0..PAGE_SIZE /\ LocalsOf(q)
  BY CallFacts DEF Locals
<1>2. loader' = loader
  BY DEF Read, Calling, Copy, CopyFails, WriteReturns, IoctlReturns, module
<1>3. CASE Read(q)
  <2>1. call' = call /\ pc' = pc /\ pc[q] = "idle"
    BY <1>3 DEF Read, Calling
  <2> QED
    BY <1>1, <1>2, <2>1 DEF LocalsOf, Active, Writing, Loads, Stores, KeyChange
<1>4. CASE Copy(q)
  <2>1. call'[q] = [call[q] EXCEPT !.i = call[q].i + 1] /\ pc' = pc /\ pc[q] = "copy"
        /\ call[q].i < call[q].count /\ offset' = offset
    BY <1>4 DEF Copy, TypeOK
  <2>2. call[q].i + 1 \in 0..PAGE_SIZE /\ call[q].i + 1 <= call[q].count
    BY <1>1, <2>1
  <2>3. /\ call'[q] \in Calls /\ call'[q].i = call[q].i + 1
        /\ call'[q].first = call[q].first /\ call'[q].count = call[q].count
    BY <1>1, <2>1, <2>2 DEF Calls
  <2> QED
    BY <1>1, <1>2, <2>1, <2>2, <2>3 DEF LocalsOf, Active, Writing, Loads, Stores, KeyChange
<1>5. CASE CopyFails(q) \/ WriteReturns(q) \/ IoctlReturns(q)
  <2>1. call'[q] = Idle /\ pc'[q] = "idle"
    BY <1>5 DEF CopyFails, WriteReturns, IoctlReturns, Goto, TypeOK
  <2> QED
    BY <2>1, IdleFacts DEF LocalsOf, Active, Writing, Loads, Stores, KeyChange
<1> QED
  BY <1>3, <1>4, <1>5

\* What a step does to the page: it touches no byte outside its own call's.
LEMMA PageStep ==
  ASSUME TypeOK, Locals, NEW q \in Procs, Process(q)
  PROVE  /\ memory_buffer' \in [Page -> BOOLEAN] /\ plain' \in [Page -> BOOLEAN]
         /\ \A b \in Page \ Bytes(q) : memory_buffer'[b] = memory_buffer[b] /\ plain'[b] = plain[b]
         /\ pc[q] \notin {"copy"} \cup Stores => memory_buffer' = memory_buffer /\ plain' = plain
         /\ pc[q] # "copy" => plain' = plain
<1> USE SizeFacts
<1>1. /\ call[q].first \in Nat /\ call[q].count \in Nat /\ call[q].i \in Nat /\ call[q].data \in BOOLEAN
      /\ call[q].by \in Key /\ call[q].reg \in Key /\ Bytes(q) \subseteq Page
      /\ memory_buffer \in [Page -> BOOLEAN] /\ plain \in [Page -> BOOLEAN]
  BY CallFacts DEF TypeOK
<1>2. CASE Copy(q)
  <2> DEFINE b0 == call[q].first + call[q].i
  <2>1. b0 \in Bytes(q) /\ pc[q] = "copy"
    BY <1>1, <1>2 DEF Copy, Bytes
  <2>2. memory_buffer' = [memory_buffer EXCEPT ![b0] = call[q].data] /\ plain' = [plain EXCEPT ![b0] = call[q].data]
    BY <1>2 DEF Copy
  <2> HIDE DEF b0
  <2> QED
    BY <1>1, <2>1, <2>2 DEF Stores
<1>3. CASE CopyFails(q)
  <2>1. /\ pc[q] = "copy" /\ plain' = plain
        /\ memory_buffer' = [b \in Page |-> IF b \in Bytes(q) /\ b >= call[q].first + call[q].i
                                            THEN FALSE ELSE memory_buffer[b]]
    BY <1>3 DEF CopyFails
  <2> QED
    BY <1>1, <2>1 DEF Stores
<1>4. CASE Store(q)
  <2>1. call[q].i < call[q].count \div W /\ pc[q] \in Stores /\ pc[q] # "copy" /\ plain' = plain
    BY <1>4 DEF Store, Locals, LocalsOf, Stores
  <2>2. Reached(q) \in Nat /\ Reached(q) .. (Reached(q) + W - 1) \subseteq Bytes(q) /\ Word(q)[0] = Reached(q)
    <3>1. /\ Reached(q) \in Nat /\ Reached(q) .. (Reached(q) + W - 1) \subseteq Bytes(q)
          /\ Word(q) = [j \in 0..(W - 1) |-> Reached(q) + j]
      BY <2>1, WordFacts
    <3> QED
      BY <3>1
  <2>3. memory_buffer' = [b \in Page |-> IF b \in Reached(q) .. (Reached(q) + W - 1)
                                         THEN Xor(call[q].reg[b - Reached(q)], call[q].by[b - Reached(q)])
                                         ELSE memory_buffer[b]]
    BY <1>4, <2>2 DEF Store
  <2>4. \A b \in Reached(q) .. (Reached(q) + W - 1) :
           Xor(call[q].reg[b - Reached(q)], call[q].by[b - Reached(q)]) \in BOOLEAN
    <3>1. ASSUME NEW b \in Reached(q) .. (Reached(q) + W - 1)
          PROVE  call[q].reg[b - Reached(q)] \in BOOLEAN /\ call[q].by[b - Reached(q)] \in BOOLEAN
      <4>1. b - Reached(q) \in 0..(W - 1)
        BY <2>2
      <4> QED
        BY <1>1, <4>1 DEF Key
    <3> QED
      BY <3>1, XorFacts
  <2> QED
    BY <1>1, <2>1, <2>2, <2>3, <2>4
<1>5. CASE ~ (Copy(q) \/ CopyFails(q) \/ Store(q))
  <2>1. memory_buffer' = memory_buffer /\ plain' = plain
    BY <1>5 DEF Process, Read, Write, Copied, WriteReturns, Load, SetKey, Decrypted, KeySet, IoctlReturns
  <2> QED
    BY <1>1, <2>1
<1> QED
  BY <1>2, <1>3, <1>4, <1>5

\* What a step does to the key.
LEMMA KeyStep ==
  ASSUME TypeOK, NEW q \in Procs, Process(q)
  PROVE  key' \in Key /\ (pc[q] # "set_key" => key' = key)
<1>1. CASE KeySet(q)
  BY <1>1 DEF KeySet, TypeOK, Calls
<1>2. CASE ~ KeySet(q)
  BY <1>2 DEF Process, Read, Write, Copy, CopyFails, Copied, WriteReturns, Load, Store, SetKey,
              Decrypted, IoctlReturns, TypeOK
<1> QED
  BY <1>1, <1>2

\* The steps of a process keep the types, its locals and everybody else's.
LEMMA ProcessType ==
  ASSUME TypeOK, Locals, NothingLeftBehind, NEW q \in Procs, Process(q)
  PROVE  TypeOK' /\ Locals' /\ NothingLeftBehind'
<1> USE SizeFacts
<1>1. call'[q] \in Calls /\ LocalsOf(q)'
  BY BeginLocals, EncryptLocals, OtherLocals DEF Process
<1>2. \A p \in Procs \ {q} : /\ pc'[p] = pc[p] /\ call'[p] = call[p] /\ offset'[p] = offset[p]
                             /\ loader' = loader /\ acquired' = acquired
  BY OthersStay
<1>3. loader' = loader /\ acquired' = acquired
  BY DEF Process, Read, Write, Copy, CopyFails, Copied, WriteReturns, Load, Store, SetKey,
         Decrypted, KeySet, IoctlReturns, Calling, module
<1>4. Locals'
  BY <1>1, <1>2, <1>3 DEF Locals, LocalsOf, Active
<1>5. call' \in [Procs -> Calls]
  <2>1. call' = [call EXCEPT ![q] = call'[q]]
    BY DEF Process, Read, Write, Copy, CopyFails, Copied, WriteReturns, Load, Store, SetKey,
           Decrypted, KeySet, IoctlReturns, TypeOK
  <2> QED
    BY <1>1, <2>1 DEF TypeOK
<1>6. pc' \in [Procs -> Labels]
  <2>1. /\ pc[q] \in Loads \cup Stores => Alternate(pc[q]) \in Labels
        /\ {"idle", "copy", "write_load", "decrypt_load", "set_key", "encrypt_load"} \subseteq Labels
    BY AlternateFacts DEF Labels, KeyChange, Loads, Stores
  <2>2. CASE Load(q) \/ Store(q)
    BY <2>1, <2>2 DEF Load, Store, Goto, TypeOK
  <2>3. CASE Read(q) \/ Write(q) \/ Copy(q) \/ CopyFails(q) \/ Copied(q) \/ WriteReturns(q)
    BY <2>1, <2>3 DEF Read, Write, Copy, CopyFails, Copied, WriteReturns, Goto, TypeOK
  <2>4. ASSUME NEW new \in Keys, SetKey(q, new) PROVE pc' \in [Procs -> Labels]
    BY <2>1, <2>4 DEF SetKey, Goto, TypeOK
  <2>5. CASE Decrypted(q) \/ KeySet(q) \/ IoctlReturns(q)
    BY <2>1, <2>5 DEF Decrypted, KeySet, IoctlReturns, Goto, TypeOK
  <2> QED
    BY <2>2, <2>3, <2>4, <2>5 DEF Process
<1>7. offset' \in [Procs -> 0..PAGE_SIZE]
  <2>1. CASE Read(q)
    <3>1. PICK length \in 0..(PAGE_SIZE + 1) :
             offset[q] + Limit(length) <= PAGE_SIZE /\ offset' = [offset EXCEPT ![q] = offset[q] + Limit(length)]
      BY <2>1 DEF Read
    <3>2. offset[q] \in 0..PAGE_SIZE /\ Limit(length) \in Nat
      BY DEF TypeOK, Limit
    <3>3. offset[q] + Limit(length) \in 0..PAGE_SIZE
      BY <3>1, <3>2
    <3> QED
      BY <3>1, <3>3 DEF TypeOK
  <2>2. CASE WriteReturns(q)
    <3>1. offset' = [offset EXCEPT ![q] = offset[q] + call[q].count] /\ pc[q] = "write_load"
      BY <2>2 DEF WriteReturns
    <3>2. offset[q] = call[q].first
      BY <3>1 DEF Locals, LocalsOf, Writing
    <3>3. offset[q] + call[q].count \in 0..PAGE_SIZE
      BY <3>2, CallFacts
    <3> QED
      BY <3>1, <3>3 DEF TypeOK
  <2>3. CASE ~ Read(q) /\ ~ WriteReturns(q)
    BY <2>3 DEF Process, Write, Copy, CopyFails, Copied, Load, Store, SetKey, Decrypted, KeySet,
                IoctlReturns, TypeOK
  <2> QED
    BY <2>1, <2>2, <2>3
<1>8. calls' \in 0..MaxCalls
  <2>1. calls' = calls \/ (calls' = calls + 1 /\ calls < MaxCalls)
    BY DEF Process, Read, Write, Copy, CopyFails, Copied, WriteReturns, Load, Store, SetKey,
           Decrypted, KeySet, IoctlReturns, Calling
  <2>2. MaxCalls \in Nat /\ calls \in 0..MaxCalls
    BY CharDeviceAssumption DEF TypeOK
  <2> QED
    BY <2>1, <2>2
<1>9. clash' \in [Procs -> SUBSET Page] /\ sound' \subseteq Page
  <2>1. \A p \in Procs : Bytes(p) \subseteq Page
    BY CallFacts
  <2>2. CASE Write(q) \/ \E new \in Keys : SetKey(q, new)
    <3>1. \A B : B \cap UNION {Bytes(r) : r \in {r \in Procs \ {q} : pc[r] # "idle"}} \subseteq Page
      BY <2>1
    <3>2. \A B, p \in Procs : B \cap Bytes(p) \subseteq Page
      BY <2>1
    <3>3. \A B : Meets(q, B) => clash' \in [Procs -> SUBSET Page]
      BY <3>1, <3>2 DEF Meets, TypeOK
    <3> QED
      BY <2>2, <3>3 DEF Write, SetKey, TypeOK
  <2>3. CASE WriteReturns(q)
    <3>1. WholeWords(q) \subseteq Page
      BY <2>1 DEF WholeWords
    <3> QED
      BY <2>3, <3>1 DEF WriteReturns, TypeOK
  <2>4. CASE ~ Write(q) /\ ~ WriteReturns(q) /\ ~ \E new \in Keys : SetKey(q, new)
    BY <2>4 DEF Process, Read, Copy, CopyFails, Copied, Load, Store, Decrypted, KeySet, IoctlReturns, TypeOK
  <2> QED
    BY <2>2, <2>3, <2>4
<1>10. TypeOK'
  BY <1>3, <1>5, <1>6, <1>7, <1>8, <1>9, PageStep, KeyStep DEF TypeOK
<1> QED
  BY <1>3, <1>4, <1>10 DEF NothingLeftBehind

-----------------------------------------------------------------------------
(* Who meets whom.                                                         *)

\* A call that begins: its bytes, and what the calls in progress register.
LEMMA BeginFacts ==
  ASSUME TypeOK, Locals, NEW q \in Procs, Write(q) \/ \E new \in Keys : SetKey(q, new)
  PROVE  /\ pc[q] = "idle" /\ memory_buffer' = memory_buffer /\ plain' = plain /\ key' = key
         /\ pc'[q] = "copy" \/ (pc'[q] = "decrypt_load" /\ Bytes(q)' = Page)
         /\ Meets(q, Bytes(q)')
         /\ sound' \subseteq sound \ (IF pc'[q] = "copy" THEN Bytes(q)'
                                      ELSE UNION {Bytes(r) : r \in {r \in Procs : pc[r] # "idle"}})
<1> USE SizeFacts
<1>1. CASE Write(q)
  <2>1. PICK length \in 0..(PAGE_SIZE + 1), d \in BOOLEAN :
             /\ call' = [call EXCEPT ![q] = [Idle EXCEPT !.first = offset[q],
                                                         !.count = Limit(length), !.data = d]]
             /\ Meets(q, offset[q] .. (offset[q] + Limit(length) - 1))
             /\ sound' = sound \ (offset[q] .. (offset[q] + Limit(length) - 1))
    BY <1>1 DEF Write
  <2>2. call'[q] = [Idle EXCEPT !.first = offset[q], !.count = Limit(length), !.data = d]
    BY <2>1 DEF TypeOK
  <2>3. call'[q].first = offset[q] /\ call'[q].count = Limit(length)
    BY <2>2 DEF Idle
  <2>4. Bytes(q)' = offset[q] .. (offset[q] + Limit(length) - 1)
    BY <2>3 DEF Bytes
  <2>5. pc'[q] = "copy"
    BY <1>1 DEF Write, Goto, TypeOK
  <2> QED
    BY <1>1, <2>1, <2>4, <2>5 DEF Write, Calling
<1>2. ASSUME NEW new \in Keys, SetKey(q, new)
      PROVE  /\ pc'[q] = "decrypt_load" /\ Bytes(q)' = Page
             /\ sound' = sound \ UNION {Bytes(r) : r \in {r \in Procs : pc[r] # "idle"}}
             /\ Meets(q, Page)
  <2>1. call'[q] = [Idle EXCEPT !.count = PAGE_SIZE, !.by = key, !.new = new]
    BY <1>2 DEF SetKey, TypeOK
  <2>2. call'[q].first = 0 /\ call'[q].count = PAGE_SIZE
    BY <2>1 DEF Idle
  <2>3. Bytes(q)' = Page
    BY <2>2 DEF Bytes, Page
  <2>4. pc'[q] = "decrypt_load"
    BY <1>2 DEF SetKey, Goto, TypeOK
  <2> QED
    BY <1>2, <2>3, <2>4 DEF SetKey
<1>3. CASE \E new \in Keys : SetKey(q, new)
  <2>1. pc[q] = "idle" /\ memory_buffer' = memory_buffer /\ plain' = plain /\ key' = key
    BY <1>3 DEF SetKey, Calling
  <2> QED
    BY <1>2, <1>3, <2>1
<1> QED
  BY <1>1, <1>3

\* Any other step leaves its call the bytes it has, or ends it.
LEMMA GoOnFacts ==
  ASSUME TypeOK, Locals, NEW q \in Procs, Process(q), ~ Write(q), ~ \E new \in Keys : SetKey(q, new)
  PROVE  /\ pc[q] = "idle" => pc'[q] = "idle"
         /\ pc'[q] # "idle" =>
              /\ Bytes(q)' = Bytes(q) /\ clash'[q] = clash[q]
              /\ (pc'[q] \in Writing <=> pc[q] \in Writing)
              /\ (pc'[q] \in KeyChange <=> pc[q] \in KeyChange)
         /\ \A p \in Procs \ {q} : clash'[p] = clash[p]
         /\ ~ WriteReturns(q) => sound' = sound
         /\ WriteReturns(q) => sound' = sound \cup (WholeWords(q) \ clash[q])
<1>1. CASE Read(q)
  BY <1>1 DEF Read, Calling, WriteReturns
<1>2. CASE CopyFails(q) \/ WriteReturns(q) \/ IoctlReturns(q)
  BY <1>2 DEF CopyFails, WriteReturns, IoctlReturns, Goto, TypeOK
<1>3. CASE Copy(q) \/ Copied(q) \/ Load(q) \/ Store(q) \/ Decrypted(q) \/ KeySet(q)
  <2>1. call[q] \in Calls
    BY DEF TypeOK
  <2>2. call'[q].first = call[q].first /\ call'[q].count = call[q].count
    BY <1>3, <2>1 DEF Copy, Copied, Load, Store, Decrypted, KeySet, TypeOK, Calls
  <2>3. Bytes(q)' = Bytes(q)
    BY <2>2 DEF Bytes
  <2>4. clash' = clash /\ sound' = sound
    BY <1>3 DEF Copy, Copied, Load, Store, Decrypted, KeySet
  <2>5. /\ pc[q] # "idle" /\ ~ WriteReturns(q)
        /\ (pc'[q] \in Writing <=> pc[q] \in Writing) /\ (pc'[q] \in KeyChange <=> pc[q] \in KeyChange)
    <3>1. CASE Load(q) \/ Store(q)
      <4>1. pc[q] \in Loads \cup Stores /\ pc'[q] = Alternate(pc[q]) /\ pc[q] # "idle"
        BY <3>1 DEF Load, Store, Goto, TypeOK, Loads, Stores
      <4>2. ~ WriteReturns(q)
        <5>1. CASE Load(q)
          <6>1. call[q].i < call[q].count \div W /\ call[q].i \in Nat /\ call[q].count \div W \in Nat
            BY <5>1, CallFacts, WordsCovered DEF Load
          <6> QED
            BY <6>1 DEF WriteReturns
        <5>2. CASE Store(q)
          BY <5>2 DEF WriteReturns, Store, Stores
        <5> QED
          BY <3>1, <5>1, <5>2
      <4> QED
        BY <4>1, <4>2, AlternateFacts
    <3>2. CASE Copy(q) \/ Copied(q) \/ Decrypted(q) \/ KeySet(q)
      BY <3>2 DEF Copy, Copied, Decrypted, KeySet, Goto, TypeOK, WriteReturns, Writing, KeyChange
    <3> QED
      BY <1>3, <3>1, <3>2
  <2> QED
    BY <2>3, <2>4, <2>5
<1> QED
  BY <1>1, <1>2, <1>3 DEF Process

\* The steps of a process keep Meeting.
LEMMA MeetingStep ==
  ASSUME TypeOK, Locals, Meeting, NEW x \in Procs, Process(x)
  PROVE  Meeting'
<1>1. SUFFICES ASSUME NEW p \in Procs, NEW q \in Procs, p # q, pc'[p] # "idle", pc'[q] # "idle"
               PROVE  Bytes(p)' \cap Bytes(q)' \subseteq clash'[p]
  BY DEF Meeting, Active
<1>2. \A y \in Procs \ {x} : pc'[y] = pc[y] /\ Bytes(y)' = Bytes(y)
  BY OthersStay
<1>3. pc[p] # "idle" /\ pc[q] # "idle" => Bytes(p) \cap Bytes(q) \subseteq clash[p]
  BY <1>1 DEF Meeting, Active
<1>4. CASE Write(x) \/ \E new \in Keys : SetKey(x, new)
  <2>1. clash' = [y \in Procs |-> IF y = x
                    THEN Bytes(x)' \cap UNION {Bytes(r) : r \in {r \in Procs \ {x} : pc[r] # "idle"}}
                    ELSE IF pc[y] = "idle" THEN clash[y] ELSE clash[y] \cup (Bytes(x)' \cap Bytes(y))]
    BY <1>4, BeginFacts DEF Meets
  <2>2. CASE p = x
    <3>1. Bytes(q)' = Bytes(q) /\ pc[q] # "idle" /\ q \in Procs \ {x}
      BY <1>1, <1>2, <2>2
    <3>2. clash'[p] = Bytes(x)' \cap UNION {Bytes(r) : r \in {r \in Procs \ {x} : pc[r] # "idle"}}
      BY <2>1, <2>2
    <3> QED
      BY <2>2, <3>1, <3>2
  <2>3. CASE q = x
    <3>1. Bytes(p)' = Bytes(p) /\ pc[p] # "idle"
      BY <1>1, <1>2, <2>3
    <3>2. clash'[p] = clash[p] \cup (Bytes(x)' \cap Bytes(p))
      BY <1>1, <2>1, <2>3, <3>1
    <3> QED
      BY <2>3, <3>1, <3>2
  <2>4. CASE p # x /\ q # x
    <3>1. Bytes(p)' = Bytes(p) /\ pc[p] # "idle" /\ Bytes(q)' = Bytes(q) /\ pc[q] # "idle"
      BY <1>1, <1>2, <2>4
    <3>2. clash[p] \subseteq clash'[p]
      BY <2>1, <2>4
    <3> QED
      BY <1>3, <3>1, <3>2
  <2> QED
    BY <2>2, <2>3, <2>4
<1>5. CASE ~ Write(x) /\ ~ \E new \in Keys : SetKey(x, new)
  <2>1. \A y \in Procs : pc'[y] # "idle" => pc[y] # "idle" /\ Bytes(y)' = Bytes(y) /\ clash'[y] = clash[y]
    BY <1>2, <1>5, GoOnFacts
  <2> QED
    BY <1>1, <1>3, <2>1
<1> QED
  BY <1>4, <1>5

\* The steps of a process keep Apart: what a write adds to sound was registered by
\* no other call.
LEMMA ApartStep ==
  ASSUME TypeOK, Locals, Meeting, Apart, NEW x \in Procs, Process(x)
  PROVE  Apart'
<1>1. \A y \in Procs \ {x} : pc'[y] = pc[y] /\ Bytes(y)' = Bytes(y)
  BY OthersStay
<1>2. \A y \in Procs : /\ pc[y] \in Writing => sound \cap Bytes(y) = {}
                       /\ pc[y] \in KeyChange => Bytes(y) = Page /\ pc[y] # "idle"
                       /\ pc[y] \in Writing => pc[y] # "idle"
                       /\ Bytes(y) \subseteq Page
  BY CallFacts DEF Apart, KeyChange, Writing
<1>3. \A p, q \in Procs : pc[p] \in KeyChange /\ pc[q] \in KeyChange /\ p # q => sound = {}
  BY DEF Apart
<1>4. sound \subseteq Page
  BY DEF TypeOK
<1>5. CASE Write(x) \/ \E new \in Keys : SetKey(x, new)
  <2>1. /\ pc[x] = "idle" /\ (pc'[x] = "copy" \/ pc'[x] = "decrypt_load")
        /\ sound' \subseteq sound \ (IF pc'[x] = "copy" THEN Bytes(x)'
                                     ELSE UNION {Bytes(r) : r \in {r \in Procs : pc[r] # "idle"}})
    BY <1>5, BeginFacts
  <2>2. ASSUME NEW p \in Procs, pc'[p] \in Writing PROVE sound' \cap Bytes(p)' = {}
    <3>1. CASE p = x
      BY <2>1, <2>2, <3>1 DEF Writing
    <3>2. CASE p # x
      BY <1>1, <1>2, <2>1, <2>2, <3>2
    <3> QED
      BY <3>1, <3>2
  <2>3. ASSUME NEW p \in Procs, NEW q \in Procs, pc'[p] \in KeyChange, pc'[q] \in KeyChange, p # q
        PROVE  sound' = {}
    <3>1. ASSUME NEW y \in Procs \ {x}, pc'[x] \in KeyChange, pc'[y] \in KeyChange PROVE sound' = {}
      <4>1. pc[y] # "idle" /\ Bytes(y) = Page
        BY <1>1, <1>2, <3>1
      <4>2. pc'[x] # "copy"
        BY <3>1 DEF KeyChange
      <4>3. Page \subseteq UNION {Bytes(r) : r \in {r \in Procs : pc[r] # "idle"}}
        BY <4>1
      <4> QED
        BY <1>4, <2>1, <4>2, <4>3
    <3>2. CASE p = x \/ q = x
      BY <2>3, <3>1, <3>2
    <3>3. CASE p # x /\ q # x
      BY <1>1, <1>3, <2>1, <2>3, <3>3
    <3> QED
      BY <3>2, <3>3
  <2> QED
    BY <2>2, <2>3 DEF Apart
<1>6. CASE ~ Write(x) /\ ~ \E new \in Keys : SetKey(x, new)
  <2>1. \A y \in Procs : pc'[y] # "idle" => /\ pc[y] # "idle" /\ Bytes(y)' = Bytes(y)
                                            /\ (pc'[y] \in Writing <=> pc[y] \in Writing)
                                            /\ (pc'[y] \in KeyChange <=> pc[y] \in KeyChange)
    BY <1>1, <1>6, GoOnFacts
  <2>2. CASE ~ WriteReturns(x)
    <3>1. sound' = sound
      BY <1>6, <2>2, GoOnFacts
    <3> QED
      BY <1>2, <1>3, <2>1, <3>1 DEF Apart, Writing, KeyChange
  <2>3. CASE WriteReturns(x)
    <3>1. sound' = sound \cup (WholeWords(x) \ clash[x]) /\ pc[x] # "idle" /\ pc'[x] = "idle"
      BY <1>6, <2>3, GoOnFacts DEF WriteReturns, Goto, TypeOK
    <3>2. WholeWords(x) \subseteq Bytes(x)
      BY DEF WholeWords
    <3>3. \A y \in Procs \ {x} : pc[y] # "idle" => Bytes(x) \cap Bytes(y) \subseteq clash[x]
      BY <3>1 DEF Meeting, Active
    <3>4. ASSUME NEW p \in Procs, pc'[p] \in Writing PROVE sound' \cap Bytes(p)' = {}
      <4>1. p # x /\ pc[p] \in Writing /\ Bytes(p)' = Bytes(p) /\ pc[p] # "idle"
        BY <1>1, <1>2, <3>1, <3>4 DEF Writing
      <4> QED
        BY <1>2, <3>1, <3>2, <3>3, <4>1
    <3>5. ASSUME NEW p \in Procs, NEW q \in Procs, pc'[p] \in KeyChange, pc'[q] \in KeyChange, p # q
          PROVE  sound' = {}
      <4>1. p # x /\ q # x
        BY <3>1, <3>5 DEF KeyChange
      <4>2. pc[p] \in KeyChange /\ pc[q] \in KeyChange
        BY <1>1, <3>5, <4>1
      <4>3. WholeWords(x) \subseteq clash[x]
        BY <1>2, <3>2, <3>3, <4>1, <4>2
      <4> QED
        BY <1>3, <3>1, <3>5, <4>2, <4>3
    <3> QED
      BY <3>4, <3>5 DEF Apart
  <2> QED
    BY <2>2, <2>3
<1> QED
  BY <1>5, <1>6

-----------------------------------------------------------------------------
(* What the bytes are like.                                                *)

\* A byte that is p's alone is not touched by others, nor is the key that it is under.
LEMMA Unshared ==
  ASSUME TypeOK, Locals, Meeting, NEW x \in Procs, Process(x),
         NEW p \in Procs, p # x, pc[p] # "idle", NEW b \in Bytes(p) \ clash'[p]
  PROVE  /\ b \in Bytes(p) \ clash[p] /\ key' = key
         /\ memory_buffer'[b] = memory_buffer[b] /\ plain'[b] = plain[b]
<1>1. clash[p] \subseteq clash'[p] /\ Bytes(p) \subseteq Page
  <2>1. CASE Write(x) \/ \E new \in Keys : SetKey(x, new)
    <3>1. Meets(x, Bytes(x)')
      BY <2>1, BeginFacts
    <3> QED
      BY <3>1, CallFacts DEF Meets
  <2>2. CASE ~ Write(x) /\ ~ \E new \in Keys : SetKey(x, new)
    BY <2>2, GoOnFacts, CallFacts
  <2> QED
    BY <2>1, <2>2
<1>2. pc[x] # "idle" => b \notin Bytes(x)
  BY <1>1 DEF Meeting, Active
<1>3. pc[x] = "idle" => memory_buffer' = memory_buffer /\ plain' = plain
  BY PageStep DEF Stores
<1>4. memory_buffer'[b] = memory_buffer[b] /\ plain'[b] = plain[b]
  BY <1>1, <1>2, <1>3, PageStep
<1>5. pc[x] # "set_key"
  BY <1>1, <1>2, CallFacts DEF KeyChange
<1> QED
  BY <1>1, <1>4, <1>5, KeyStep

\* What a load of encrypt_memory does: it has the bytes of the word as they are.
LEMMA LoadFacts ==
  ASSUME TypeOK, Locals, NEW q \in Procs, Load(q)
  PROVE  /\ pc[q] \in Loads /\ pc'[q] = Alternate(pc[q]) /\ call'[q].by = call[q].by
         /\ call'[q].first = call[q].first /\ Reached(q)' = Reached(q)
         /\ memory_buffer' = memory_buffer /\ plain' = plain /\ key' = key
         /\ \A b \in Reached(q) .. (Reached(q) + W - 1) : call'[q].reg[b - Reached(q)] = memory_buffer[b]
<1> USE SizeFacts
<1> DEFINE r == [j \in 0..(W - 1) |-> memory_buffer[Word(q)[j]]]
<1>1. /\ call'[q] = [call[q] EXCEPT !.reg = r] /\ pc'[q] = Alternate(pc[q]) /\ pc[q] \in Loads
      /\ call[q].i < call[q].count \div W /\ memory_buffer' = memory_buffer /\ plain' = plain /\ key' = key
  BY DEF Load, Goto, TypeOK
<1>2. Word(q) = [j \in 0..(W - 1) |-> Reached(q) + j] /\ Reached(q) \in Nat
  BY <1>1, WordFacts
<1>3. \A b \in Reached(q) .. (Reached(q) + W - 1) : r[b - Reached(q)] = memory_buffer[b]
  <2>1. ASSUME NEW b \in Reached(q) .. (Reached(q) + W - 1)
        PROVE  b - Reached(q) \in 0..(W - 1) /\ Reached(q) + (b - Reached(q)) = b
    BY <1>2
  <2> QED
    BY <1>2, <2>1
<1> HIDE DEF r
<1>4. /\ call'[q].reg = r /\ call'[q].by = call[q].by /\ call'[q].first = call[q].first
      /\ call'[q].i = call[q].i
  BY <1>1, CallFacts DEF Calls
<1> QED
  BY <1>1, <1>3, <1>4 DEF Reached

\* What a store of encrypt_memory does: the word as it was loaded, with the key.
LEMMA StoreFacts ==
  ASSUME TypeOK, Locals, NEW q \in Procs, Store(q)
  PROVE  /\ pc[q] \in Stores /\ pc'[q] = Alternate(pc[q]) /\ call'[q].by = call[q].by
         /\ call'[q].first = call[q].first /\ Reached(q)' = Reached(q) + W /\ Reached(q) \in Nat
         /\ plain' = plain /\ key' = key
         /\ \A b \in Page : memory_buffer'[b] =
              IF b \in Reached(q) .. (Reached(q) + W - 1)
              THEN Xor(call[q].reg[b - Reached(q)], call[q].by[b - Reached(q)]) ELSE memory_buffer[b]
<1> USE SizeFacts
<1>1. /\ call'[q] = [call[q] EXCEPT !.i = call[q].i + 1, !.reg = ZeroKey] /\ pc'[q] = Alternate(pc[q])
      /\ pc[q] \in Stores /\ plain' = plain /\ key' = key
  BY DEF Store, Goto, TypeOK
<1>2. call[q].i < call[q].count \div W
  BY <1>1 DEF Locals, LocalsOf
<1>3. /\ Word(q) = [j \in 0..(W - 1) |-> Reached(q) + j] /\ Reached(q) \in Nat
      /\ call[q].first + W * (call[q].i + 1) = Reached(q) + W
  BY <1>2, WordFacts
<1>4. Word(q)[0] = Reached(q)
  BY <1>3
<1>5. /\ call'[q].by = call[q].by /\ call'[q].first = call[q].first /\ call'[q].i = call[q].i + 1
  BY <1>1, CallFacts DEF Calls
<1>6. Reached(q)' = Reached(q) + W
  BY <1>3, <1>5 DEF Reached
<1>7. \A b \in Page : memory_buffer'[b] =
        IF b \in Reached(q) .. (Reached(q) + W - 1)
        THEN Xor(call[q].reg[b - Reached(q)], call[q].by[b - Reached(q)]) ELSE memory_buffer[b]
  BY <1>4 DEF Store
<1> QED
  BY <1>1, <1>3, <1>5, <1>6, <1>7

\* The byte of a word at which a store is meets its byte of the key, when the call
\* began at a word of the page.
LEMMA StorePhase ==
  ASSUME TypeOK, Locals, NEW q \in Procs, Store(q), call[q].first % W = 0, call[q].by = key,
         NEW b \in Page, InReg(q, b), b \in Reached(q) .. (Reached(q) + W - 1)
  PROVE  /\ memory_buffer'[b] = Xor(memory_buffer[b], key[b % W])
         /\ memory_buffer[b] \in BOOLEAN /\ plain[b] \in BOOLEAN /\ key[b % W] \in BOOLEAN
<1> USE SizeFacts
<1>1. b - Reached(q) \in 0..(W - 1) /\ Reached(q) \in Nat /\ Reached(q) + (b - Reached(q)) = b
  BY StoreFacts
<1>2. (call[q].first + W * call[q].i + (b - Reached(q))) % W = b - Reached(q)
  <2>1. call[q].first \in Nat /\ call[q].i \in Nat
    BY CallFacts
  <2> QED
    BY <1>1, <2>1, PhaseOf
<1>3. b % W = b - Reached(q)
  BY <1>1, <1>2 DEF Reached
<1>4. memory_buffer'[b] = Xor(call[q].reg[b - Reached(q)], call[q].by[b - Reached(q)])
  BY StoreFacts
<1>5. memory_buffer[b] \in BOOLEAN /\ plain[b] \in BOOLEAN /\ key[b % W] \in BOOLEAN
  BY <1>1, <1>3 DEF TypeOK, Key
<1> QED
  BY <1>3, <1>4, <1>5 DEF InReg

\* A writer has its own bytes as Written says.
LEMMA WrittenStep ==
  ASSUME TypeOK, Locals, Meeting, Written, NEW x \in Procs, Process(x)
  PROVE  Written'
<1> USE SizeFacts
<1>1. SUFFICES ASSUME NEW p \in Procs, pc'[p] \in Writing, NEW b \in Bytes(p)' \ clash'[p]
               PROVE  Own(p, b)'
  BY DEF Written
<1>2. CASE p # x
  <2>1. pc'[p] = pc[p] /\ call'[p] = call[p] /\ Bytes(p)' = Bytes(p) /\ Reached(p)' = Reached(p) /\ pc[p] # "idle"
    BY <1>1, <1>2, OthersStay DEF Writing
  <2>2. /\ b \in Bytes(p) \ clash[p] /\ key' = key
        /\ memory_buffer'[b] = memory_buffer[b] /\ plain'[b] = plain[b]
    BY <1>1, <1>2, <2>1, Unshared
  <2>3. Own(p, b)
    BY <1>1, <2>1, <2>2 DEF Written
  <2> QED
    BY <2>1, <2>2, <2>3 DEF Own, Open, Sealed, InReg
<1>3. CASE p = x /\ (Write(x) \/ \E new \in Keys : SetKey(x, new))
  <2>1. pc'[p] = "copy" /\ call'[p].i = 0 /\ call'[p].first \in Nat
    BY <1>1, <1>3, BeginFacts, BeginLocals DEF Writing, Calls
  <2>2. ~ b < call'[p].first + call'[p].i
    BY <1>1, <2>1 DEF Bytes
  <2> QED
    BY <2>1, <2>2 DEF Own
<1>4. CASE p = x /\ ~ Write(x) /\ ~ \E new \in Keys : SetKey(x, new)
  <2>1. pc[p] \in Writing /\ Bytes(p)' = Bytes(p) /\ clash'[p] = clash[p] /\ pc[p] # "idle" /\ pc'[p] # "idle"
    BY <1>1, <1>4, GoOnFacts DEF Writing
  <2>2. Own(p, b) /\ b \in Bytes(p) /\ b \in Page /\ b \in Int
    <3>1. Own(p, b) /\ b \in Bytes(p)
      BY <1>1, <2>1 DEF Written
    <3> QED
      BY <3>1, CallFacts DEF Page
  <2>3. /\ call[p] \in Calls /\ call[p].first \in Nat /\ call[p].i \in Nat
        /\ memory_buffer \in [Page -> BOOLEAN] /\ plain \in [Page -> BOOLEAN]
    BY CallFacts DEF TypeOK
  <2>4. CASE Copy(p)
    <3>1. /\ pc'[p] = "copy" /\ pc[p] = "copy" /\ call'[p].first = call[p].first /\ call'[p].i = call[p].i + 1
      BY <2>3, <2>4 DEF Copy, TypeOK, Calls
    <3>2. /\ memory_buffer' = [memory_buffer EXCEPT ![call[p].first + call[p].i] = call[p].data]
          /\ plain' = [plain EXCEPT ![call[p].first + call[p].i] = call[p].data]
      BY <2>4 DEF Copy
    <3>3. CASE b = call[p].first + call[p].i
      BY <2>2, <2>3, <3>1, <3>2, <3>3 DEF Own, Open
    <3>4. CASE b # call[p].first + call[p].i
      <4>1. memory_buffer'[b] = memory_buffer[b] /\ plain'[b] = plain[b]
        BY <2>2, <2>3, <3>2, <3>4
      <4>2. b < call'[p].first + call'[p].i => b < call[p].first + call[p].i
        BY <2>2, <2>3, <3>1, <3>4
      <4> QED
        BY <2>2, <3>1, <4>1, <4>2 DEF Own, Open
    <3> QED
      BY <3>3, <3>4
  <2>5. CASE Copied(p)
    <3>1. /\ pc[p] = "copy" /\ pc'[p] = "write_load" /\ call[p].i = call[p].count
          /\ memory_buffer' = memory_buffer /\ plain' = plain /\ key' = key
          /\ call'[p] = [call[p] EXCEPT !.i = 0, !.by = key]
      BY <2>5 DEF Copied, Goto, TypeOK
    <3>2. call'[p].first = call[p].first /\ call'[p].i = 0 /\ call'[p].by = key
      BY <2>3, <3>1 DEF Calls
    <3>3. Open(b)
      BY <2>2, <2>3, <3>1 DEF Own, Bytes
    <3>4. Reached(p)' = call[p].first /\ ~ b < Reached(p)'
      BY <2>2, <2>3, <3>2 DEF Reached, Bytes
    <3> QED
      BY <3>1, <3>2, <3>3, <3>4 DEF Own, Open
  <2>6. CASE Load(p)
    <3>1. pc[p] = "write_load" /\ pc'[p] = "write_store"
      BY <2>1, <2>6, LoadFacts, AlternateFacts DEF Writing, Loads
    <3> QED
      BY <2>2, <2>6, <3>1, LoadFacts DEF Own, Open, Sealed, InReg
  <2>7. CASE Store(p)
    <3>1. pc[p] = "write_store" /\ pc'[p] = "write_load"
      BY <2>1, <2>7, StoreFacts, AlternateFacts DEF Writing, Stores
    <3>2. /\ call'[p].by = call[p].by /\ call'[p].first = call[p].first /\ key' = key /\ plain' = plain
          /\ Reached(p)' = Reached(p) + W /\ Reached(p) \in Nat
      BY <2>7, StoreFacts
    <3>3. CASE b \in Reached(p) .. (Reached(p) + W - 1)
      <4>1. call[p].by = key /\ Open(b) /\ InReg(p, b)
        BY <2>2, <3>1, <3>2, <3>3 DEF Own
      <4>2. ASSUME call[p].first % W = 0 PROVE memory_buffer'[b] = Xor(plain[b], key[b % W])
        <5>1. memory_buffer'[b] = Xor(memory_buffer[b], key[b % W])
          BY <2>2, <2>7, <3>3, <4>1, <4>2, StorePhase
        <5> QED
          BY <4>1, <5>1 DEF Open
      <4>3. b < Reached(p)' /\ ~ b >= Reached(p)'
        BY <2>2, <3>2, <3>3
      <4> QED
        BY <3>1, <3>2, <4>1, <4>2, <4>3 DEF Own, Sealed
    <3>4. CASE b \notin Reached(p) .. (Reached(p) + W - 1)
      <4>1. memory_buffer'[b] = memory_buffer[b]
        BY <2>2, <2>7, <3>4, StoreFacts
      <4>2. b < Reached(p)' <=> b < Reached(p)
        BY <2>2, <3>2, <3>4
      <4>3. b >= Reached(p)' <=> b >= Reached(p)
        BY <2>2, <3>2, <3>4
      <4> QED
        BY <2>2, <3>1, <3>2, <4>1, <4>2, <4>3 DEF Own, Open, Sealed
    <3> QED
      BY <3>3, <3>4
  <2>8. CASE Read(p) \/ CopyFails(p) \/ WriteReturns(p) \/ IoctlReturns(p)
    BY <2>1, <2>8 DEF Read, Calling, CopyFails, WriteReturns, IoctlReturns, Goto, TypeOK
  <2>9. CASE Decrypted(p) \/ KeySet(p)
    BY <2>1, <2>9 DEF Decrypted, KeySet, Writing
  <2> QED
    BY <1>4, <2>4, <2>5, <2>6, <2>7, <2>8, <2>9 DEF Process
<1> QED
  BY <1>2, <1>3, <1>4

\* A sound byte that is not at p's call: p leaves it alone, and the key too unless p
\* changes it.
LEMMA SoundStays ==
  ASSUME TypeOK, Locals, Apart, NEW x \in Procs, Process(x), NEW b \in sound, pc[x] \notin KeyChange
  PROVE  memory_buffer'[b] = memory_buffer[b] /\ plain'[b] = plain[b] /\ key' = key
<1>1. b \in Page
  BY DEF TypeOK
<1>2. pc[x] # "set_key" /\ (pc[x] \in Stores => pc[x] = "write_store")
  BY DEF KeyChange, Stores
<1>3. CASE pc[x] \in {"copy"} \cup Stores
  <2>1. b \notin Bytes(x)
    BY <1>2, <1>3 DEF Apart, Writing
  <2> QED
    BY <1>1, <1>2, <2>1, PageStep, KeyStep
<1>4. CASE pc[x] \notin {"copy"} \cup Stores
  BY <1>2, <1>4, PageStep, KeyStep
<1> QED
  BY <1>3, <1>4

\* A change of key has the sound bytes as Changed says.
LEMMA ChangedStep ==
  ASSUME TypeOK, Locals, Meeting, Apart, StoredUnderKey, Changed, NEW x \in Procs, Process(x)
  PROVE  Changed'
<1> USE SizeFacts
<1>1. SUFFICES ASSUME NEW p \in Procs, pc'[p] \in KeyChange, NEW b \in sound'
               PROVE  Half(p, b)'
  BY DEF Changed
<1>2. CASE p # x
  <2>1. /\ pc'[p] = pc[p] /\ call'[p] = call[p] /\ Reached(p)' = Reached(p)
        /\ pc[p] # "idle" /\ Bytes(p) = Page
    BY <1>1, <1>2, OthersStay, CallFacts DEF KeyChange
  <2>2. b \in sound
    <3>1. CASE Write(x) \/ \E new \in Keys : SetKey(x, new)
      BY <1>1, <3>1, BeginFacts
    <3>2. CASE ~ Write(x) /\ ~ (\E new \in Keys : SetKey(x, new)) /\ ~ WriteReturns(x)
      BY <1>1, <3>2, GoOnFacts
    <3>3. CASE WriteReturns(x)
      <4>1. pc[x] # "idle" /\ WholeWords(x) \subseteq Bytes(x) /\ Bytes(x) \subseteq Page
        BY <3>3, CallFacts DEF WriteReturns, WholeWords
      <4>2. Bytes(x) \subseteq clash[x]
        BY <1>2, <2>1, <4>1 DEF Meeting, Active
      <4>3. sound' = sound \cup (WholeWords(x) \ clash[x])
        BY <3>3 DEF WriteReturns
      <4> QED
        BY <1>1, <4>1, <4>2, <4>3
    <3> QED
      BY <3>1, <3>2, <3>3
  <2>3. pc[x] \notin KeyChange
    BY <1>1, <1>2, <2>1, <2>2 DEF Apart
  <2>4. memory_buffer'[b] = memory_buffer[b] /\ plain'[b] = plain[b] /\ key' = key
    BY <2>2, <2>3, SoundStays
  <2>5. Half(p, b)
    BY <1>1, <2>1, <2>2 DEF Changed
  <2> QED
    BY <2>1, <2>4, <2>5 DEF Half, Open, Sealed, InReg
<1>3. ASSUME p = x, NEW new \in Keys, SetKey(x, new) PROVE Half(p, b)'
  <2>1. /\ pc'[p] = "decrypt_load" /\ call'[p] = [Idle EXCEPT !.count = PAGE_SIZE, !.by = key, !.new = new]
        /\ memory_buffer' = memory_buffer /\ plain' = plain /\ key' = key
        /\ sound' = sound \ UNION {Bytes(q) : q \in {r \in Procs : pc[r] # "idle"}}
    BY <1>3 DEF SetKey, Goto, TypeOK
  <2>2. call'[p].by = key /\ call'[p].first = 0 /\ call'[p].i = 0
    BY <2>1 DEF Idle
  <2>3. b \in sound /\ b \in Page
    BY <1>1, <2>1 DEF TypeOK
  <2>4. \A y \in Procs : pc[y] \notin KeyChange
    <3>1. ASSUME NEW y \in Procs, pc[y] \in KeyChange PROVE FALSE
      <4>1. Bytes(y) = Page /\ pc[y] # "idle"
        BY <3>1, CallFacts DEF KeyChange
      <4> QED
        BY <1>1, <2>1, <2>3, <4>1
    <3> QED
      BY <3>1
  <2>5. Sealed(b)
    BY <2>3, <2>4 DEF StoredUnderKey, Sealed
  <2>6. ~ b < Reached(p)'
    BY <2>2, <2>3 DEF Reached, Page
  <2> QED
    BY <2>1, <2>2, <2>5, <2>6 DEF Half, Sealed, Stores
<1>4. CASE p = x /\ ~ Write(x) /\ ~ \E new \in Keys : SetKey(x, new)
  <2>1. pc[p] \in KeyChange /\ pc'[p] # "idle"
    BY <1>1, <1>4, GoOnFacts DEF KeyChange
  <2>2. /\ call[p].first = 0 /\ call[p].count = PAGE_SIZE /\ call[p].first % W = 0
        /\ call[p] \in Calls /\ call[p].i \in Nat /\ W * (PAGE_SIZE \div W) = PAGE_SIZE
    <3>1. call[p].first = 0 /\ call[p].count = PAGE_SIZE
      BY <2>1 DEF Locals, LocalsOf
    <3>2. 0 % W = 0
      OBVIOUS
    <3> QED
      BY <3>1, <3>2, CallFacts, WordsCovered
  <2>3. b \in sound /\ Half(p, b) /\ b \in Page /\ b \in 0..(PAGE_SIZE - 1)
    <3>1. ~ WriteReturns(x)
      BY <1>4, <2>1 DEF WriteReturns, KeyChange
    <3>2. sound' = sound
      BY <1>4, <3>1, GoOnFacts
    <3> QED
      BY <1>1, <2>1, <3>2 DEF Changed, TypeOK, Page
  <2>4. CASE Load(p)
    <3>1. (pc[p] = "decrypt_load" /\ pc'[p] = "decrypt_store") \/ (pc[p] = "encrypt_load" /\ pc'[p] = "encrypt_store")
      BY <2>1, <2>4, LoadFacts, AlternateFacts DEF KeyChange, Loads
    <3> QED
      BY <2>3, <2>4, <3>1, LoadFacts DEF Half, Open, Sealed, InReg
  <2>5. CASE Store(p)
    <3>1. (pc[p] = "decrypt_store" /\ pc'[p] = "decrypt_load") \/ (pc[p] = "encrypt_store" /\ pc'[p] = "encrypt_load")
      BY <2>1, <2>5, StoreFacts, AlternateFacts DEF KeyChange, Stores
    <3>2. /\ call'[p].by = call[p].by /\ key' = key /\ plain' = plain
          /\ Reached(p)' = Reached(p) + W /\ Reached(p) \in Nat
      BY <2>5, StoreFacts
    <3>3. call[p].by = key /\ InReg(p, b)
      BY <2>3, <3>1 DEF Half, Stores
    <3>4. CASE b \in Reached(p) .. (Reached(p) + W - 1)
      <4>1. /\ memory_buffer'[b] = Xor(memory_buffer[b], key[b % W])
            /\ memory_buffer[b] \in BOOLEAN /\ plain[b] \in BOOLEAN /\ key[b % W] \in BOOLEAN
        BY <2>2, <2>3, <2>5, <3>3, <3>4, StorePhase
      <4>2. b < Reached(p)' /\ ~ b < Reached(p)
        BY <2>3, <3>2, <3>4
      <4>3. CASE pc[p] = "decrypt_store"
        <5>1. memory_buffer[b] = Xor(plain[b], key[b % W])
          BY <2>3, <4>2, <4>3 DEF Half, Sealed
        <5>2. memory_buffer'[b] = plain[b]
          BY <4>1, <5>1, XorFacts
        <5> QED
          BY <3>1, <3>2, <3>3, <4>2, <4>3, <5>2 DEF Half, Open, Stores
      <4>4. CASE pc[p] = "encrypt_store"
        <5>1. memory_buffer[b] = plain[b]
          BY <2>3, <4>2, <4>4 DEF Half, Open
        <5>2. memory_buffer'[b] = Xor(plain[b], key[b % W])
          BY <4>1, <5>1
        <5> QED
          BY <3>1, <3>2, <3>3, <4>2, <4>4, <5>2 DEF Half, Sealed, Stores
      <4> QED
        BY <3>1, <4>3, <4>4
    <3>5. CASE b \notin Reached(p) .. (Reached(p) + W - 1)
      <4>1. memory_buffer'[b] = memory_buffer[b]
        BY <2>3, <2>5, <3>5, StoreFacts
      <4>2. b < Reached(p)' <=> b < Reached(p)
        BY <2>3, <3>2, <3>5
      <4> QED
        BY <2>3, <3>1, <3>2, <3>3, <4>1, <4>2 DEF Half, Open, Sealed, Stores
    <3> QED
      BY <3>4, <3>5
  <2>6. CASE Decrypted(p)
    <3>1. /\ pc'[p] = "set_key" /\ pc[p] = "decrypt_load" /\ call[p].i = PAGE_SIZE \div W
          /\ memory_buffer' = memory_buffer /\ plain' = plain
      BY <2>2, <2>6 DEF Decrypted, Goto, TypeOK
    <3>2. Reached(p) = PAGE_SIZE
      BY <2>2, <3>1 DEF Reached
    <3>3. b < Reached(p)
      BY <2>3, <3>2
    <3>4. Open(b)
      BY <2>3, <3>1, <3>3 DEF Half
    <3> QED
      BY <3>1, <3>4 DEF Half, Open, Stores
  <2>7. CASE KeySet(p)
    <3>1. /\ pc'[p] = "encrypt_load" /\ pc[p] = "set_key" /\ key' = call[p].new
          /\ memory_buffer' = memory_buffer /\ plain' = plain
          /\ call'[p] = [call[p] EXCEPT !.i = 0, !.by = call[p].new]
      BY <2>7 DEF KeySet, Goto, TypeOK
    <3>2. call'[p].first = 0 /\ call'[p].i = 0 /\ call'[p].by = key'
      BY <2>2, <3>1 DEF Calls
    <3>3. ~ b < Reached(p)'
      BY <2>3, <3>2 DEF Reached
    <3>4. Open(b)
      BY <2>3, <3>1 DEF Half
    <3> QED
      BY <3>1, <3>2, <3>3, <3>4 DEF Half, Open, Stores
  <2>8. CASE Read(p) \/ CopyFails(p) \/ WriteReturns(p) \/ IoctlReturns(p)
    BY <2>1, <2>8 DEF Read, Calling, CopyFails, WriteReturns, IoctlReturns, Goto, TypeOK, KeyChange
  <2>9. CASE Copy(p) \/ Copied(p)
    BY <2>1, <2>9 DEF Copy, Copied, KeyChange
  <2> QED
    BY <1>4, <2>4, <2>5, <2>6, <2>7, <2>8, <2>9 DEF Process
<1>5. CASE p = x /\ Write(x)
  BY <1>1, <1>5 DEF Write, Goto, TypeOK, KeyChange
<1> QED
  BY <1>2, <1>3, <1>4, <1>5

\* When nobody changes the key, the sound bytes are stored under it.
LEMMA StoredStep ==
  ASSUME TypeOK, Locals, Apart, Written, StoredUnderKey, Changed, NEW x \in Procs, Process(x)
  PROVE  StoredUnderKey'
<1> USE SizeFacts
<1>1. SUFFICES ASSUME \A p \in Procs : pc'[p] \notin KeyChange, NEW b \in sound'
               PROVE  Sealed(b)'
  BY DEF StoredUnderKey, Sealed
<1>2. \A p \in Procs \ {x} : pc[p] \notin KeyChange
  BY <1>1, OthersStay
<1>3. pc'[x] \notin KeyChange
  BY <1>1
<1>4. CASE pc[x] \notin KeyChange /\ ~ WriteReturns(x)
  <2>1. b \in sound
    <3>1. CASE Write(x) \/ \E new \in Keys : SetKey(x, new)
      BY <1>1, <3>1, BeginFacts
    <3>2. CASE ~ Write(x) /\ ~ (\E new \in Keys : SetKey(x, new))
      BY <1>1, <1>4, <3>2, GoOnFacts
    <3> QED
      BY <3>1, <3>2
  <2>2. Sealed(b)
    BY <1>2, <1>4, <2>1 DEF StoredUnderKey, Sealed
  <2>3. memory_buffer'[b] = memory_buffer[b] /\ plain'[b] = plain[b] /\ key' = key
    BY <1>4, <2>1, SoundStays
  <2> QED
    BY <2>2, <2>3 DEF Sealed
<1>5. CASE WriteReturns(x)
  <2>1. /\ pc[x] = "write_load" /\ call[x].i = call[x].count \div W
        /\ memory_buffer' = memory_buffer /\ plain' = plain /\ key' = key
        /\ sound' = sound \cup (WholeWords(x) \ clash[x])
    BY <1>5 DEF WriteReturns
  <2>2. Sealed(b)
    <3>1. CASE b \in sound
      <4>1. \A p \in Procs : pc[p] \notin KeyChange
        BY <1>2, <2>1 DEF KeyChange
      <4> QED
        BY <3>1, <4>1 DEF StoredUnderKey, Sealed
    <3>2. CASE b \in WholeWords(x) \ clash[x]
      <4>1. /\ call[x].first % W = 0 /\ b \in Bytes(x) \ clash[x]
            /\ b < call[x].first + W * (call[x].count \div W)
        BY <3>2 DEF WholeWords
      <4>2. b < Reached(x)
        BY <2>1, <4>1 DEF Reached
      <4>3. Own(x, b)
        BY <2>1, <4>1 DEF Written, Writing
      <4> QED
        BY <2>1, <4>1, <4>2, <4>3 DEF Own
    <3> QED
      BY <1>1, <2>1, <3>1, <3>2
  <2> QED
    BY <2>1, <2>2 DEF Sealed
<1>6. CASE pc[x] \in KeyChange
  <2>1. IoctlReturns(x)
    <3>1. CASE Load(x) \/ Store(x)
      <4>1. pc'[x] \in KeyChange
        BY <1>6, <3>1, LoadFacts, StoreFacts, AlternateFacts
      <4> QED
        BY <1>3, <4>1
    <3>2. CASE Decrypted(x) \/ KeySet(x)
      BY <1>3, <3>2 DEF Decrypted, KeySet, Goto, TypeOK, KeyChange
    <3>3. CASE Read(x) \/ Write(x) \/ \E new \in Keys : SetKey(x, new)
      BY <1>6, <3>3 DEF Read, Write, SetKey, Calling, KeyChange
    <3>4. CASE Copy(x) \/ CopyFails(x) \/ Copied(x) \/ WriteReturns(x)
      BY <1>6, <3>4 DEF Copy, CopyFails, Copied, WriteReturns, KeyChange
    <3> QED
      BY <3>1, <3>2, <3>3, <3>4 DEF Process
  <2>2. /\ pc[x] = "encrypt_load" /\ call[x].i = call[x].count \div W /\ sound' = sound
        /\ memory_buffer' = memory_buffer /\ plain' = plain /\ key' = key
    BY <2>1 DEF IoctlReturns
  <2>3. call[x].first = 0 /\ call[x].count = PAGE_SIZE
    BY <1>6 DEF Locals, LocalsOf
  <2>4. Reached(x) = PAGE_SIZE
    BY <2>2, <2>3, WordsCovered DEF Reached
  <2>5. b \in sound /\ b < Reached(x)
    <3>1. b \in sound /\ b \in Page
      BY <1>1, <2>2 DEF TypeOK
    <3> QED
      BY <2>4, <3>1 DEF Page
  <2>6. Half(x, b)
    BY <1>6, <2>5 DEF Changed
  <2>7. Sealed(b)
    BY <2>2, <2>5, <2>6 DEF Half
  <2> QED
    BY <2>2, <2>7 DEF Sealed
<1> QED
  BY <1>4, <1>5, <1>6

\* Every step of a process keeps the invariant.
LEMMA ProcessInv ==
  ASSUME IInv, NEW x \in Procs, Process(x)
  PROVE  IInv'
<1>1. TypeOK /\ NothingLeftBehind /\ Locals /\ Meeting /\ Apart /\ Written /\ StoredUnderKey /\ Changed
  BY DEF IInv
<1>2. TypeOK' /\ NothingLeftBehind' /\ Locals'
  BY <1>1, ProcessType
<1>3. Meeting' /\ Apart'
  BY <1>1, MeetingStep, ApartStep
<1>4. Written' /\ StoredUnderKey' /\ Changed'
  BY <1>1, WrittenStep, StoredStep, ChangedStep
<1> QED
  BY <1>2, <1>3, <1>4 DEF IInv

-----------------------------------------------------------------------------
(* The module.                                                             *)

\* While the module is not in the kernel, and when it leaves it, nobody is in a call.
LEMMA NobodyCalls ==
  ASSUME TypeOK, Locals, Module
  PROVE  /\ \A p \in Procs : pc[p] = "idle"
         /\ pc' = pc /\ call' = call /\ calls' = calls /\ clash' = clash
         /\ offset' \in [Procs -> 0..PAGE_SIZE]
<1>1. /\ pc' = pc /\ call' = call /\ calls' = calls /\ clash' = clash
      /\ offset' = offset \/ offset' = [p \in Procs |-> 0]
  BY DEF Module, AllocRegion, Unchecked, CreateClass, CreateDevice, AddCdev, AllocBuffer,
         AllocBufferFails, Unload, files
<1>2. loader # "loaded" \/ \A p \in Procs : pc[p] = "idle"
  BY DEF Module, AllocRegion, Unchecked, CreateClass, CreateDevice, AddCdev, AllocBuffer,
         AllocBufferFails, Unload
<1>3. loader # "loaded" => \A p \in Procs : pc[p] = "idle"
  BY DEF Locals, LocalsOf, Active
<1> QED
  BY <1>1, <1>2, <1>3, SizeFacts DEF TypeOK

\* What the module acquires and releases.
LEMMA ModuleHolds ==
  ASSUME TypeOK, NothingLeftBehind, Module
  PROVE  /\ loader' \in {"out", "class", "device", "cdev", "buffer", "loaded", "oops"}
         /\ acquired' \subseteq {"region", "class", "device", "cdev", "buffer"}
         /\ NothingLeftBehind'
<1>1. /\ loader \in {"out", "class", "device", "cdev", "buffer", "loaded", "oops"}
      /\ acquired \subseteq {"region", "class", "device", "cdev", "buffer"}
  BY DEF TypeOK
<1>2. CASE AllocRegion
  BY <1>1, <1>2 DEF AllocRegion, NothingLeftBehind, module
<1>3. CASE CreateClass \/ CreateDevice \/ AddCdev
  BY <1>1, <1>3 DEF CreateClass, CreateDevice, AddCdev, Unchecked, NothingLeftBehind
<1>4. CASE AllocBuffer
  BY <1>1, <1>4 DEF AllocBuffer, NothingLeftBehind
<1>5. CASE AllocBufferFails \/ Unload
  BY <1>1, <1>5 DEF AllocBufferFails, Unload, Release, NothingLeftBehind
<1> QED
  BY <1>2, <1>3, <1>4, <1>5 DEF Module

\* What the steps of the module do to the page.
LEMMA ModulePage ==
  ASSUME TypeOK, Module
  PROVE  /\ memory_buffer' \in [Page -> BOOLEAN] /\ plain' \in [Page -> BOOLEAN]
         /\ key' \in Key /\ sound' \subseteq Page
         /\ \/ sound' = {}
            \/ key' = ZeroKey /\ plain' = memory_buffer'
            \/ UNCHANGED page /\ key' = key
<1>1. NoBytes \in [Page -> BOOLEAN]
  BY DEF NoBytes
<1>2. CASE AllocBuffer
  BY <1>2, IdleFacts DEF AllocBuffer
<1>3. CASE Unload
  BY <1>1, <1>3, IdleFacts DEF Unload
<1>4. CASE AllocRegion \/ CreateClass \/ CreateDevice \/ AddCdev \/ AllocBufferFails
  BY <1>4 DEF TypeOK, AllocRegion, CreateClass, CreateDevice, AddCdev, AllocBufferFails, Unchecked, page
<1> QED
  BY <1>2, <1>3, <1>4 DEF Module

\* Every step of the module keeps the invariant.
LEMMA ModuleInv ==
  ASSUME IInv, Module
  PROVE  IInv'
<1> USE SizeFacts
<1>1. TypeOK /\ NothingLeftBehind /\ Locals /\ StoredUnderKey
  BY DEF IInv
<1>2. \A p \in Procs : pc[p] = "idle" /\ pc'[p] = "idle"
  BY <1>1, NobodyCalls
<1>3. TypeOK' /\ NothingLeftBehind'
  BY <1>1, NobodyCalls, ModuleHolds, ModulePage DEF TypeOK
<1>4. Locals'
  <2>1. ASSUME NEW p \in Procs PROVE LocalsOf(p)'
    <3>1. call'[p] = call[p] /\ LocalsOf(p) /\ pc[p] = "idle" /\ pc'[p] = "idle"
      BY <1>1, <1>2, NobodyCalls DEF Locals
    <3> QED
      BY <3>1 DEF LocalsOf, Active, Loads, Stores, KeyChange, Writing
  <2> QED
    BY <2>1 DEF Locals
<1>5. Meeting' /\ Apart' /\ Written' /\ Changed'
  BY <1>2 DEF Meeting, Apart, Written, Changed, Active, Writing, KeyChange
<1>6. StoredUnderKey'
  <2>1. SUFFICES ASSUME NEW b \in sound' PROVE Sealed(b)'
    BY DEF StoredUnderKey, Sealed
  <2>2. CASE key' = ZeroKey /\ plain' = memory_buffer'
    <3>1. b \in Nat /\ b % W \in 0..(W - 1) /\ plain'[b] \in BOOLEAN
      BY <1>3, <2>1 DEF TypeOK, Page
    <3>2. key'[b % W] = FALSE
      BY <2>2, <3>1 DEF ZeroKey
    <3> QED
      BY <2>2, <3>1, <3>2, XorFacts DEF Sealed
  <2>3. CASE UNCHANGED page /\ key' = key
    <3>1. Sealed(b)
      BY <1>1, <1>2, <2>1, <2>3 DEF StoredUnderKey, Sealed, page, KeyChange
    <3> QED
      BY <2>3, <3>1 DEF Sealed, page
  <2> QED
    BY <1>1, <2>1, <2>2, <2>3, ModulePage
<1> QED
  BY <1>1, <1>3, <1>4, <1>5, <1>6 DEF IInv

\* The invariant holds when the machine starts.
LEMMA InitInv == Init => IInv
<1> USE SizeFacts
<1> SUFFICES ASSUME Init PROVE IInv
  OBVIOUS
<1>1. \A p \in Procs : pc[p] = "idle" /\ call[p] = Idle
  BY DEF Init
<1>2. TypeOK
  <2>1. NoBytes \in [Page -> BOOLEAN] /\ 0 \in 0..MaxCalls
    BY CharDeviceAssumption DEF NoBytes
  <2> QED
    BY <2>1, IdleFacts DEF Init, TypeOK, Labels
<1>3. NothingLeftBehind /\ StoredUnderKey
  BY DEF Init, NothingLeftBehind, StoredUnderKey
<1>4. Locals
  BY <1>1, IdleFacts DEF Locals, LocalsOf, Active, Loads, Stores, KeyChange, Writing
<1>5. Meeting /\ Apart /\ Written /\ Changed
  BY <1>1 DEF Meeting, Apart, Written, Changed, Active, Writing, KeyChange
<1> QED
  BY <1>2, <1>3, <1>4, <1>5 DEF IInv

\* Every step keeps it, and so does none.
LEMMA NextInv == IInv /\ [Next]_vars => IInv'
<1>1. ASSUME IInv, Next PROVE IInv'
  BY <1>1, ProcessInv, ModuleInv DEF Next
<1>2. ASSUME IInv, UNCHANGED vars PROVE IInv'
  BY <1>2 DEF IInv, vars, module, TypeOK, NothingLeftBehind, Locals, LocalsOf, Meeting, Apart, Written,
              StoredUnderKey, Changed, Active, Bytes, Own, Half, Open, Sealed, Reached, InReg
<1> QED
  BY <1>1, <1>2

-----------------------------------------------------------------------------
(* What holds of every behaviour.                                          *)

\* The inductive invariant: where every call is, what it has done to its bytes, and
\* which other calls it has met.
THEOREM Invariance == Spec => []IInv
  BY InitInv, NextInv, PTL DEF Spec

\* Every variable keeps its type; in particular no call leaves the page
\* (char_device.c:32-88).
THEOREM TypeCorrect == Spec => []TypeOK
<1>1. IInv => TypeOK
  BY DEF IInv
<1> QED
  BY <1>1, Invariance, PTL

\* With no lock, a byte written as part of a word, and used by one call at a time since,
\* is under the key in force whenever nobody changes the key, however many processes
\* there are and however long the word and the page (char_device.c:44-80).
THEOREM SealedUnderTheKey == Spec => []StoredUnderKey
<1>1. IInv => StoredUnderKey
  BY DEF IInv
<1> QED
  BY <1>1, Invariance, PTL

\* Whichever steps of a load fail, nothing is left in the kernel once the module is
\* out of it (char_device.c:90-149).
THEOREM LeavesNothing == Spec => []NothingLeftBehind
<1>1. IInv => NothingLeftBehind
  BY DEF IInv
<1> QED
  BY <1>1, Invariance, PTL

-----------------------------------------------------------------------------
(* The page sequence.                                                      *)

\* There is an address outside the memory.
LEMMA NullOutside == NULL \notin Memory
  BY NoSetContainsEverything DEF NULL

\* What the three pointers, the pages and the loop of sequence_destroy agree on.
SequenceInv == SequenceTypeOK /\ Linked /\ InTurn /\ Accounted

\* The invariant holds at first.
LEMMA SequenceInitInv == sequence_init => SequenceInv
<1> SUFFICES ASSUME sequence_init PROVE SequenceInv
  OBVIOUS
<1> USE DEF sequence_init
<1>1. SequenceTypeOK
  <2>1. pages \in Seq(Memory) /\ Len(pages) = 0
    OBVIOUS
  <2>2. turn \in 0..Len(pages) /\ freed \in 0..Len(pages)
    BY <2>1
  <2>3. live \subseteq Memory /\ destroying \in BOOLEAN
    BY Zenon
  <2> QED BY <2>1, <2>2, <2>3 DEF SequenceTypeOK
<1>2. Linked
  BY DEF Linked
<1>3. InTurn
  BY DEF InTurn
<1>4. Accounted
  BY DEF Accounted
<1> QED BY <1>1, <1>2, <1>3, <1>4 DEF SequenceInv

\* A new_page is appended to the list; it is a new_page that was free.
LEMMA WriteInv ==
  ASSUME SequenceInv, NEW new_page \in Memory, NEW d \in Data, sequence_write(new_page, d)
  PROVE  SequenceInv'
<1> DEFINE n == Len(pages)
<1>0. /\ n \in Nat /\ pages \in Seq(Memory) /\ \A i \in 1..n : pages[i] \in Memory
      /\ next \in [Memory -> Memory \cup {NULL}] /\ data \in [Memory -> Data]
      /\ freed = 0 /\ ~destroying /\ new_page \notin live
      /\ live = {pages[i] : i \in 1..n}
  BY DEF SequenceInv, SequenceTypeOK, Accounted, sequence_write
<1>1. \A i \in 1..n : pages[i] # new_page
  BY <1>0
<1>2. /\ pages' = Append(pages, new_page) /\ Len(pages') = n + 1 /\ pages' \in Seq(Memory)
      /\ pages'[n + 1] = new_page /\ \A i \in 1..n : pages'[i] = pages[i]
  BY <1>0 DEF sequence_write
<1>3. pages = <<>> <=> n = 0
  BY <1>0
<1>4. n # 0 => /\ head = pages[1] /\ tail = pages[n] /\ head # NULL
               /\ next[pages[n]] = NULL
  BY <1>0, <1>3, NullOutside DEF SequenceInv, Linked
<1>5. n = 0 => head = NULL
  BY <1>3 DEF SequenceInv, Linked
<1>6. turn = 0 <=> n = 0
  BY <1>3 DEF SequenceInv, InTurn
<1>7. SequenceTypeOK'
  <2>1. next' \in [Memory -> Memory \cup {NULL}] /\ data' \in [Memory -> Data]
    BY <1>0 DEF sequence_write
  <2>2. turn' \in 0..Len(pages') /\ freed' \in 0..Len(pages')
    BY <1>0, <1>2 DEF sequence_write, SequenceInv, SequenceTypeOK
  <2> QED BY <1>0, <1>2, <2>1, <2>2 DEF sequence_write, SequenceInv, SequenceTypeOK
<1>8. Linked'
  <2>1. \A i, j \in 1..Len(pages') : pages'[i] = pages'[j] => i = j
    <3> SUFFICES ASSUME NEW i \in 1..(n + 1), NEW j \in 1..(n + 1), pages'[i] = pages'[j]
                 PROVE  i = j
      BY <1>2
    <3>1. CASE i \in 1..n /\ j \in 1..n
      BY <3>1, <1>2 DEF SequenceInv, Linked
    <3>2. CASE i = n + 1 /\ j \in 1..n
      BY <3>2, <1>1, <1>2
    <3>3. CASE i \in 1..n /\ j = n + 1
      BY <3>3, <1>1, <1>2
    <3> QED BY <1>0, <3>1, <3>2, <3>3
  <2>2. head' = pages'[1] /\ tail' = new_page
    <3>1. CASE n = 0
      BY <3>1, <1>2, <1>5 DEF sequence_write
    <3>2. CASE n # 0
      BY <3>2, <1>0, <1>2, <1>4 DEF sequence_write
    <3> QED BY <3>1, <3>2
  <2>3. next'[new_page] = NULL
    <3>1. CASE n = 0
      BY <3>1, <1>0, <1>5 DEF sequence_write
    <3>2. CASE n # 0
      BY <3>2, <1>0, <1>1, <1>4 DEF sequence_write
    <3> QED BY <3>1, <3>2
  <2>4. \A i \in 1..n : next'[pages'[i]] = pages'[i + 1]
    <3> SUFFICES ASSUME NEW i \in 1..n PROVE next'[pages[i]] = pages'[i + 1]
      BY <1>2
    <3>0. /\ head # NULL /\ tail = pages[n] /\ pages[i] \in Memory /\ pages[i] # new_page
          /\ next' = [next EXCEPT ![new_page] = NULL, ![tail] = new_page]
      BY <1>0, <1>1, <1>4 DEF sequence_write
    <3>1. CASE i = n
      BY <3>0, <3>1, <1>0, <1>2
    <3>2. CASE i # n
      <4>1. pages[i] # pages[n] /\ next[pages[i]] = pages[i + 1]
        BY <1>0, <3>2 DEF SequenceInv, Linked
      <4> QED BY <3>0, <3>2, <4>1, <1>0, <1>2
    <3> QED BY <3>1, <3>2
  <2>5. pages' # <<>> /\ Len(pages') - 1 = n
    BY <1>0, <1>2
  <2> QED BY <1>2, <2>1, <2>2, <2>3, <2>4, <2>5 DEF Linked
<1>9. InTurn'
  <2>1. CASE n = 0
    BY <2>1, <1>0, <1>2, <1>5, <1>6 DEF sequence_write, InTurn
  <2>2. CASE n # 0
    <3>1. turn \in 1..n /\ current = pages[turn]
      BY <2>2, <1>0, <1>6 DEF SequenceInv, SequenceTypeOK, InTurn
    <3>2. turn' = turn /\ current' = current
      BY <2>2, <3>1, <1>0, <1>4 DEF sequence_write
    <3>3. pages' # <<>>
      BY <1>2
    <3> QED BY <3>1, <3>2, <3>3, <1>0, <1>2 DEF InTurn
  <2> QED BY <2>1, <2>2
<1>10. Accounted'
  <2>1. live' = {pages'[i] : i \in 1..(n + 1)}
    <3>1. live' = live \cup {new_page}
      BY DEF sequence_write
    <3>2. \A x : x \in {pages'[i] : i \in 1..(n + 1)} <=> x \in live \/ x = new_page
      <4>1. 1..(n + 1) = (1..n) \cup {n + 1}
        BY <1>0
      <4> QED BY <1>0, <1>2, <4>1
    <3> QED BY <3>1, <3>2
  <2>2. freed' = 0 /\ ~destroying' /\ freed' + 1 = 1
    BY <1>0 DEF sequence_write
  <2> QED BY <1>2, <2>1, <2>2 DEF Accounted
<1> QED BY <1>7, <1>8, <1>9, <1>10 DEF SequenceInv

\* What a read looks at, and what comes after it.
LEMMA LookedAt ==
  ASSUME SequenceInv, ~destroying, Looked # NULL
  PROVE  /\ turn \in 1..Len(pages) /\ Looked = pages[turn] /\ current = Looked
         /\ head = pages[1] /\ head # NULL /\ Looked \in live
         /\ next[Looked] = IF turn = Len(pages) THEN NULL ELSE pages[turn + 1]
         /\ \A i \in 1..Len(pages) : pages[i] \in Memory /\ pages[i] # NULL
<1>1. Len(pages) \in Nat /\ \A i \in 1..Len(pages) : pages[i] \in Memory /\ pages[i] # NULL
  BY NullOutside DEF SequenceInv, SequenceTypeOK
<1>2. pages # <<>>
  <2> SUFFICES ASSUME pages = <<>> PROVE FALSE
    OBVIOUS
  <2> QED BY DEF Looked, SequenceInv, Linked, InTurn
<1>3. turn \in 1..Len(pages) /\ current = pages[turn]
  BY <1>1, <1>2 DEF SequenceInv, SequenceTypeOK, InTurn
<1>4. current # NULL /\ Looked = current
  BY <1>1, <1>3 DEF Looked
<1>5. head = pages[1] /\ next[pages[Len(pages)]] = NULL
  BY <1>2 DEF SequenceInv, Linked
<1>6. turn # Len(pages) => next[pages[turn]] = pages[turn + 1]
  BY <1>1, <1>3 DEF SequenceInv, Linked
<1>7. pages[turn] \in live
  <2>1. live = {pages[i] : i \in 1..Len(pages)}
    BY <1>1 DEF SequenceInv, Accounted
  <2> QED BY <2>1, <1>3
<1>8. 1 \in 1..Len(pages)
  BY <1>1, <1>3
<1> QED BY <1>1, <1>3, <1>4, <1>5, <1>6, <1>7, <1>8

\* sequence_read (64-80) moves current to the next new_page, or back to the first.
LEMMA ReadInv == ASSUME SequenceInv, sequence_read PROVE SequenceInv'
<1>0. ~destroying /\ Looked # NULL
  BY DEF sequence_read
<1> USE <1>0
<1>1. /\ turn \in 1..Len(pages) /\ Len(pages) \in Nat
      /\ current' = IF turn = Len(pages) THEN pages[1] ELSE pages[turn + 1]
      /\ turn' = IF turn = Len(pages) THEN 1 ELSE turn + 1
      /\ turn' \in 1..Len(pages)
      /\ current' = pages[turn'] /\ current' \in Memory
      /\ out' \in Data
  <2>1. turn \in 1..Len(pages) /\ Len(pages) \in Nat
    BY LookedAt
  <2>2. turn # Len(pages) => turn + 1 \in 1..Len(pages)
    BY <2>1
  <2>3. /\ turn' = IF turn = Len(pages) THEN 1 ELSE turn + 1
        /\ turn' \in 1..Len(pages)
    BY <2>1, <2>2 DEF sequence_read
  <2>4. current' = IF turn = Len(pages) THEN pages[1] ELSE pages[turn + 1]
    BY <2>2, LookedAt DEF sequence_read
  <2>5. data[Looked] \in Data
    BY LookedAt DEF SequenceInv, SequenceTypeOK
  <2> QED BY <2>1, <2>2, <2>3, <2>4, <2>5, LookedAt DEF sequence_read
<1>2. UNCHANGED <<head, tail, next, data, live, curr, destroying, pages, freed>>
  BY DEF sequence_read, heap
<1>3. SequenceTypeOK'
  BY <1>1, <1>2 DEF SequenceInv, SequenceTypeOK
<1>4. Linked'
  BY <1>2 DEF SequenceInv, Linked
<1>5. InTurn'
  <2>1. pages # <<>>
    BY <1>1
  <2> QED BY <2>1, <1>1, <1>2 DEF InTurn
<1>6. Accounted'
  BY <1>2 DEF SequenceInv, Accounted
<1> QED BY <1>3, <1>4, <1>5, <1>6 DEF SequenceInv

\* sequence_destroy frees the next new_page of the list, which is allocated.
LEMMA FreeInv == ASSUME SequenceInv, Free PROVE SequenceInv' /\ curr \in live
<1>1. /\ Len(pages) \in Nat /\ freed \in 0..Len(pages) /\ destroying
      /\ \A i \in 1..Len(pages) : pages[i] \in Memory
  BY DEF SequenceInv, SequenceTypeOK, Free
<1>2. freed # Len(pages) /\ curr = pages[freed + 1] /\ freed + 1 \in 1..Len(pages)
  BY <1>1 DEF SequenceInv, Accounted, Free
<1>3. UNCHANGED <<head, tail, current, next, data, destroying, out, pages, turn>>
  BY DEF Free, sequence
<1>4. freed' = freed + 1 /\ curr' = next[curr] /\ live' = live \ {curr}
  BY DEF Free
<1>5. live = {pages[i] : i \in (freed + 1)..Len(pages)}
  BY DEF SequenceInv, Accounted
<1>6. curr \in live
  BY <1>1, <1>2, <1>5
<1>7. curr' = IF freed' = Len(pages) THEN NULL ELSE pages[freed' + 1]
  <2>1. CASE freed + 1 = Len(pages)
    <3>1. pages # <<>>
      BY <1>2
    <3> QED BY <2>1, <3>1, <1>2, <1>4 DEF SequenceInv, Linked
  <2>2. CASE freed + 1 # Len(pages)
    <3>1. freed + 1 \in 1..(Len(pages) - 1)
      BY <2>2, <1>1, <1>2
    <3> QED BY <2>2, <3>1, <1>2, <1>4 DEF SequenceInv, Linked
  <2> QED BY <2>1, <2>2
<1>8. live' = {pages[i] : i \in (freed' + 1)..Len(pages)}
  <2>1. \A i \in (freed + 1)..Len(pages) : pages[i] = curr <=> i = freed + 1
    <3>1. \A i, j \in 1..Len(pages) : pages[i] = pages[j] => i = j
      BY DEF SequenceInv, Linked
    <3>2. \A i \in (freed + 1)..Len(pages) : i \in 1..Len(pages)
      BY <1>1
    <3> QED BY <1>2, <3>1, <3>2
  <2>2. \A i : i \in (freed' + 1)..Len(pages)
               <=> i \in (freed + 1)..Len(pages) /\ i # freed + 1
    BY <1>1, <1>4
  <2> QED BY <1>4, <1>5, <2>1, <2>2
<1>9. SequenceTypeOK'
  <2>1. curr' \in Memory \cup {NULL}
    BY <1>2, <1>1, <1>4 DEF SequenceInv, SequenceTypeOK
  <2>2. freed' \in 0..Len(pages')
    BY <1>1, <1>2, <1>3, <1>4
  <2> QED BY <1>3, <1>4, <2>1, <2>2 DEF SequenceInv, SequenceTypeOK
<1>10. Linked' /\ InTurn'
  BY <1>3 DEF SequenceInv, Linked, InTurn
<1>11. Accounted'
  BY <1>1, <1>3, <1>7, <1>8 DEF Accounted
<1> QED BY <1>6, <1>9, <1>10, <1>11 DEF SequenceInv

\* sequence_destroy (23-25) begins its loop at head.
LEMMA DestroyInv == ASSUME SequenceInv, sequence_destroy PROVE SequenceInv'
<1>1. UNCHANGED <<head, tail, current, next, data, live, out, pages, turn, freed>>
  BY DEF sequence_destroy, sequence, heap, history
<1>2. ~destroying /\ destroying' = TRUE /\ curr' = head /\ freed = 0
  BY DEF sequence_destroy, SequenceInv, Accounted
<1>3. curr' = IF freed = Len(pages) THEN NULL ELSE pages[freed + 1]
  <2>1. pages = <<>> <=> Len(pages) = 0
    BY DEF SequenceInv, SequenceTypeOK
  <2> QED BY <1>2, <2>1 DEF SequenceInv, Linked
<1>4. SequenceTypeOK'
  BY <1>1, <1>2 DEF SequenceInv, SequenceTypeOK
<1>5. Linked' /\ InTurn'
  BY <1>1 DEF SequenceInv, Linked, InTurn
<1>6. Accounted'
  BY <1>1, <1>2, <1>3 DEF SequenceInv, Accounted
<1> QED BY <1>4, <1>5, <1>6 DEF SequenceInv

\* The end of sequence_destroy (32-35): the loop has freed every new_page.
LEMMA DestroyedInv == ASSUME SequenceInv, Destroyed PROVE SequenceInv'
<1>1. live = {}
  <2>1. freed = Len(pages)
    <3>1. \A i \in 1..Len(pages) : pages[i] # NULL
      BY NullOutside DEF SequenceInv, SequenceTypeOK
    <3>2. freed # Len(pages) => freed + 1 \in 1..Len(pages)
      BY DEF SequenceInv, SequenceTypeOK
    <3> QED BY <3>1, <3>2 DEF SequenceInv, Accounted, Destroyed
  <2> QED BY <2>1 DEF SequenceInv, SequenceTypeOK, Accounted
<1>2. SequenceTypeOK'
  <2>1. pages' \in Seq(Memory) /\ Len(pages') = 0
    BY DEF Destroyed
  <2>2. turn' \in 0..Len(pages') /\ freed' \in 0..Len(pages')
    BY <2>1 DEF Destroyed
  <2>3. live' \subseteq Memory /\ destroying' \in BOOLEAN
    BY <1>1, Zenon DEF Destroyed, heap
  <2> QED BY <2>1, <2>2, <2>3 DEF SequenceInv, SequenceTypeOK, Destroyed, heap
<1>3. Linked'
  BY DEF Linked, Destroyed
<1>4. InTurn'
  BY DEF InTurn, Destroyed
<1>5. Accounted'
  BY <1>1 DEF Accounted, Destroyed, heap
<1> QED BY <1>2, <1>3, <1>4, <1>5 DEF SequenceInv

\* Every step keeps the invariant.
LEMMA SequenceNextInv == SequenceInv /\ [SequenceNext]_seq_vars => SequenceInv'
<1> SUFFICES ASSUME SequenceInv, [SequenceNext]_seq_vars PROVE SequenceInv'
  OBVIOUS
<1>1. ASSUME NEW new_page \in Memory, NEW d \in Data, sequence_write(new_page, d) PROVE SequenceInv'
  BY <1>1, WriteInv
<1>2. CASE sequence_read
  BY <1>2, ReadInv
<1>3. CASE ReadFails
  <2>1. current' = current
    BY <1>3, LookedAt DEF ReadFails
  <2> QED BY <1>3, <2>1 DEF ReadFails, heap, history, SequenceInv, SequenceTypeOK, Linked, InTurn, Accounted
<1>4. CASE sequence_destroy
  BY <1>4, DestroyInv
<1>5. CASE Free
  BY <1>5, FreeInv
<1>6. CASE Destroyed
  BY <1>6, DestroyedInv
<1>7. CASE UNCHANGED seq_vars
  BY <1>7 DEF seq_vars, sequence, heap, history, SequenceInv, SequenceTypeOK, Linked, InTurn, Accounted
<1> QED BY <1>1, <1>2, <1>3, <1>4, <1>5, <1>6, <1>7 DEF SequenceNext

\* The invariant holds in every reachable state.
THEOREM SequenceInvariance == SequenceSpec => []SequenceInv
  BY SequenceInitInv, SequenceNextInv, PTL DEF SequenceSpec

\* Every variable of the sequence keeps its type, its garbage included (sequence.c:3-21).
THEOREM SequenceTypeCorrect == SequenceSpec => []SequenceTypeOK
<1>1. SequenceInv => SequenceTypeOK
  BY DEF SequenceInv
<1> QED
  BY <1>1, SequenceInvariance, PTL

\* In every reachable state the list is what was written, each page once, for any memory
\* (sequence.c:46-60).
THEOREM SequenceLinked == SequenceSpec => []Linked
<1>1. SequenceInv => Linked
  BY DEF SequenceInv
<1> QED
  BY <1>1, SequenceInvariance, PTL

\* As soon as there is a page, the reader stands on one of the list (sequence.c:64-80).
THEOREM SequenceInTurn == SequenceSpec => []InTurn
<1>1. SequenceInv => InTurn
  BY DEF SequenceInv
<1> QED
  BY <1>1, SequenceInvariance, PTL

\* Exactly the pages of the list are allocated, and sequence_destroy frees each of them
\* once (sequence.c:23-35).
THEOREM SequenceAccounted == SequenceSpec => []Accounted
<1>1. SequenceInv => Accounted
  BY DEF SequenceInv
<1> QED
  BY <1>1, SequenceInvariance, PTL

-----------------------------------------------------------------------------
(* The refinement of Rotation.                                             *)

PagesText == [i \in 1..Len(pages) |-> data[pages[i]]]

\* Every step of the list is a step of the rotation or leaves what it shows alone.
LEMMA SequenceStepImplements == SequenceInv /\ [SequenceNext]_seq_vars => [Promised!Next]_<<PagesText, turn, out>>
<1> SUFFICES ASSUME SequenceInv, [SequenceNext]_seq_vars
             PROVE  Promised!Next \/ UNCHANGED <<PagesText, turn, out>>
  OBVIOUS
<1>0. Len(pages) \in Nat /\ pages \in Seq(Memory) /\ data \in [Memory -> Data]
  BY DEF SequenceInv, SequenceTypeOK
<1>1. ASSUME NEW new_page \in Memory, NEW d \in Data, sequence_write(new_page, d) PROVE Promised!Write(d)
  <2>1. /\ Len(pages') = Len(pages) + 1 /\ pages'[Len(pages) + 1] = new_page
        /\ \A i \in 1..Len(pages) : pages'[i] = pages[i] /\ pages[i] # new_page /\ pages[i] \in Memory
    <3>1. live = {pages[i] : i \in 1..Len(pages)} /\ new_page \notin live
      BY <1>1 DEF SequenceInv, Accounted, sequence_write
    <3> QED BY <1>0, <1>1, <3>1 DEF sequence_write
  <2>2. data' = [data EXCEPT ![new_page] = d]
    BY <1>1 DEF sequence_write
  <2>3. PagesText' = [i \in 1..(Len(pages) + 1) |-> IF i = Len(pages) + 1 THEN d ELSE data[pages[i]]]
    <3>1. PagesText' = [i \in 1..(Len(pages) + 1) |-> data'[pages'[i]]]
      BY <2>1 DEF PagesText
    <3>2. \A i \in 1..(Len(pages) + 1) :
            data'[pages'[i]] = IF i = Len(pages) + 1 THEN d ELSE data[pages[i]]
      BY <1>0, <2>1, <2>2
    <3> QED BY <3>1, <3>2
  <2>4. PagesText \in Seq(Data) /\ Len(PagesText) = Len(pages)
    BY <1>0 DEF PagesText
  <2>5. Append(PagesText, d) = [i \in 1..(Len(pages) + 1) |-> IF i = Len(pages) + 1 THEN d ELSE data[pages[i]]]
    BY <1>0, <2>4 DEF PagesText
  <2> QED BY <1>1, <2>3, <2>5 DEF sequence_write, Promised!Write, PagesText
<1>2. CASE sequence_read
  <2>1. turn \in 1..Len(pages) /\ Looked = pages[turn]
    BY <1>2, LookedAt DEF sequence_read
  <2>2. PagesText[turn] = data[Looked] /\ Len(PagesText) = Len(pages)
    BY <1>0, <2>1 DEF PagesText
  <2>3. PagesText' = PagesText
    BY <1>2 DEF sequence_read, heap, PagesText
  <2>4. Promised!Read
    BY <1>2, <2>1, <2>2, <2>3 DEF sequence_read, Promised!Read, PagesText
  <2> QED BY <2>4 DEF Promised!Next
<1>3. CASE ReadFails \/ sequence_destroy \/ Free \/ UNCHANGED seq_vars
  BY <1>3 DEF ReadFails, sequence_destroy, Free, seq_vars, sequence, heap, history, PagesText
<1>4. CASE Destroyed
  <2>1. PagesText' = <<>> /\ turn' = 0 /\ out' = out
    BY <1>4 DEF Destroyed, PagesText
  <2> QED BY <2>1 DEF Promised!Next, Promised!Clear, PagesText
<1> QED BY <1>1, <1>2, <1>3, <1>4 DEF SequenceNext, Promised!Next

\* Reads hand out the pages in turn, from the first to the last and again, whatever is
\* written in between (sequence.c:37-80).
THEOREM SequenceImplementsRotation == SequenceSpec => ImplementsRotation
<1>1. sequence_init => Promised!Init
  <2> SUFFICES ASSUME sequence_init PROVE Promised!Init
    OBVIOUS
  <2>1. PagesText = <<>>
    BY DEF sequence_init, PagesText
  <2> QED BY <2>1 DEF sequence_init, Promised!Init, PagesText
<1>2. SequenceInv /\ [SequenceNext]_seq_vars => [Promised!Next]_<<PagesText, turn, out>>
  BY SequenceStepImplements
<1> QED BY <1>1, <1>2, SequenceInitInv, SequenceNextInv, PTL DEF SequenceSpec, ImplementsRotation, Promised!Spec, PagesText
=============================================================================
