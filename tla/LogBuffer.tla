----------------------------- MODULE LogBuffer -----------------------------
(***************************************************************************)
(* QQmlAgentLogBuffer: the log entries kept for Log.getEntries, oldest     *)
(* first, without duplicates, bounded in number and in bytes. The buffer's *)
(* parallel lists of sizes and keys are fields of the entries.             *)
(***************************************************************************)
EXTENDS Naturals, Sequences, SequencesExt

CONSTANTS MaxEntries, MaxBytes

ASSUME LimitsAssumption == MaxEntries \in Nat /\ MaxBytes \in Nat

Empty == [entries |-> <<>>, keys |-> {}, bytes |-> 0]

Overflows(b) == Len(b.entries) > MaxEntries \/ b.bytes > MaxBytes

BytesOf(s) == FoldLeft(LAMBDA sum, e : sum + e.size, 0, s)

KeysOf(s) == {s[i].key : i \in 1..Len(s)}

(* Mutant: an evicted entry's key stays in the dedup set.                  *)
EvictedKeepingKeys(b, n) ==
    [entries |-> SubSeq(b.entries, n + 1, Len(b.entries)),
     keys    |-> b.keys,
     bytes   |-> b.bytes - BytesOf(SubSeq(b.entries, 1, n))]

(* b without its n oldest entries.                                         *)
Evicted(b, n) ==
    [entries |-> SubSeq(b.entries, n + 1, Len(b.entries)),
     keys    |-> b.keys \ KeysOf(SubSeq(b.entries, 1, n)),
     bytes   |-> b.bytes - BytesOf(SubSeq(b.entries, 1, n))]

(* Entries are dropped from the front until the rest fits; an entry larger *)
(* than the whole buffer is dropped itself, after all the others.          *)
Fitted(b) ==
    LET n == CHOOSE n \in 0..Len(b.entries) :
                /\ ~Overflows(Evicted(b, n))
                /\ \A m \in 0..(n - 1) : Overflows(Evicted(b, m))
    IN Evicted(b, n)

Accepts(b, e) == e.key \notin b.keys

AppendEntry(b, e) ==
    IF ~Accepts(b, e) THEN b
    ELSE Fitted([entries |-> Append(b.entries, e),
                 keys    |-> b.keys \cup {e.key},
                 bytes   |-> b.bytes + e.size])

(* The bookkeeping agrees with the entries: the limits hold, the dedup set *)
(* is the set of the keys still in the buffer (so that an evicted message  *)
(* can be logged again), each key is there once, the byte count is exact.  *)
Consistent(b) ==
    /\ ~Overflows(b)
    /\ b.keys = KeysOf(b.entries)
    /\ \A i, j \in 1..Len(b.entries) : b.entries[i].key = b.entries[j].key => i = j
    /\ b.bytes = BytesOf(b.entries)

=============================================================================
