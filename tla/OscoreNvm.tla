----------------------------- MODULE OscoreNvm -----------------------------
(***************************************************************************)
(* The sender sequence number of OSCORE in a file, uoscore_integration.c:  *)
(* nvm_write_ssn and nvm_read_ssn, called by uoscore.  A process may die   *)
(* anywhere and be started again; the file is all that stays.  stdio keeps *)
(* what fprintf() was given until fclose(), which nobody asks whether it   *)
(* could store it.                                                         *)
(***************************************************************************)
EXTENDS Base64

CONSTANTS
  Numbers,   \* the sequence numbers uoscore stores, of 64 bits
  Width,     \* 2^32: the values of the variable a number is read into
  IdLens,    \* lengths of sender_id, recipient_id and id_context, per build
  Junk       \* what an octet nobody wrote may hold

\* The identifiers of a build are a few octets: with the three lengths written
\* before them they fit a buffer whose size is a uint8_t.
ASSUME NvmAssumption ==
  /\ Width \in Nat \ {0} /\ Numbers \subseteq Nat /\ 0 \in Numbers
  /\ IdLens \subseteq [1..3 -> 0..255] /\ Junk \subseteq 0..255
  /\ \A l \in IdLens : l[1] + l[2] + l[3] + 12 < 256

VARIABLES
  lens,    \* the lengths of the identifiers of this build
  file,    \* the NVM file
  pc,      \* "down", "idle", or "writing": the file is open and truncated
  op,      \* the call of uoscore under way or answered last
  ssn,     \* the number being written
  result,  \* what the call returned
  last     \* history: the number a write last began to store

nvmVars == <<lens, file, pc, op, ssn, result, last>>

\* A file without the two lines, with them, and none.
Absent == [there |-> FALSE, key |-> NoBytes, ssn |-> {}]
Truncated == [there |-> TRUE, key |-> NoBytes, ssn |-> {}]
Holding(key, n) == [there |-> TRUE, key |-> key, ssn |-> {n}]

None == [status |-> "none", ssn |-> 0]
Error == [status |-> "oscore_ssn_overflow", ssn |-> 0]
Ok(n) == [status |-> "ok", ssn |-> n]

NvmInit ==
  /\ lens \in IdLens
  /\ file = Absent /\ pc = "down" /\ op = "none" /\ ssn = 0 /\ result = None
  /\ last = 0

-----------------------------------------------------------------------------
\* nvm_key_bytes_len, a uint8_t.
KeySize == (lens[1] + lens[2] + lens[3] + 12) % 256

\* Where nvm_key_bytes has the length of identifier n, counted from 0.
LengthAt(n) == CASE n = 1 -> 0 [] n = 2 -> 4 + lens[1] [] n = 3 -> 8 + lens[1] + lens[2]

\* Each identifier is copied to the front of the buffer, over the lengths there,
\* from the pointer and not from what it points to: all that is known of the key is
\* the lengths that are not overwritten, of one octet and three of zero.
Known(n) == {p \in LengthAt(n)..LengthAt(n) + 3 : \A k \in n..3 : p >= lens[k]}
Unknown == 0..KeySize - 1 \ (Known(1) \cup Known(2) \cup Known(3))

KeyBytes(junk) ==
  [q \in 1..KeySize |->
     IF q - 1 \in Unknown THEN junk[q - 1]
     ELSE IF \E n \in 1..3 : q - 1 \in Known(n) /\ q - 1 = LengthAt(n)
          THEN lens[CHOOSE n \in 1..3 : q - 1 = LengthAt(n)] ELSE 0]

\* nvm_key_base64_encode: what a caller may get.
Keys == {b64_encode(KeyBytes(junk)) : junk \in [Unknown -> Junk]}

-----------------------------------------------------------------------------
\* The process is started.
Start ==
  /\ pc = "down"
  /\ pc' = "idle" /\ op' = "none" /\ result' = None
  /\ UNCHANGED <<lens, file, ssn, last>>

\* Mutant: the file is opened without truncating it.
OpenKeeps(n) ==
  /\ file' = IF file.there THEN file ELSE Truncated
  /\ pc' = "writing" /\ ssn' = n /\ result' = None /\ last' = n

\* fopen(NVM_FILENAME, "w").
Open(n) ==
  /\ file' = Truncated
  /\ pc' = "writing" /\ ssn' = n /\ result' = None /\ last' = n

\* nvm_write_ssn.
Write(n) ==
  /\ pc = "idle"
  /\ op' = "write"
  /\ \/ Open(n)
     \/ result' = Error /\ UNCHANGED <<file, pc, ssn, last>>
  /\ UNCHANGED lens

\* fclose(): the two lines are in the file, or could not be stored; ok is returned
\* either way, to uoscore or to nvm_read_ssn and on.
Close ==
  /\ pc = "writing"
  /\ pc' = "idle"
  /\ \/ \E key \in Keys : file' = Holding(key, ssn)
     \/ UNCHANGED file
  /\ result' = Ok(ssn)
  /\ UNCHANGED <<lens, op, ssn, last>>

\* Mutant: a file without the number reads as a new one.
AnyNumber ==
  IF file.key # NoBytes /\ file.ssn # {}
  THEN Ok((CHOOSE n \in file.ssn : TRUE) % Width)
  ELSE Ok(0)

\* What the lines of the file give: both are needed, and the key is not compared.
FromFile ==
  IF file.key # NoBytes /\ file.ssn # {}
  THEN Ok((CHOOSE n \in file.ssn : TRUE) % Width)
  ELSE Error

\* nvm_read_ssn of a file that could be opened.
Read ==
  /\ pc = "idle" /\ file.there
  /\ op' = "read"
  /\ result' = FromFile
  /\ UNCHANGED <<lens, file, pc, ssn, last>>

\* nvm_read_ssn when fopen() fails, as it does for a file that is not there and
\* may do for another reason: the number is 0 and is stored, if it can be.
ReadNew ==
  /\ pc = "idle"
  /\ op' = "read"
  /\ \/ Open(0)
     \/ result' = Error /\ UNCHANGED <<file, pc, ssn, last>>
  /\ UNCHANGED lens

\* The process dies, and what stdio held with it.
Crash ==
  /\ pc # "down"
  /\ pc' = "down"
  /\ UNCHANGED <<lens, file, op, ssn, result, last>>

NvmNext == Start \/ (\E n \in Numbers : Write(n)) \/ Close \/ Read \/ ReadNew \/ Crash

NvmSpec == NvmInit /\ [][NvmNext]_nvmVars

-----------------------------------------------------------------------------
\* A write cut short by a crash, or whose fclose() could not store the lines, leaves
\* no number behind, never an older one: the number in the file, if there is one,
\* is the one a write last began to store.
FileHoldsLast == \A n \in file.ssn : n = last

\* A number read is the one stored last, as 32 bits hold it: a number that was
\* replaced, or that a crash kept from the file, is never given out again.  (A file
\* that cannot be opened counts as new, and 0 is then what was stored last.)
ReadsLastStored ==
  op = "read" /\ result.status = "ok" => result.ssn = last % Width

\* Whatever the octets of the key are, the line in the file decodes to as many, and
\* to the lengths where those are known.
KeyLineDecodes ==
  file.key # NoBytes =>
    LET bytes == b64_decode(file.key) IN
    /\ bytes = KeyBytes([p \in Unknown |-> bytes[p + 1]])
    /\ b64_encode(bytes) = file.key
=============================================================================
