----------------------------- MODULE EncResult -----------------------------
(***************************************************************************)
(* encResult.txt: client programs in one directory, one run after another  *)
(* or at the same time.  A run that encrypts reads the server's answer     *)
(* with a single readAll and saves ciphertext and a||j; a run that         *)
(* decrypts reads the file and sends what it finds to a server.            *)
(*                                                                         *)
(* A flag, a four byte size and a byte are one item each of an answer or   *)
(* of the file.                                                            *)
(***************************************************************************)
EXTENDS Integers, Sequences, SequencesExt

CONSTANTS Clients,      \* runs of the client program
          CipherSize,   \* of a ciphertext: every message has the same length
          AcatjSize,
          AnswerSet,    \* the ciphertexts and a||j that servers give
          Faults        \* subset of {"segments", "killed"}

CR == 13
Bytes == 0..255

ASSUME EncResultAssumption ==
    /\ CipherSize \in Nat \ {CR} /\ AcatjSize \in Nat
    /\ AnswerSet \subseteq [cipher : [1..CipherSize -> Bytes], acatj : [1..AcatjSize -> Bytes]]
    /\ Faults \subseteq {"segments", "killed"}

VARIABLES phase,   \* of a client
          sent,    \* what the server has answered it
          parsed,  \* what it has made of the answer
          given,   \* what it reads back, to be decrypted
          there,   \* encResult.txt exists
          file,
          newest,  \* what was written last (history)
          reason   \* why what a client reads may be no server's answer (history)
vars == <<phase, sent, parsed, given, there, file, newest, reason>>

NoResult == [cipher |-> <<>>, acatj |-> <<>>]

Init ==
    /\ phase  = [c \in Clients |-> "new"]
    /\ sent   = [c \in Clients |-> NoResult]
    /\ parsed = [c \in Clients |-> NoResult]
    /\ given  = [c \in Clients |-> NoResult]
    /\ there  = FALSE
    /\ file   = <<>>
    /\ newest = NoResult
    /\ reason = [c \in Clients |-> {}]

\* Past the end QDataStream reads zeros.
Item(stream, i) == IF i <= Len(stream) THEN stream[i] ELSE 0

Items(stream, from, size) == [i \in 1..size |-> Item(stream, from + i - 1)]

\* flag, size, ciphertext, size, a||j, in one write.
AnswerOf(result) ==
    <<1, Len(result.cipher)>> \o result.cipher \o <<Len(result.acatj)>> \o result.acatj

\* Mutant: a||j is read where its size is.
ParsedTooEarly(answer) ==
    LET size == Item(answer, 2)
    IN [cipher |-> Items(answer, 3, size),
        acatj  |-> Items(answer, 3 + size, Item(answer, 3 + size))]

Parsed(answer) ==
    LET size == Item(answer, 2)
    IN [cipher |-> Items(answer, 3, size),
        acatj  |-> Items(answer, 4 + size, Item(answer, 3 + size))]

Saved(result) == <<Len(result.cipher)>> \o result.cipher \o result.acatj

\* QIODevice::Text drops every CR.
TextOf(bytes) ==
    LET text[i \in 0..Len(bytes)] ==
            IF i = 0 THEN <<>>
            ELSE IF bytes[i] = CR THEN text[i - 1] ELSE Append(text[i - 1], bytes[i])
    IN text[Len(bytes)]

\* The size of a||j is not in the file.
ReadBack(bytes) ==
    LET text == TextOf(bytes)
        size == Item(text, 1)
    IN [cipher |-> Items(text, 2, size), acatj |-> Items(text, 2 + size, AcatjSize)]

-----------------------------------------------------------------------------
(* A run that encrypts.                                                    *)

\* One wait, one readAll: of a robust answer that comes in segments the first ones
\* may have come, and the rest is read as zeros.
ReadAnswer(c) ==
    /\ phase[c] = "new"
    /\ \E result \in AnswerSet :
         LET answer == AnswerOf(result)
         IN \E come \in (IF "segments" \in Faults THEN 1..Len(answer) ELSE {Len(answer)}) :
              /\ sent' = [sent EXCEPT ![c] = result]
              /\ parsed' = [parsed EXCEPT ![c] = Parsed(SubSeq(answer, 1, come))]
              /\ reason' = [d \in Clients |->
                              IF come < Len(answer) THEN reason[d] \cup {"segments"} ELSE reason[d]]
    /\ phase' = [phase EXCEPT ![c] = "answered"]
    /\ UNCHANGED <<given, there, file, newest>>

\* No answer within 30 s, or one that is not robust: encResult.txt stays as it is.
Alarm(c) ==
    /\ phase[c] = "new"
    /\ phase' = [phase EXCEPT ![c] = "over"]
    /\ UNCHANGED <<sent, parsed, given, there, file, newest, reason>>

\* open(WriteOnly) empties the file.
OpenFile(c) ==
    /\ phase[c] = "answered"
    /\ phase' = [phase EXCEPT ![c] = "saving"]
    /\ there' = TRUE /\ file' = <<>>
    /\ UNCHANGED <<sent, parsed, given, newest, reason>>

\* Mutant: the file is opened for appending.
AppendedTo(old, new) == old \o new

\* Bytes go to the front of whatever another run has put there meanwhile.
WrittenOver(old, new) == new \o SubSeq(old, Len(new) + 1, Len(old))

\* The buffer is written when the QFile goes.
WriteFile(c) ==
    /\ phase[c] = "saving"
    /\ phase' = [phase EXCEPT ![c] = "saved"]
    /\ file' = WrittenOver(file, Saved(parsed[c]))
    /\ newest' = sent[c]
    /\ UNCHANGED <<sent, parsed, given, there, reason>>

Killed(c) ==
    /\ "killed" \in Faults /\ phase[c] \in {"answered", "saving"}
    /\ phase' = [phase EXCEPT ![c] = "over"]
    /\ UNCHANGED <<sent, parsed, given, there, file, newest, reason>>

-----------------------------------------------------------------------------
(* A run that decrypts.                                                    *)

ReadFile(c) ==
    /\ phase[c] = "new" /\ there
    /\ given' = [given EXCEPT ![c] = ReadBack(file)]
    /\ reason' = [reason EXCEPT ![c] =
                     @ \cup (IF file = <<>> THEN {"empty"} ELSE {})
                       \cup (IF Contains(file, CR) THEN {"cr"} ELSE {})]
    /\ phase' = [phase EXCEPT ![c] = "read"]
    /\ UNCHANGED <<sent, parsed, there, file, newest>>

NoFile(c) ==
    /\ phase[c] = "new" /\ ~there
    /\ phase' = [phase EXCEPT ![c] = "over"]
    /\ UNCHANGED <<sent, parsed, given, there, file, newest, reason>>

-----------------------------------------------------------------------------
Next ==
    \E c \in Clients :
        \/ ReadAnswer(c) \/ Alarm(c) \/ OpenFile(c) \/ WriteFile(c) \/ Killed(c)
        \/ ReadFile(c) \/ NoFile(c)

Spec == Init /\ [][Next]_vars
-----------------------------------------------------------------------------
Results == [cipher : Seq(Bytes), acatj : Seq(Bytes)]

TypeOK ==
    /\ phase \in [Clients -> {"new", "answered", "saving", "saved", "read", "over"}]
    /\ sent \in [Clients -> AnswerSet \cup {NoResult}]
    /\ parsed \in [Clients -> Results] /\ given \in [Clients -> Results]
    /\ \A c \in Clients : \A r \in {parsed[c], given[c]} :
         Len(r.cipher) <= CipherSize /\ Len(r.acatj) <= AcatjSize
    /\ there \in BOOLEAN
    /\ file \in Seq(Bytes \cup {CipherSize}) /\ Len(file) <= 1 + CipherSize + AcatjSize
    /\ newest \in AnswerSet \cup {NoResult}
    /\ reason \in [Clients -> SUBSET {"segments", "empty", "cr"}]

Kept == {sent[c] : c \in {d \in Clients : phase[d] = "saved"}}

\* Runs that save at the same time never mix two ciphertexts, nor does one that is
\* killed leave half of one: what is read back is what a server gave one of them,
\* unless the file is just then empty, a CR was dropped, or an answer had come in
\* segments (Client.cpp:98-155, ClientDriver.cpp:158-180).
ReadBackIsOneAnswer ==
    \A c \in Clients : phase[c] = "read" /\ reason[c] = {} => given[c] \in Kept

\* The file is empty or holds what was written last, and nothing of what was there
\* before; unless an answer had come in segments (Client.cpp:133-155).
FileIsNewest ==
    (\A c \in Clients : "segments" \notin reason[c]) => file \in {<<>>, Saved(newest)}

\* Client.cpp:133, "Save results of the encryption to use later": what was saved is
\* what is read back.
SavedIsReadBack ==
    \A c \in Clients :
        phase[c] = "read" /\ "empty" \notin reason[c] => given[c] \in Kept
=============================================================================
