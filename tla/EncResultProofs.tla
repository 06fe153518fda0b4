-------------------------- MODULE EncResultProofs --------------------------
(***************************************************************************)
(* Whatever the sizes, the answers and the number of clients, and however  *)
(* their runs overlap or end: encResult.txt holds one result as a whole,   *)
(* and what is read back is one of them.                                   *)
(***************************************************************************)
EXTENDS EncResult, Induction, SequenceTheorems

\* The sizes of the parts of an answer.
LEMMA ResultType ==
    ASSUME NEW r \in AnswerSet
    PROVE  /\ r.cipher \in Seq(Nat) /\ Len(r.cipher) = CipherSize
           /\ r.acatj \in Seq(Nat) /\ Len(r.acatj) = AcatjSize
           /\ r = [cipher |-> r.cipher, acatj |-> r.acatj]
           /\ CipherSize \in Nat /\ AcatjSize \in Nat
<1>1. /\ r.cipher \in [1..CipherSize -> Bytes] /\ r.acatj \in [1..AcatjSize -> Bytes]
      /\ r = [cipher |-> r.cipher, acatj |-> r.acatj]
      /\ CipherSize \in Nat /\ AcatjSize \in Nat
  BY EncResultAssumption
<1>2. Bytes \subseteq Nat
  BY DEF Bytes
<1>3. r.cipher \in Seq(Nat) /\ Len(r.cipher) = CipherSize
  BY <1>1, <1>2
<1>4. r.acatj \in Seq(Nat) /\ Len(r.acatj) = AcatjSize
  BY <1>1, <1>2
<1> QED
  BY <1>1, <1>3, <1>4

\* The items of two sequences one after the other.
LEMMA Joined ==
    ASSUME NEW first \in Seq(Nat), NEW second \in Seq(Nat)
    PROVE  /\ first \o second \in Seq(Nat)
           /\ Len(first \o second) = Len(first) + Len(second)
           /\ \A i \in 1..Len(first) : (first \o second)[i] = first[i]
           /\ \A i \in 1..Len(second) : (first \o second)[Len(first) + i] = second[i]
  BY ConcatProperties

\* Answers are results, and results are sequences of numbers.
LEMMA ResultsType ==
    /\ AnswerSet \subseteq Results /\ NoResult \in Results
    /\ CipherSize \in Nat /\ AcatjSize \in Nat
    /\ \A r \in Results : r.cipher \in Seq(Nat) /\ r.acatj \in Seq(Nat)
    /\ \A r \in Results : /\ \A i \in 1..Len(r.cipher) : r.cipher[i] \in Bytes
                          /\ \A i \in 1..Len(r.acatj) : r.acatj[i] \in Bytes
<1>1. CipherSize \in Nat /\ AcatjSize \in Nat
  BY EncResultAssumption
<1>2. ASSUME NEW r \in AnswerSet PROVE r \in Results
  <2>1. r \in [cipher : [1..CipherSize -> Bytes], acatj : [1..AcatjSize -> Bytes]]
    BY EncResultAssumption
  <2>2. [1..CipherSize -> Bytes] \subseteq Seq(Bytes) /\ [1..AcatjSize -> Bytes] \subseteq Seq(Bytes)
    BY <1>1
  <2> QED
    BY <2>1, <2>2 DEF Results
<1>3. NoResult \in Results
  BY DEF NoResult, Results
<1>4. Bytes \subseteq Nat
  BY DEF Bytes
<1>5. ASSUME NEW r \in Results PROVE r.cipher \in Seq(Bytes) /\ r.acatj \in Seq(Bytes)
  BY DEF Results
<1>6. \A s \in Seq(Bytes) : s \in Seq(Nat) /\ \A i \in 1..Len(s) : s[i] \in Bytes
  <2>1. ASSUME NEW s \in Seq(Bytes) PROVE s \in Seq(Nat)
    BY <1>4, SeqMonotonic
  <2> QED
    BY <2>1
<1> QED
  BY <1>1, <1>2, <1>3, <1>5, <1>6

\* What is saved of a result, item by item.
LEMMA SavedItems ==
    ASSUME NEW r \in Results
    PROVE  /\ Saved(r) \in Seq(Nat) /\ Len(Saved(r)) = 1 + Len(r.cipher) + Len(r.acatj)
           /\ Saved(r)[1] = Len(r.cipher)
           /\ \A i \in 1..Len(r.cipher) : Saved(r)[1 + i] = r.cipher[i]
           /\ \A i \in 1..Len(r.acatj) : Saved(r)[1 + Len(r.cipher) + i] = r.acatj[i]
<1> DEFINE head  == <<Len(r.cipher)>>
           front == head \o r.cipher
           C == Len(r.cipher)
<1>1. r.cipher \in Seq(Nat) /\ r.acatj \in Seq(Nat) /\ C \in Nat /\ Len(r.acatj) \in Nat
  BY ResultsType
<1>2. head \in Seq(Nat) /\ Len(head) = 1 /\ head[1] = C
  BY <1>1
<1>3. /\ front \in Seq(Nat) /\ Len(front) = 1 + C
      /\ front[1] = C /\ \A i \in 1..C : front[1 + i] = r.cipher[i]
  <2> HIDE DEF head
  <2>1. /\ front \in Seq(Nat) /\ Len(front) = Len(head) + Len(r.cipher)
        /\ \A i \in 1..Len(head) : front[i] = head[i]
        /\ \A i \in 1..Len(r.cipher) : front[Len(head) + i] = r.cipher[i]
    BY <1>1, <1>2, Joined
  <2> QED
    BY <1>1, <1>2, <2>1
<1>4. Saved(r) = front \o r.acatj
  BY DEF Saved
<1> HIDE DEF front, head
<1>5. /\ Saved(r) \in Seq(Nat) /\ Len(Saved(r)) = Len(front) + Len(r.acatj)
      /\ \A i \in 1..Len(front) : Saved(r)[i] = front[i]
      /\ \A i \in 1..Len(r.acatj) : Saved(r)[Len(front) + i] = r.acatj[i]
  <2>1. /\ front \o r.acatj \in Seq(Nat) /\ Len(front \o r.acatj) = Len(front) + Len(r.acatj)
        /\ \A i \in 1..Len(front) : (front \o r.acatj)[i] = front[i]
        /\ \A i \in 1..Len(r.acatj) : (front \o r.acatj)[Len(front) + i] = r.acatj[i]
    BY <1>1, <1>3, Joined
  <2> QED
    BY <1>4, <2>1
<1>6. 1 \in 1..(1 + C) /\ \A i \in 1..C : 1 + i \in 1..(1 + C)
  BY <1>1
<1>7. Saved(r)[1] = C /\ \A i \in 1..C : Saved(r)[1 + i] = r.cipher[i]
  BY <1>3, <1>5, <1>6
<1> QED
  BY <1>1, <1>3, <1>5, <1>7

\* All results that servers give take the same room.
LEMMA SavedType ==
    ASSUME NEW r \in AnswerSet
    PROVE  Saved(r) \in Seq(Nat) /\ Len(Saved(r)) = 1 + CipherSize + AcatjSize
  BY SavedItems, ResultsType, ResultType

\* So one that is written over another leaves nothing of it.
LEMMA WrittenOverIsSaved ==
    ASSUME NEW r \in AnswerSet, NEW old \in Seq(Nat), Len(old) <= 1 + CipherSize + AcatjSize
    PROVE  WrittenOver(old, Saved(r)) = Saved(r)
<1>1. SubSeq(old, Len(Saved(r)) + 1, Len(old)) = <<>>
  BY SavedType, ResultType, SubSeqEmpty
<1> QED
  BY <1>1, SavedType, ConcatEmptySeq DEF WrittenOver

\* The items of an answer, by their places.
LEMMA AnswerItems ==
    ASSUME NEW r \in AnswerSet
    PROVE  LET answer == AnswerOf(r)
           IN /\ answer \in Seq(Nat) /\ Len(answer) = 3 + CipherSize + AcatjSize
              /\ answer[2] = CipherSize /\ answer[3 + CipherSize] = AcatjSize
              /\ \A i \in 1..CipherSize : answer[2 + i] = r.cipher[i]
              /\ \A i \in 1..AcatjSize : answer[3 + CipherSize + i] = r.acatj[i]
<1> DEFINE front  == <<1, CipherSize>> \o r.cipher
           middle == front \o <<AcatjSize>>
           answer == middle \o r.acatj
<1>0. /\ r.cipher \in Seq(Nat) /\ Len(r.cipher) = CipherSize /\ CipherSize \in Nat
      /\ r.acatj \in Seq(Nat) /\ Len(r.acatj) = AcatjSize /\ AcatjSize \in Nat
  BY ResultType
<1>1. /\ front \in Seq(Nat) /\ Len(front) = 2 + CipherSize /\ front[2] = CipherSize
      /\ \A i \in 1..CipherSize : front[2 + i] = r.cipher[i]
  <2> DEFINE head == <<1, CipherSize>>
  <2>1. head \in Seq(Nat) /\ Len(head) = 2 /\ head[2] = CipherSize
    BY <1>0
  <2>2. front = head \o r.cipher
    OBVIOUS
  <2> HIDE DEF head, front
  <2>3. /\ front \in Seq(Nat) /\ Len(front) = Len(head) + Len(r.cipher)
        /\ \A i \in 1..Len(head) : front[i] = head[i]
        /\ \A i \in 1..Len(r.cipher) : front[Len(head) + i] = r.cipher[i]
    BY <1>0, <2>1, <2>2, Joined
  <2> QED
    BY <1>0, <2>1, <2>3
<1>2. /\ middle \in Seq(Nat) /\ Len(middle) = 3 + CipherSize
      /\ middle[3 + CipherSize] = AcatjSize
      /\ \A i \in 1..(2 + CipherSize) : middle[i] = front[i]
  <2> DEFINE size == <<AcatjSize>>
  <2>1. size \in Seq(Nat) /\ Len(size) = 1 /\ size[1] = AcatjSize
    BY <1>0
  <2>2. middle = front \o size
    OBVIOUS
  <2> HIDE DEF size, front, middle
  <2>3. /\ middle \in Seq(Nat) /\ Len(middle) = Len(front) + Len(size)
        /\ \A i \in 1..Len(front) : middle[i] = front[i]
        /\ \A i \in 1..Len(size) : middle[Len(front) + i] = size[i]
    BY <1>1, <2>1, <2>2, Joined
  <2>4. 2 + CipherSize + 1 = 3 + CipherSize
    BY <1>0
  <2>5. middle[2 + CipherSize + 1] = AcatjSize /\ Len(middle) = 2 + CipherSize + 1
    BY <1>1, <2>1, <2>3
  <2> QED
    BY <1>1, <2>3, <2>4, <2>5
<1>3. /\ answer \in Seq(Nat) /\ Len(answer) = 3 + CipherSize + AcatjSize
      /\ \A i \in 1..(3 + CipherSize) : answer[i] = middle[i]
      /\ \A i \in 1..AcatjSize : answer[3 + CipherSize + i] = r.acatj[i]
  <2>1. answer = middle \o r.acatj
    OBVIOUS
  <2> HIDE DEF middle, answer
  <2>2. /\ answer \in Seq(Nat) /\ Len(answer) = Len(middle) + Len(r.acatj)
        /\ \A i \in 1..Len(middle) : answer[i] = middle[i]
        /\ \A i \in 1..Len(r.acatj) : answer[Len(middle) + i] = r.acatj[i]
    <3>1. middle \in Seq(Nat) /\ r.acatj \in Seq(Nat)
      BY <1>0, <1>2
    <3> QED
      BY <2>1, <3>1, Joined
  <2> QED
    BY <1>0, <1>2, <2>2
<1>4. AnswerOf(r) = answer
  BY ResultType DEF AnswerOf
<1> HIDE DEF front, middle, answer
<1>5. \A i \in 1..CipherSize : 2 + i \in 1..(2 + CipherSize) /\ 2 + i \in 1..(3 + CipherSize)
  BY <1>0
<1>6. \A i \in 1..CipherSize : answer[2 + i] = r.cipher[i]
  BY SMTT(30), <1>1, <1>2, <1>3, <1>5
<1>7. answer[2] = CipherSize /\ answer[3 + CipherSize] = AcatjSize
  <2>1. /\ 2 \in 1..(2 + CipherSize) /\ 2 \in 1..(3 + CipherSize)
        /\ 3 + CipherSize \in 1..(3 + CipherSize)
    BY <1>0
  <2> QED
    BY SMTT(30), <1>1, <1>2, <1>3, <2>1
<1> QED
  BY <1>3, <1>4, <1>6, <1>7

\* Of an answer that has come as a whole the client makes what the server gave.
LEMMA WholeAnswerParsed ==
    ASSUME NEW r \in AnswerSet
    PROVE  Parsed(SubSeq(AnswerOf(r), 1, Len(AnswerOf(r)))) = r
<1> DEFINE answer == AnswerOf(r)
<1>1. /\ answer \in Seq(Nat) /\ Len(answer) = 3 + CipherSize + AcatjSize
      /\ answer[2] = CipherSize /\ answer[3 + CipherSize] = AcatjSize
      /\ \A i \in 1..CipherSize : answer[2 + i] = r.cipher[i]
      /\ \A i \in 1..AcatjSize : answer[3 + CipherSize + i] = r.acatj[i]
  BY AnswerItems
<1>2. SubSeq(answer, 1, Len(answer)) = answer
  BY <1>1, SubSeqFull
<1> HIDE DEF answer
<1>3. Item(answer, 2) = CipherSize /\ Item(answer, 3 + CipherSize) = AcatjSize
  BY <1>1, ResultType DEF Item
<1>4. Items(answer, 3, CipherSize) = r.cipher
  <2>1. ASSUME NEW i \in 1..CipherSize PROVE Item(answer, 3 + i - 1) = r.cipher[i]
    <3>1. 3 + i - 1 = 2 + i /\ 2 + i <= 3 + CipherSize + AcatjSize
      BY ResultType
    <3> QED
      BY <1>1, <3>1 DEF Item
  <2> QED
    BY <2>1, EncResultAssumption DEF Items
<1>5. Items(answer, 4 + CipherSize, AcatjSize) = r.acatj
  <2>1. ASSUME NEW i \in 1..AcatjSize PROVE Item(answer, 4 + CipherSize + i - 1) = r.acatj[i]
    <3>1. /\ 4 + CipherSize + i - 1 = 3 + CipherSize + i
          /\ 3 + CipherSize + i <= 3 + CipherSize + AcatjSize
      BY ResultType
    <3> QED
      BY <1>1, <3>1 DEF Item
  <2> QED
    BY <2>1, EncResultAssumption DEF Items
<1>6. Parsed(answer) = [cipher |-> r.cipher, acatj |-> r.acatj]
  BY <1>3, <1>4, <1>5 DEF Parsed
<1> QED
  BY <1>2, <1>6, ResultType DEF answer


\* The text of a file, byte by byte.
LEMMA TextRule ==
    ASSUME NEW bytes \in Seq(Nat)
    PROVE  \E text \in [0..Len(bytes) -> Seq(Nat)] :
             /\ TextOf(bytes) = text[Len(bytes)]
             /\ text[0] = <<>>
             /\ \A i \in 1..Len(bytes) :
                  text[i] = IF bytes[i] = CR THEN text[i - 1] ELSE Append(text[i - 1], bytes[i])
<1> DEFINE Rule(f) == [i \in 0..Len(bytes) |->
                         IF i = 0 THEN <<>>
                         ELSE IF bytes[i] = CR THEN f[i - 1] ELSE Append(f[i - 1], bytes[i])]
           step == [i \in 1..Len(bytes) |-> [t \in Seq(Nat) |->
                      IF bytes[i] = CR THEN t ELSE Append(t, bytes[i])]]
           text == CHOOSE f : f = Rule(f)
<1>1. Len(bytes) \in Nat /\ <<>> \in Seq(Nat) /\ \A i \in 1..Len(bytes) : bytes[i] \in Nat
  OBVIOUS
<1>2. step \in [1..Len(bytes) -> [Seq(Nat) -> Seq(Nat)]]
  BY <1>1
<1>3. \E f \in [0..Len(bytes) -> Seq(Nat)] : f = Rule(f)
  <2>1. PICK f \in [0..Len(bytes) -> Seq(Nat)] : Follows(f, Len(bytes), <<>>, step)
    <3> HIDE DEF step
    <3> QED
      BY <1>1, <1>2, Recursion
  <2>2. ASSUME NEW i \in 1..Len(bytes)
        PROVE  f[i] = IF bytes[i] = CR THEN f[i - 1] ELSE Append(f[i - 1], bytes[i])
    <3>1. f[i] = step[i][f[i - 1]]
      BY <2>1 DEF Follows
    <3>2. f[i - 1] \in Seq(Nat)
      <4>1. i - 1 \in 0..Len(bytes)
        BY <1>1
      <4> QED
        BY <4>1
    <3> QED
      BY <3>1, <3>2
  <2>3. f[0] = <<>>
    BY <2>1 DEF Follows
  <2> HIDE DEF step
  <2>4. f = [i \in 0..Len(bytes) |-> f[i]]
    OBVIOUS
  <2>5. ASSUME NEW i \in 0..Len(bytes) PROVE f[i] = Rule(f)[i]
    <3>1. CASE i = 0
      BY <2>3, <3>1
    <3>2. CASE i # 0
      <4>1. i \in 1..Len(bytes)
        BY <1>1, <3>2
      <4> QED
        BY <2>2, <3>2, <4>1
    <3> QED
      BY <3>1, <3>2
  <2> QED
    BY <2>4, <2>5
<1>4. text = Rule(text)
  <2> HIDE DEF Rule
  <2> QED
    BY <1>3
<1>5. TextOf(bytes) = text[Len(bytes)]
  BY DEF TextOf
<1> HIDE DEF text, step
<1>6. ASSUME NEW i \in 1..Len(bytes)
      PROVE  text[i] = IF bytes[i] = CR THEN text[i - 1] ELSE Append(text[i - 1], bytes[i])
  <2>1. i \in 0..Len(bytes) /\ i # 0
    BY <1>1
  <2>2. text[i] = Rule(text)[i]
    BY <1>4
  <2> QED
    BY <2>1, <2>2
<1>7. text[0] = <<>>
  BY <1>1, <1>4
<1>8. text \in [0..Len(bytes) -> Seq(Nat)]
  <2> DEFINE S == {i \in 0..Len(bytes) : text[i] \in Seq(Nat)}
  <2>1. 0 \in S
    <3>1. text[0] \in Seq(Nat) /\ 0 \in 0..Len(bytes)
      BY <1>1, <1>7
    <3> QED
      BY <3>1
  <2>2. ASSUME NEW n \in 0..(Len(bytes) - 1), n \in S PROVE n + 1 \in S
    <3>1. /\ n + 1 \in 1..Len(bytes) /\ n + 1 - 1 = n /\ text[n] \in Seq(Nat)
          /\ bytes[n + 1] \in Nat
      BY <1>1, <2>2
    <3>2. text[n + 1] = IF bytes[n + 1] = CR THEN text[n] ELSE Append(text[n], bytes[n + 1])
      BY <1>6, <3>1
    <3>3. text[n + 1] \in Seq(Nat)
      BY <3>1, <3>2
    <3> QED
      BY <3>1, <3>3
  <2> HIDE DEF S
  <2>3. 0..Len(bytes) \subseteq S
    BY <1>1, <2>1, <2>2, InductUpTo
  <2> QED
    BY <1>4, <2>3 DEF S
<1> QED
  BY <1>5, <1>6, <1>7, <1>8

\* A file without a CR is its own text.
LEMMA TextWithoutCR ==
    ASSUME NEW bytes \in Seq(Nat), \A i \in 1..Len(bytes) : bytes[i] # CR
    PROVE  TextOf(bytes) = bytes
<1>1. PICK text \in [0..Len(bytes) -> Seq(Nat)] :
             /\ TextOf(bytes) = text[Len(bytes)]
             /\ text[0] = <<>>
             /\ \A i \in 1..Len(bytes) :
                  text[i] = IF bytes[i] = CR THEN text[i - 1] ELSE Append(text[i - 1], bytes[i])
  BY TextRule
<1> DEFINE S == {i \in 0..Len(bytes) : text[i] = SubSeq(bytes, 1, i)}
<1>2. 0 \in S
  BY <1>1
<1>3. ASSUME NEW n \in 0..(Len(bytes) - 1), n \in S PROVE n + 1 \in S
  <2>1. n + 1 \in 1..Len(bytes) /\ n + 1 - 1 = n /\ bytes[n + 1] # CR
    OBVIOUS
  <2>2. text[n + 1] = Append(text[n], bytes[n + 1])
    <3>1. \A k \in 1..Len(bytes) : bytes[k] # CR => text[k] = Append(text[k - 1], bytes[k])
      BY <1>1
    <3> QED
      BY <2>1, <3>1
  <2>3. SubSeq(bytes, 1, n + 1) = Append(SubSeq(bytes, 1, n), bytes[n + 1])
    BY <2>1, SubSeqRecursiveSecond
  <2>4. text[n + 1] = SubSeq(bytes, 1, n + 1)
    BY <1>3, <2>2, <2>3
  <2>5. n + 1 \in 0..Len(bytes)
    OBVIOUS
  <2> QED
    BY <2>4, <2>5
<1>4. Len(bytes) \in S
  <2> HIDE DEF S
  <2>1. Len(bytes) \in Nat
    OBVIOUS
  <2>2. 0..Len(bytes) \subseteq S
    BY <1>2, <1>3, <2>1, InductUpTo
  <2> QED
    BY <2>1, <2>2
<1> QED
  BY <1>1, <1>4, SubSeqFull

\* The text begins as the file does, and has only bytes behind that.
LEMMA TextParts ==
    ASSUME NEW bytes \in Seq(Nat), bytes # <<>> => bytes[1] # CR,
           \A i \in 2..Len(bytes) : bytes[i] \in Bytes
    PROVE  /\ TextOf(bytes) \in Seq(Nat)
           /\ Len(TextOf(bytes)) = 0 <=> bytes = <<>>
           /\ bytes # <<>> => TextOf(bytes)[1] = bytes[1]
           /\ \A j \in 2..Len(TextOf(bytes)) : TextOf(bytes)[j] \in Bytes
<1>1. PICK text \in [0..Len(bytes) -> Seq(Nat)] :
             /\ TextOf(bytes) = text[Len(bytes)]
             /\ text[0] = <<>>
             /\ \A i \in 1..Len(bytes) :
                  text[i] = IF bytes[i] = CR THEN text[i - 1] ELSE Append(text[i - 1], bytes[i])
  BY TextRule
<1> DEFINE Good(i) == /\ Len(text[i]) = 0 <=> i = 0
                      /\ i # 0 => text[i][1] = bytes[1]
                      /\ \A j \in 2..Len(text[i]) : text[i][j] \in Bytes
           S == {i \in 0..Len(bytes) : Good(i)}
<1>2. 0 \in S
  BY <1>1
<1>3. ASSUME NEW n \in 0..(Len(bytes) - 1), n \in S PROVE n + 1 \in S
  <2>1. /\ n + 1 \in 1..Len(bytes) /\ n + 1 - 1 = n /\ text[n] \in Seq(Nat)
        /\ bytes[n + 1] \in Nat /\ Good(n) /\ bytes # <<>>
    <3>1. Len(bytes) \in Nat /\ n \in Nat
      OBVIOUS
    <3>2. n + 1 \in 1..Len(bytes) /\ n + 1 - 1 = n /\ bytes # <<>>
      BY <3>1
    <3>3. text[n] \in Seq(Nat) /\ bytes[n + 1] \in Nat
      <4>1. n \in 0..Len(bytes)
        BY <3>1
      <4> QED
        BY SMTT(30), <3>2, <4>1
    <3>4. Good(n)
      BY <1>3
    <3> HIDE DEF Good
    <3> QED
      BY <3>2, <3>3, <3>4
  <2>2. text[n + 1] = IF bytes[n + 1] = CR THEN text[n] ELSE Append(text[n], bytes[n + 1])
    BY SMTT(30), <1>1, <2>1
  <2>3. CASE bytes[n + 1] = CR
    <3>1. n # 0 /\ text[n + 1] = text[n]
      BY <2>1, <2>2, <2>3
    <3> QED
      BY SMTT(30), <2>1, <3>1
  <2>4. CASE bytes[n + 1] # CR
    <3>1. /\ text[n + 1] = Append(text[n], bytes[n + 1]) /\ Len(text[n + 1]) = Len(text[n]) + 1
          /\ Len(text[n]) \in Nat
          /\ text[n + 1][Len(text[n]) + 1] = bytes[n + 1]
          /\ \A j \in 1..Len(text[n]) : text[n + 1][j] = text[n][j]
      BY SMTT(30), <2>1, <2>2, <2>4
    <3>2. CASE n = 0
      BY <2>1, <3>1, <3>2
    <3>3. CASE n # 0
      <4>1. bytes[n + 1] \in Bytes /\ Len(text[n]) >= 1
        BY <2>1, <3>1, <3>3
      <4>2. \A j \in 2..Len(text[n + 1]) : text[n + 1][j] \in Bytes
        BY SMTT(30), <2>1, <3>1, <4>1
      <4>3. text[n + 1][1] = bytes[1]
        BY <2>1, <3>1, <3>3, <4>1
      <4>4. Len(text[n + 1]) # 0
        BY <3>1
      <4> QED
        BY <2>1, <4>2, <4>3, <4>4
    <3> QED
      BY <3>2, <3>3
  <2> QED
    BY <2>3, <2>4
<1>4. Len(bytes) \in S
  <2> HIDE DEF S
  <2>1. Len(bytes) \in Nat
    OBVIOUS
  <2>2. 0..Len(bytes) \subseteq S
    BY <1>2, <1>3, <2>1, InductUpTo
  <2> QED
    BY <2>1, <2>2
<1>5. Len(bytes) = 0 <=> bytes = <<>>
  OBVIOUS
<1> QED
  BY <1>1, <1>4, <1>5

\* Items from a stretch of bytes.
LEMMA ItemsType ==
    ASSUME NEW stream, NEW from \in Nat, NEW size \in Nat,
           \A i \in 1..size : Item(stream, from + i - 1) \in Bytes
    PROVE  Items(stream, from, size) \in Seq(Bytes) /\ Len(Items(stream, from, size)) = size
<1>1. Items(stream, from, size) \in [1..size -> Bytes]
  BY DEF Items
<1> QED
  BY <1>1

\* What a client makes of the first part of an answer has the parts of an answer, or
\* empty ones.
LEMMA ParsedParts ==
    ASSUME NEW r \in AnswerSet, NEW come \in 1..Len(AnswerOf(r))
    PROVE  LET p == Parsed(SubSeq(AnswerOf(r), 1, come))
           IN p \in Results /\ Len(p.cipher) \in {0, CipherSize} /\ Len(p.acatj) \in {0, AcatjSize}
<1> DEFINE answer == AnswerOf(r)
           pre    == SubSeq(answer, 1, come)
           size   == Item(pre, 2)
           last   == Item(pre, 3 + size)
<1>1. /\ answer \in Seq(Nat) /\ Len(answer) = 3 + CipherSize + AcatjSize
      /\ answer[2] = CipherSize /\ answer[3 + CipherSize] = AcatjSize
      /\ \A i \in 1..CipherSize : answer[2 + i] = r.cipher[i]
      /\ \A i \in 1..AcatjSize : answer[3 + CipherSize + i] = r.acatj[i]
  BY AnswerItems
<1>2. CipherSize \in Nat /\ AcatjSize \in Nat
  BY ResultsType
<1>3. pre \in Seq(Nat) /\ Len(pre) = come /\ \A i \in 1..come : pre[i] = answer[i]
  <2>1. Len(answer) \in Nat
    BY <1>1
  <2> HIDE DEF answer
  <2>2. pre = [i \in 1..come |-> answer[i]]
    BY <1>1, <2>1
  <2>3. come \in Nat /\ \A i \in 1..come : answer[i] \in Nat
    BY <1>1, <2>1 DEF answer
  <2> HIDE DEF pre
  <2> QED
    BY <2>2, <2>3
<1>4. \A i \in Nat \ {0} : Item(pre, i) = 0 \/ (i <= come /\ Item(pre, i) = answer[i])
  <2> HIDE DEF answer, pre
  <2> QED
    BY <1>1, <1>2, <1>3 DEF Item, answer
<1> HIDE DEF answer, pre
<1>5. \A i \in 1..CipherSize : Item(pre, 3 + i - 1) \in Bytes
  <2> SUFFICES ASSUME NEW i \in 1..CipherSize PROVE Item(pre, 3 + i - 1) \in Bytes
    OBVIOUS
  <2>1. 3 + i - 1 = 2 + i /\ 2 + i \in Nat \ {0} /\ answer[2 + i] \in Bytes
    <3>1. Len(r.cipher) = CipherSize /\ r \in Results
      BY ResultType, ResultsType
    <3>2. r.cipher[i] \in Bytes /\ answer[2 + i] = r.cipher[i]
      BY <1>1, <3>1, ResultsType
    <3> QED
      BY <1>2, <3>2
  <2>2. 0 \in Bytes
    BY DEF Bytes
  <2> QED
    BY <1>4, <2>1, <2>2
<1>6. \A i \in 1..AcatjSize : Item(pre, 4 + CipherSize + i - 1) \in Bytes
  <2> SUFFICES ASSUME NEW i \in 1..AcatjSize PROVE Item(pre, 4 + CipherSize + i - 1) \in Bytes
    OBVIOUS
  <2>1. /\ 4 + CipherSize + i - 1 = 3 + CipherSize + i /\ 3 + CipherSize + i \in Nat \ {0}
        /\ answer[3 + CipherSize + i] \in Bytes
    <3>1. Len(r.acatj) = AcatjSize /\ r \in Results
      BY ResultType, ResultsType
    <3>2. r.acatj[i] \in Bytes /\ answer[3 + CipherSize + i] = r.acatj[i]
      BY <1>1, <3>1, ResultsType
    <3> QED
      BY <1>2, <3>2
  <2>2. 0 \in Bytes
    BY DEF Bytes
  <2> QED
    BY <1>4, <2>1, <2>2
<1>7. Parsed(pre) = [cipher |-> Items(pre, 3, size), acatj |-> Items(pre, 4 + size, last)]
  BY DEF Parsed
<1>8. \/ size = CipherSize /\ last \in {0, AcatjSize}
      \/ size = 0 /\ last = 0
  <2>1. CASE come >= 2
    <3>1. size = CipherSize
      BY <1>1, <1>3, <2>1 DEF Item
    <3>2. 3 + CipherSize \in Nat \ {0}
      BY <1>2
    <3>3. last = 0 \/ last = answer[3 + CipherSize]
      BY <1>4, <3>1, <3>2
    <3> QED
      BY <1>1, <3>1, <3>3
  <2>2. CASE come < 2
    <3>1. size = 0
      BY <1>3, <2>2 DEF Item
    <3>2. last = 0
      BY <1>3, <2>2, <3>1 DEF Item
    <3> QED
      BY <3>1, <3>2
  <2> QED
    BY <1>1, <1>2, <2>1, <2>2 DEF answer
<1> HIDE DEF size, last
<1>9. /\ Items(pre, 3, size) \in Seq(Bytes) /\ Len(Items(pre, 3, size)) = size
      /\ Items(pre, 4 + size, last) \in Seq(Bytes) /\ Len(Items(pre, 4 + size, last)) = last
  <2>1. /\ size \in Nat /\ last \in Nat /\ 4 + size \in Nat
        /\ \A i \in 1..size : Item(pre, 3 + i - 1) \in Bytes
        /\ \A i \in 1..last : Item(pre, 4 + size + i - 1) \in Bytes
    <3>1. CASE size = CipherSize /\ last \in {0, AcatjSize}
      <4>1. size \in Nat /\ last \in Nat /\ 4 + size \in Nat
        BY <1>2, <3>1
      <4>2. \A i \in 1..size : Item(pre, 3 + i - 1) \in Bytes
        BY <1>5, <3>1
      <4>3. \A i \in 1..last : i \in 1..AcatjSize
        BY <1>2, <3>1
      <4>4. \A i \in 1..last : Item(pre, 4 + size + i - 1) \in Bytes
        BY <1>6, <3>1, <4>3
      <4> QED
        BY <4>1, <4>2, <4>4
    <3>2. CASE size = 0 /\ last = 0
      BY <3>2
    <3> QED
      BY <1>8, <3>1, <3>2
  <2> QED
    BY <2>1, ItemsType
<1> QED
  BY <1>7, <1>8, <1>9 DEF Results, pre, answer

\* The file afterwards: the new bytes, and behind them what is left of the old.
LEMMA WrittenOverItems ==
    ASSUME NEW new \in Seq(Nat), NEW old \in Seq(Nat)
    PROVE  LET written == WrittenOver(old, new)
           IN /\ written \in Seq(Nat)
              /\ Len(written) = IF Len(old) > Len(new) THEN Len(old) ELSE Len(new)
              /\ \A i \in 1..Len(new) : written[i] = new[i]
              /\ \A i \in (Len(new) + 1)..Len(written) : written[i] = old[i]
<1> DEFINE rest == SubSeq(old, Len(new) + 1, Len(old))
<1>1. Len(new) \in Nat /\ Len(old) \in Nat
  OBVIOUS
<1>2. /\ rest \in Seq(Nat)
      /\ Len(rest) = IF Len(old) > Len(new) THEN Len(old) - Len(new) ELSE 0
      /\ \A i \in 1..Len(rest) : rest[i] = old[Len(new) + i]
  <2>1. CASE Len(old) > Len(new)
    BY <1>1, <2>1, SubSeqProperties
  <2>2. CASE Len(old) <= Len(new)
    <3>1. rest = <<>>
      BY <1>1, <2>2, SubSeqEmpty
    <3> QED
      BY <1>1, <2>2, <3>1
  <2> QED
    BY <1>1, <2>1, <2>2
<1>3. WrittenOver(old, new) = new \o rest
  BY DEF WrittenOver
<1> HIDE DEF rest
<1>4. /\ new \o rest \in Seq(Nat) /\ Len(new \o rest) = Len(new) + Len(rest)
      /\ \A i \in 1..Len(new) : (new \o rest)[i] = new[i]
      /\ \A i \in 1..Len(rest) : (new \o rest)[Len(new) + i] = rest[i]
  BY <1>2, Joined
<1>5. ASSUME NEW i \in (Len(new) + 1)..Len(new \o rest) PROVE (new \o rest)[i] = old[i]
  <2>1. i - Len(new) \in 1..Len(rest) /\ Len(new) + (i - Len(new)) = i
    BY <1>1, <1>2, <1>4
  <2> QED
    BY <1>2, <1>4, <2>1
<1>6. Len(new) + Len(rest) = IF Len(old) > Len(new) THEN Len(old) ELSE Len(new)
  BY <1>1, <1>2
<1> QED
  BY <1>3, <1>4, <1>5, <1>6

\* A file begins with a size of 0 or CipherSize; what follows are bytes.
IsSaved(bytes) ==
    /\ bytes \in Seq(Nat) /\ Len(bytes) <= 1 + CipherSize + AcatjSize
    /\ bytes # <<>> => bytes[1] \in {0, CipherSize}
    /\ \A i \in 2..Len(bytes) : bytes[i] \in Bytes

\* What a run saves, over whatever there is, leaves such a file.
LEMMA WrittenIsSaved ==
    ASSUME NEW r \in Results, Len(r.cipher) \in {0, CipherSize}, Len(r.acatj) \in {0, AcatjSize},
           NEW old, IsSaved(old)
    PROVE  IsSaved(WrittenOver(old, Saved(r)))
<1> DEFINE new == Saved(r)
           written == WrittenOver(old, new)
<1>1. /\ CipherSize \in Nat /\ AcatjSize \in Nat
      /\ \A i \in 1..Len(r.cipher) : r.cipher[i] \in Bytes
      /\ \A i \in 1..Len(r.acatj) : r.acatj[i] \in Bytes
  BY ResultsType
<1>2. /\ new \in Seq(Nat) /\ Len(new) = 1 + Len(r.cipher) + Len(r.acatj)
      /\ new[1] = Len(r.cipher)
      /\ \A i \in 1..Len(r.cipher) : new[1 + i] = r.cipher[i]
      /\ \A i \in 1..Len(r.acatj) : new[1 + Len(r.cipher) + i] = r.acatj[i]
  BY SavedItems
<1> HIDE DEF new
<1>3. ASSUME NEW i \in 2..Len(new) PROVE new[i] \in Bytes
  <2> DEFINE C == Len(r.cipher)
             A == Len(r.acatj)
             n == Len(new)
  <2>1. C \in Nat /\ A \in Nat /\ n = 1 + C + A
    <3>1. r.cipher \in Seq(Nat) /\ r.acatj \in Seq(Nat)
      BY ResultsType
    <3> QED
      BY <1>2, <3>1
  <2>2. \A j \in 1..C : new[1 + j] \in Bytes
    BY <1>1, <1>2
  <2>3. \A j \in 1..A : new[1 + C + j] \in Bytes
    BY <1>1, <1>2
  <2>4. i \in 2..n
    OBVIOUS
  <2> HIDE DEF C, A, n
  <2>5. CASE i <= 1 + C
    <3>1. i - 1 \in 1..C /\ 1 + (i - 1) = i
      BY <2>1, <2>4, <2>5
    <3> QED
      BY <2>2, <3>1
  <2>6. CASE i > 1 + C
    <3>1. i - 1 - C \in 1..A /\ 1 + C + (i - 1 - C) = i
      BY <2>1, <2>4, <2>6
    <3> QED
      BY <2>3, <3>1
  <2> QED
    BY <2>1, <2>4, <2>5, <2>6
<1>4. old \in Seq(Nat)
  BY DEF IsSaved
<1>5. /\ written \in Seq(Nat)
      /\ Len(written) = IF Len(old) > Len(new) THEN Len(old) ELSE Len(new)
      /\ \A i \in 1..Len(new) : written[i] = new[i]
      /\ \A i \in (Len(new) + 1)..Len(written) : written[i] = old[i]
  BY <1>2, <1>4, WrittenOverItems
<1> HIDE DEF written
<1>6. Len(new) \in Nat /\ Len(old) \in Nat /\ Len(new) >= 1 /\ Len(new) <= 1 + CipherSize + AcatjSize
  <2>1. \A s \in Seq(Nat) : Len(s) \in Nat
    OBVIOUS
  <2>2. Len(new) \in Nat /\ Len(old) \in Nat
    BY <1>2, <1>4, <2>1
  <2>3. /\ Len(r.cipher) \in Nat /\ Len(r.cipher) <= CipherSize
        /\ Len(r.acatj) \in Nat /\ Len(r.acatj) <= AcatjSize
    BY <1>1
  <2>4. Len(new) = 1 + Len(r.cipher) + Len(r.acatj)
    BY <1>2
  <2> QED
    <3>1. \A c, a \in Nat : c <= CipherSize /\ a <= AcatjSize =>
            1 + c + a >= 1 /\ 1 + c + a <= 1 + CipherSize + AcatjSize
      BY <1>1
    <3> QED
      BY <2>2, <2>3, <2>4, <3>1
<1>7. written[1] \in {0, CipherSize}
  <2>1. 1 \in 1..Len(new)
    BY <1>6
  <2> QED
    BY <1>2, <1>5, <2>1
<1>8. ASSUME NEW i \in 2..Len(written) PROVE written[i] \in Bytes
  <2>1. CASE i <= Len(new)
    <3>1. i \in 1..Len(new) /\ i \in 2..Len(new)
      BY <1>6, <2>1
    <3>2. written[i] = new[i]
      BY <1>5, <3>1
    <3> QED
      BY <1>3, <3>1, <3>2
  <2>2. CASE i > Len(new)
    <3>1. i \in (Len(new) + 1)..Len(written) /\ i \in 2..Len(old)
      BY <1>5, <1>6, <2>2
    <3> QED
      BY <1>5, <3>1 DEF IsSaved
  <2> QED
    BY <1>5, <1>6, <2>1, <2>2
<1>9. Len(written) <= 1 + CipherSize + AcatjSize
  BY <1>1, <1>5, <1>6 DEF IsSaved
<1> QED
  BY <1>5, <1>7, <1>8, <1>9 DEF IsSaved, written, new

\* What is read back of such a file has the parts of a result.
LEMMA ReadBackParts ==
    ASSUME NEW bytes, IsSaved(bytes)
    PROVE  LET r == ReadBack(bytes)
           IN r \in Results /\ Len(r.cipher) <= CipherSize /\ Len(r.acatj) <= AcatjSize
<1> DEFINE text == TextOf(bytes)
           size == Item(text, 1)
<1>1. CipherSize \in Nat \ {CR} /\ AcatjSize \in Nat
  BY EncResultAssumption
<1>2. /\ text \in Seq(Nat) /\ (Len(text) = 0 <=> bytes = <<>>)
      /\ bytes # <<>> => text[1] = bytes[1]
      /\ \A j \in 2..Len(text) : text[j] \in Bytes
  <2>1. bytes \in Seq(Nat) /\ (bytes # <<>> => bytes[1] # CR)
    BY <1>1 DEF IsSaved, CR
  <2> QED
    BY <2>1, TextParts DEF IsSaved
<1>3. ReadBack(bytes) = [cipher |-> Items(text, 2, size), acatj |-> Items(text, 2 + size, AcatjSize)]
  BY DEF ReadBack
<1> HIDE DEF text
<1>4. size \in {0, CipherSize}
  BY <1>2 DEF Item, IsSaved
<1>5. \A i \in Nat : i >= 2 => Item(text, i) \in Bytes
  BY <1>2 DEF Item, Bytes
<1> HIDE DEF size
<1>6. /\ Items(text, 2, size) \in Seq(Bytes) /\ Len(Items(text, 2, size)) = size
      /\ Items(text, 2 + size, AcatjSize) \in Seq(Bytes)
      /\ Len(Items(text, 2 + size, AcatjSize)) = AcatjSize
  <2>1. /\ size \in Nat /\ 2 + size \in Nat
        /\ \A i \in 1..size : Item(text, 2 + i - 1) \in Bytes
        /\ \A i \in 1..AcatjSize : Item(text, 2 + size + i - 1) \in Bytes
    BY <1>1, <1>4, <1>5
  <2> QED
    BY <1>1, <2>1, ItemsType
<1> QED
  BY <1>1, <1>3, <1>4, <1>6 DEF Results

\* A saved result with no CR in it is read back as it was.
LEMMA SavedIsRead ==
    ASSUME NEW r \in AnswerSet, \A i \in 1..Len(Saved(r)) : Saved(r)[i] # CR
    PROVE  ReadBack(Saved(r)) = r
<1> DEFINE text == Saved(r)
<1>1. /\ r.cipher \in Seq(Nat) /\ Len(r.cipher) = CipherSize /\ CipherSize \in Nat
      /\ r.acatj \in Seq(Nat) /\ Len(r.acatj) = AcatjSize /\ AcatjSize \in Nat
      /\ r = [cipher |-> r.cipher, acatj |-> r.acatj]
  BY ResultType
<1>2. /\ text \in Seq(Nat) /\ Len(text) = 1 + CipherSize + AcatjSize
      /\ text[1] = CipherSize
      /\ \A i \in 1..CipherSize : text[1 + i] = r.cipher[i]
      /\ \A i \in 1..AcatjSize : text[1 + CipherSize + i] = r.acatj[i]
  BY <1>1, SavedItems, ResultsType
<1>3. TextOf(text) = text
  BY <1>2, TextWithoutCR
<1> HIDE DEF text
<1>4. Item(text, 1) = CipherSize
  BY <1>1, <1>2 DEF Item
<1>5. Items(text, 2, CipherSize) = r.cipher
  <2>1. ASSUME NEW i \in 1..CipherSize PROVE Item(text, 2 + i - 1) = r.cipher[i]
    <3>1. 2 + i - 1 = 1 + i /\ 1 + i <= 1 + CipherSize + AcatjSize
      BY <1>1
    <3> QED
      BY <1>2, <3>1 DEF Item
  <2> QED
    BY <1>1, <2>1 DEF Items
<1>6. Items(text, 2 + CipherSize, AcatjSize) = r.acatj
  <2>1. ASSUME NEW i \in 1..AcatjSize PROVE Item(text, 2 + CipherSize + i - 1) = r.acatj[i]
    <3>1. /\ 2 + CipherSize + i - 1 = 1 + CipherSize + i
          /\ 1 + CipherSize + i <= 1 + CipherSize + AcatjSize
      BY <1>1
    <3> QED
      BY <1>2, <3>1 DEF Item
  <2> QED
    BY <1>1, <2>1 DEF Items
<1>7. ReadBack(text) = [cipher |-> r.cipher, acatj |-> r.acatj]
  BY <1>3, <1>4, <1>5, <1>6 DEF ReadBack
<1> QED
  BY <1>1, <1>7 DEF text

\* As a sequence such a file is what its type says.
LEMMA SavedFileType ==
    ASSUME NEW bytes, IsSaved(bytes)
    PROVE  bytes \in Seq(Bytes \cup {CipherSize}) /\ Len(bytes) <= 1 + CipherSize + AcatjSize
<1>1. bytes \in Seq(Nat) /\ Len(bytes) \in Nat /\ bytes = [i \in 1..Len(bytes) |-> bytes[i]]
  BY DEF IsSaved
<1>2. ASSUME NEW i \in 1..Len(bytes) PROVE bytes[i] \in Bytes \cup {CipherSize}
  <2>1. CASE i = 1
    <3>1. bytes # <<>>
      BY <1>1
    <3>2. 0 \in Bytes
      BY DEF Bytes
    <3> QED
      BY <2>1, <3>1, <3>2 DEF IsSaved
  <2>2. CASE i # 1
    <3>1. i \in 2..Len(bytes)
      BY <1>1, <2>2
    <3> QED
      BY <3>1 DEF IsSaved
  <2> QED
    BY <2>1, <2>2
<1> QED
  BY <1>1, <1>2 DEF IsSaved

-----------------------------------------------------------------------------
Unsegmented == \A c \in Clients : "segments" \notin reason[c]

\* The file is empty or one result that a client was given and has saved.
FileIsOne == file = <<>> \/ (newest \in AnswerSet \cap Kept /\ file = Saved(newest))

\* The parts of what a client makes of an answer are whole or empty, and so is what it
\* leaves in the file.
PartsInv ==
    /\ IsSaved(file)
    /\ \A c \in Clients :
         Len(parsed[c].cipher) \in {0, CipherSize} /\ Len(parsed[c].acatj) \in {0, AcatjSize}

\* What a client is about to save is what it was given, unless an answer came in segments,
\* which every client remembers from then on.
WholeInv ==
    /\ \A c, d \in Clients : "segments" \in reason[c] => "segments" \in reason[d]
    /\ Unsegmented =>
         /\ FileIsOne
         /\ \A c \in Clients : phase[c] \in {"answered", "saving"} =>
              sent[c] \in AnswerSet /\ parsed[c] = sent[c]

\* The inductive invariant.
EncResultInv == TypeOK /\ PartsInv /\ WholeInv /\ ReadBackIsOneAnswer

\* There is no file at the start, and nobody has read or saved anything.
LEMMA EncResultInit == Init => EncResultInv
<1> SUFFICES ASSUME Init PROVE EncResultInv
  OBVIOUS
<1>1. NoResult \in Results /\ CipherSize \in Nat /\ AcatjSize \in Nat
  BY ResultsType
<1>2. IsSaved(<<>>)
  BY <1>1 DEF IsSaved
<1>3. /\ file = <<>> /\ file \in Seq(Bytes \cup {CipherSize})
      /\ Len(file) <= 1 + CipherSize + AcatjSize
  BY <1>2, SavedFileType DEF Init
<1>4. Len(NoResult.cipher) = 0 /\ Len(NoResult.acatj) = 0
  BY DEF NoResult
<1>5. TypeOK
  <2>1. \A c \in Clients : parsed[c] = NoResult /\ given[c] = NoResult
    BY DEF Init
  <2>2. \A c \in Clients : \A r \in {parsed[c], given[c]} :
          Len(r.cipher) <= CipherSize /\ Len(r.acatj) <= AcatjSize
    BY <1>1, <1>4, <2>1
  <2>3. parsed \in [Clients -> Results] /\ given \in [Clients -> Results]
    BY <1>1 DEF Init
  <2> QED
    BY <1>3, <2>2, <2>3 DEF Init, TypeOK
<1>6. PartsInv
  BY <1>2, <1>3, <1>4 DEF Init, PartsInv
<1> QED
  BY <1>3, <1>5, <1>6 DEF Init, EncResultInv, WholeInv, FileIsOne, ReadBackIsOneAnswer

\* What ReadAnswer does, with the answer and what of it has come named.
LEMMA AnswerRead ==
    ASSUME NEW c \in Clients, ReadAnswer(c)
    PROVE  \E r \in AnswerSet : \E come \in 1..Len(AnswerOf(r)) :
             /\ sent' = [sent EXCEPT ![c] = r]
             /\ parsed' = [parsed EXCEPT ![c] = Parsed(SubSeq(AnswerOf(r), 1, come))]
             /\ reason' = [d \in Clients |-> IF come < Len(AnswerOf(r))
                                             THEN reason[d] \cup {"segments"} ELSE reason[d]]
<1>1. PICK r \in AnswerSet :
        \E come \in (IF "segments" \in Faults THEN 1..Len(AnswerOf(r)) ELSE {Len(AnswerOf(r))}) :
          /\ sent' = [sent EXCEPT ![c] = r]
          /\ parsed' = [parsed EXCEPT ![c] = Parsed(SubSeq(AnswerOf(r), 1, come))]
          /\ reason' = [d \in Clients |-> IF come < Len(AnswerOf(r))
                                          THEN reason[d] \cup {"segments"} ELSE reason[d]]
  BY DEF ReadAnswer
<1>2. Len(AnswerOf(r)) \in 1..Len(AnswerOf(r))
  <2>1. Len(AnswerOf(r)) \in Nat /\ Len(AnswerOf(r)) >= 1
    BY AnswerItems, ResultsType
  <2> QED
    BY <2>1
<1>3. \A come \in (IF "segments" \in Faults THEN 1..Len(AnswerOf(r)) ELSE {Len(AnswerOf(r))}) :
        come \in 1..Len(AnswerOf(r))
  BY <1>2
<1> QED
  BY <1>1, <1>3, Zenon

\* Types, and parts of results, by the step that changes what they speak of.
LEMMA TypeStep ==
    ASSUME TypeOK, PartsInv, [Next]_vars
    PROVE  TypeOK' /\ PartsInv'
<1> USE DEF TypeOK, PartsInv
<1>1. CASE UNCHANGED vars
  BY <1>1 DEF vars
<1>2. ASSUME NEW c \in Clients, ReadAnswer(c) PROVE TypeOK' /\ PartsInv'
  <2>1. PICK r \in AnswerSet : \E come \in 1..Len(AnswerOf(r)) :
             /\ sent' = [sent EXCEPT ![c] = r]
             /\ parsed' = [parsed EXCEPT ![c] = Parsed(SubSeq(AnswerOf(r), 1, come))]
             /\ reason' = [d \in Clients |-> IF come < Len(AnswerOf(r))
                                             THEN reason[d] \cup {"segments"} ELSE reason[d]]
    BY <1>2, AnswerRead
  <2>2. PICK come \in 1..Len(AnswerOf(r)) :
             /\ sent' = [sent EXCEPT ![c] = r]
             /\ parsed' = [parsed EXCEPT ![c] = Parsed(SubSeq(AnswerOf(r), 1, come))]
             /\ reason' = [d \in Clients |-> IF come < Len(AnswerOf(r))
                                             THEN reason[d] \cup {"segments"} ELSE reason[d]]
    BY <2>1
  <2> DEFINE p == Parsed(SubSeq(AnswerOf(r), 1, come))
  <2>3. p \in Results /\ Len(p.cipher) \in {0, CipherSize} /\ Len(p.acatj) \in {0, AcatjSize}
    BY ParsedParts
  <2>4. CipherSize \in Nat /\ AcatjSize \in Nat
    BY ResultsType
  <2> HIDE DEF p
  <2>5. parsed' = [parsed EXCEPT ![c] = p]
    BY <2>2 DEF p
  <2>6. /\ parsed' \in [Clients -> Results]
        /\ \A d \in Clients : Len(parsed'[d].cipher) \in {0, CipherSize}
        /\ \A d \in Clients : Len(parsed'[d].acatj) \in {0, AcatjSize}
    BY <2>3, <2>5
  <2>7. reason' \in [Clients -> SUBSET {"segments", "empty", "cr"}]
    BY <2>2
  <2>8. sent' \in [Clients -> AnswerSet \cup {NoResult}]
    BY <2>2
  <2>9. \A d \in Clients : Len(parsed'[d].cipher) <= CipherSize /\ Len(parsed'[d].acatj) <= AcatjSize
    BY <2>4, <2>6
  <2> QED
    BY <1>2, <2>6, <2>7, <2>8, <2>9 DEF ReadAnswer
<1>3. ASSUME NEW c \in Clients, OpenFile(c) PROVE TypeOK' /\ PartsInv'
  <2>1. CipherSize \in Nat /\ AcatjSize \in Nat
    BY ResultsType
  <2>2. IsSaved(<<>>)
    BY <2>1 DEF IsSaved
  <2>3. IsSaved(file')
    BY <1>3, <2>2 DEF OpenFile
  <2>4. file' \in Seq(Bytes \cup {CipherSize}) /\ Len(file') <= 1 + CipherSize + AcatjSize
    BY <2>3, SavedFileType
  <2> QED
    BY <1>3, <2>3, <2>4 DEF OpenFile
<1>4. ASSUME NEW c \in Clients, WriteFile(c) PROVE TypeOK' /\ PartsInv'
  <2>1. file' = WrittenOver(file, Saved(parsed[c])) /\ parsed[c] \in Results
    BY <1>4 DEF WriteFile
  <2>2. IsSaved(file')
    BY <2>1, WrittenIsSaved
  <2>3. file' \in Seq(Bytes \cup {CipherSize}) /\ Len(file') <= 1 + CipherSize + AcatjSize
    BY <2>2, SavedFileType
  <2> QED
    BY <1>4, <2>2, <2>3 DEF WriteFile
<1>5. ASSUME NEW c \in Clients, ReadFile(c) PROVE TypeOK' /\ PartsInv'
  <2> DEFINE r == ReadBack(file)
  <2>1. r \in Results /\ Len(r.cipher) <= CipherSize /\ Len(r.acatj) <= AcatjSize
    BY ReadBackParts
  <2>2. given' = [given EXCEPT ![c] = r]
    BY <1>5 DEF ReadFile
  <2> HIDE DEF r
  <2>3. /\ given' \in [Clients -> Results]
        /\ \A d \in Clients : Len(given'[d].cipher) <= CipherSize /\ Len(given'[d].acatj) <= AcatjSize
    BY <2>1, <2>2
  <2>4. reason' \in [Clients -> SUBSET {"segments", "empty", "cr"}]
    BY <1>5 DEF ReadFile
  <2> QED
    BY <1>5, <2>3, <2>4 DEF ReadFile
<1>6. ASSUME NEW c \in Clients, Alarm(c) \/ Killed(c) \/ NoFile(c) PROVE TypeOK' /\ PartsInv'
  BY <1>6 DEF Alarm, Killed, NoFile
<1> QED
  BY <1>1, <1>2, <1>3, <1>4, <1>5, <1>6 DEF Next

\* A result that has been saved stays one that has been saved.
LEMMA KeptGrows ==
    ASSUME TypeOK, [Next]_vars
    PROVE  Kept \subseteq Kept'
<1>1. ASSUME NEW d \in Clients, phase[d] = "saved" PROVE phase'[d] = "saved" /\ sent'[d] = sent[d]
  <2>1. CASE UNCHANGED vars
    BY <1>1, <2>1 DEF vars
  <2>2. ASSUME NEW c \in Clients, ReadAnswer(c)
        PROVE  phase'[d] = "saved" /\ sent'[d] = sent[d]
    <3>1. c # d
      BY <1>1, <2>2 DEF ReadAnswer
    <3>2. PICK r \in AnswerSet : sent' = [sent EXCEPT ![c] = r]
      BY <2>2, AnswerRead
    <3> QED
      BY <1>1, <2>2, <3>1, <3>2 DEF ReadAnswer, TypeOK
  <2>3. ASSUME NEW c \in Clients,
               OpenFile(c) \/ WriteFile(c) \/ ReadFile(c) \/ Alarm(c) \/ Killed(c) \/ NoFile(c)
        PROVE  phase'[d] = "saved" /\ sent'[d] = sent[d]
    BY <1>1, <2>3 DEF OpenFile, WriteFile, ReadFile, Alarm, Killed, NoFile, TypeOK
  <2> QED
    BY <2>1, <2>2, <2>3 DEF Next
<1> QED
  BY <1>1 DEF Kept

\* A reason that was there stays there.
LEMMA ReasonsStay ==
    ASSUME TypeOK, [Next]_vars
    PROVE  \A c \in Clients : reason[c] \subseteq reason'[c]
<1>1. CASE UNCHANGED vars
  BY <1>1 DEF vars
<1>2. ASSUME NEW c \in Clients, ReadAnswer(c) PROVE \A d \in Clients : reason[d] \subseteq reason'[d]
  BY <1>2, AnswerRead
<1>3. ASSUME NEW c \in Clients, ReadFile(c) PROVE \A d \in Clients : reason[d] \subseteq reason'[d]
  BY <1>3 DEF ReadFile, TypeOK
<1>4. ASSUME NEW c \in Clients, OpenFile(c) \/ WriteFile(c) \/ Alarm(c) \/ Killed(c) \/ NoFile(c)
      PROVE  \A d \in Clients : reason[d] \subseteq reason'[d]
  BY <1>4 DEF OpenFile, WriteFile, Alarm, Killed, NoFile
<1> QED
  BY <1>1, <1>2, <1>3, <1>4 DEF Next

\* Every step keeps the file whole.
LEMMA WholeStep ==
    ASSUME TypeOK, PartsInv, WholeInv, [Next]_vars
    PROVE  WholeInv'
<1>0. Kept \subseteq Kept' /\ \A c \in Clients : reason[c] \subseteq reason'[c]
  BY KeptGrows, ReasonsStay
<1>1. Unsegmented' => Unsegmented
  BY <1>0 DEF Unsegmented
<1> USE DEF WholeInv, FileIsOne
<1>2. CASE UNCHANGED vars
  BY <1>0, <1>2 DEF vars, Unsegmented
<1>3. ASSUME NEW c \in Clients, ReadAnswer(c) PROVE WholeInv'
  <2>1. PICK r \in AnswerSet : \E come \in 1..Len(AnswerOf(r)) :
             /\ sent' = [sent EXCEPT ![c] = r]
             /\ parsed' = [parsed EXCEPT ![c] = Parsed(SubSeq(AnswerOf(r), 1, come))]
             /\ reason' = [d \in Clients |-> IF come < Len(AnswerOf(r))
                                             THEN reason[d] \cup {"segments"} ELSE reason[d]]
    BY <1>3, AnswerRead
  <2>2. PICK come \in 1..Len(AnswerOf(r)) :
             /\ sent' = [sent EXCEPT ![c] = r]
             /\ parsed' = [parsed EXCEPT ![c] = Parsed(SubSeq(AnswerOf(r), 1, come))]
             /\ reason' = [d \in Clients |-> IF come < Len(AnswerOf(r))
                                             THEN reason[d] \cup {"segments"} ELSE reason[d]]
    BY <2>1
  <2>3. \A d, e \in Clients : "segments" \in reason'[d] => "segments" \in reason'[e]
    BY <2>2
  <2>4. ASSUME Unsegmented' PROVE come = Len(AnswerOf(r))
    <3>1. ~(come < Len(AnswerOf(r)))
      BY <2>2, <2>4 DEF Unsegmented
    <3>2. Len(AnswerOf(r)) \in Nat
      BY AnswerItems, ResultsType
    <3> QED
      BY <3>1, <3>2
  <2>5. ASSUME Unsegmented' PROVE sent'[c] = r /\ parsed'[c] = r
    <3>1. Parsed(SubSeq(AnswerOf(r), 1, come)) = r
      BY <2>4, <2>5, WholeAnswerParsed
    <3> QED
      BY <2>2, <3>1 DEF TypeOK
  <2>6. /\ phase' = [phase EXCEPT ![c] = "answered"]
        /\ file' = file /\ newest' = newest
    BY <1>3 DEF ReadAnswer
  <2>7. \A d \in Clients \ {c} :
          /\ sent'[d] = sent[d] /\ parsed'[d] = parsed[d] /\ phase'[d] = phase[d]
    BY <2>2, <2>6 DEF TypeOK
  <2> QED
    BY <1>0, <1>1, <2>3, <2>5, <2>6, <2>7
<1>4. ASSUME NEW c \in Clients, WriteFile(c) PROVE WholeInv'
  <2>1. /\ phase[c] = "saving" /\ phase' = [phase EXCEPT ![c] = "saved"] /\ newest' = sent[c]
        /\ file' = WrittenOver(file, Saved(parsed[c]))
        /\ UNCHANGED <<sent, parsed, reason>>
    BY <1>4 DEF WriteFile
  <2>2. ASSUME Unsegmented' PROVE FileIsOne'
    <3>1. sent[c] \in AnswerSet /\ parsed[c] = sent[c]
      BY <1>1, <2>1, <2>2
    <3>2. file \in Seq(Nat) /\ Len(file) <= 1 + CipherSize + AcatjSize
      BY DEF PartsInv, IsSaved
    <3>3. file' = Saved(newest')
      BY <2>1, <3>1, <3>2, WrittenOverIsSaved
    <3>4. newest' \in Kept'
      BY <2>1 DEF Kept, TypeOK
    <3> QED
      BY <2>1, <3>1, <3>3, <3>4
  <2>3. \A d \in Clients : phase'[d] \in {"answered", "saving"} => phase[d] \in {"answered", "saving"}
    BY <2>1 DEF TypeOK
  <2> QED
    BY <1>1, <2>1, <2>2, <2>3
<1>5. ASSUME NEW c \in Clients, ReadFile(c) PROVE WholeInv'
  <2>1. \A d \in Clients : "segments" \in reason'[d] <=> "segments" \in reason[d]
    BY <1>5 DEF ReadFile, TypeOK
  <2>2. \A d \in Clients : phase'[d] \in {"answered", "saving"} => phase[d] \in {"answered", "saving"}
    BY <1>5 DEF ReadFile, TypeOK
  <2> QED
    BY <1>0, <1>1, <1>5, <2>1, <2>2 DEF ReadFile
<1>6. ASSUME NEW c \in Clients, OpenFile(c) \/ Alarm(c) \/ Killed(c) \/ NoFile(c) PROVE WholeInv'
  <2>1. \A d \in Clients : phase'[d] \in {"answered", "saving"} => phase[d] \in {"answered", "saving"}
    BY <1>6 DEF OpenFile, Alarm, Killed, NoFile, TypeOK
  <2>2. UNCHANGED <<sent, parsed, reason, newest>> /\ (file' = file \/ file' = <<>>)
    BY <1>6 DEF OpenFile, Alarm, Killed, NoFile
  <2> QED
    BY <1>0, <1>1, <2>1, <2>2
<1> QED
  BY <1>2, <1>3, <1>4, <1>5, <1>6 DEF Next

\* What a client reads back is what some client has saved.
LEMMA ReadBackStep ==
    ASSUME TypeOK, PartsInv, WholeInv, ReadBackIsOneAnswer, [Next]_vars
    PROVE  ReadBackIsOneAnswer'
<1>1. Kept \subseteq Kept' /\ \A c \in Clients : reason[c] \subseteq reason'[c]
  BY KeptGrows, ReasonsStay
<1> SUFFICES ASSUME NEW c \in Clients, phase'[c] = "read", reason'[c] = {}
             PROVE  given'[c] \in Kept'
  BY DEF ReadBackIsOneAnswer
<1>2. reason[c] = {} /\ Unsegmented
  BY <1>1 DEF WholeInv, Unsegmented
<1>3. CASE ReadFile(c)
  <2>1. there /\ file # <<>> /\ ~Contains(file, CR) /\ given'[c] = ReadBack(file)
    BY <1>3 DEF ReadFile, TypeOK
  <2>2. newest \in AnswerSet \cap Kept /\ file = Saved(newest)
    BY <1>2, <2>1 DEF WholeInv, FileIsOne
  <2>3. \A i \in 1..Len(file) : file[i] # CR
    BY <2>1 DEF Contains
  <2>4. ReadBack(file) = newest
    BY <2>2, <2>3, SavedIsRead
  <2> QED
    BY <1>1, <2>1, <2>2, <2>4
<1>4. CASE phase[c] = "read" /\ given'[c] = given[c]
  BY <1>1, <1>2, <1>4 DEF ReadBackIsOneAnswer
<1>5. CASE UNCHANGED vars
  BY <1>4, <1>5 DEF vars
<1>6. ASSUME NEW d \in Clients, d # c, ReadFile(d) PROVE phase[c] = "read" /\ given'[c] = given[c]
  BY <1>6 DEF ReadFile, TypeOK
<1>7. ASSUME NEW d \in Clients, \/ ReadAnswer(d) \/ Alarm(d) \/ OpenFile(d) \/ WriteFile(d)
                                \/ Killed(d) \/ NoFile(d)
      PROVE  phase[c] = "read" /\ given'[c] = given[c]
  BY <1>7 DEF ReadAnswer, Alarm, OpenFile, WriteFile, Killed, NoFile, TypeOK
<1> QED
  BY <1>3, <1>4, <1>5, <1>6, <1>7 DEF Next

\* The invariant holds, part by part.
LEMMA EncResultCorrect == Spec => []EncResultInv
<1>1. EncResultInv /\ [Next]_vars => EncResultInv'
  BY TypeStep, WholeStep, ReadBackStep DEF EncResultInv
<1> QED
  BY <1>1, EncResultInit, PTL DEF Spec

\* What clients parse, save and read back keeps its types and sizes: a file never has
\* more than the room of one result, and what is read back of it never more than the parts
\* of one, though runs overlap, answers are cut short and CRs are dropped
\* (Client.cpp:98-155, ClientDriver.cpp:158-180).
THEOREM EncResultTypeCorrect == Spec => []TypeOK
<1>1. EncResultInv => TypeOK
  BY DEF EncResultInv
<1> QED
  BY <1>1, EncResultCorrect, PTL

\* encResult.txt never holds a mixture of two results nor a part of one: it is empty or
\* what was written last, however runs of the client overlap or end, unless an answer had
\* come in segments (Client.cpp:133-155).
THEOREM FileHoldsNewest == Spec => []FileIsNewest
<1>1. EncResultInv => FileIsNewest
  BY DEF EncResultInv, WholeInv, FileIsOne, Unsegmented, FileIsNewest
<1> QED
  BY <1>1, EncResultCorrect, PTL

\* What a client reads back to decrypt is what a server gave one of those that have saved,
\* whole; unless the file was just then empty, a CR was dropped, or an answer had come in
\* segments (Client.cpp:98-155, ClientDriver.cpp:158-180).
THEOREM ReadBackIsSaved == Spec => []ReadBackIsOneAnswer
<1>1. EncResultInv => ReadBackIsOneAnswer
  BY DEF EncResultInv
<1> QED
  BY <1>1, EncResultCorrect, PTL
=============================================================================
