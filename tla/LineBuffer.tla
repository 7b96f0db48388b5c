----------------------------- MODULE LineBuffer -----------------------------
(***************************************************************************)
(* ReceiveLine (SocketAPI.c): the lines of the control connection come out *)
(* of one buffer.  A line ends at a newline, wherever the client's bytes   *)
(* were cut when they arrived; a line that is longer than the buffer is    *)
(* cut off, and the rest of it thrown away.  dwSlack is where the next     *)
(* line begins, dwOffset how far has been searched, dwLength how far the   *)
(* buffer is filled.                                                       *)
(*                                                                         *)
(* Since the question is about bytes, the model has them; a byte that is   *)
(* not CR or LF is its place in what the client sends.                     *)
(***************************************************************************)
EXTENDS Integers, Sequences, FiniteSets

CONSTANTS dwSize,      \* of the buffer
          MAX_BYTES    \* bound on the bytes the client sends

ASSUME LineAssumption == dwSize \in Nat \ {0, 1} /\ MAX_BYTES \in Nat

\* Other bytes are their place in the stream.
CR == -1
LF == -2

VARIABLES
    lpLine,    \* [pBuffer, dwLength, dwOffset, dwSlack, bOverflow]
    waiting,   \* the server waits for a line
    stream,    \* what the client has sent and the server has received
    lines,     \* the lines the server was given
    doubled    \* a move to the front has left bytes behind that count as filled

linevars == <<lpLine, waiting, stream, lines, doubled>>

LineInit ==
    /\ lpLine = [pBuffer |-> [i \in 1..dwSize |-> LF], dwLength |-> 0, dwOffset |-> 0,
                 dwSlack |-> 0, bOverflow |-> FALSE]
    /\ waiting = FALSE /\ stream = <<>> /\ lines = <<>> /\ doubled = FALSE

(* pBuffer is numbered from 1: the bytes from dwOffset up to dwLength are  *)
(* at dwOffset + 1 .. dwLength.                                            *)
Newlines(l) == {i \in l.dwOffset + 1 .. l.dwLength : l.pBuffer[i] = LF}
FirstIn(S)  == CHOOSE i \in S : \A j \in S : i <= j

\* MoveMemory(pBuffer, &pBuffer[dwSlack], dwLength - dwSlack)
Moved(l) == [i \in 1..dwSize |-> IF i <= l.dwLength - l.dwSlack THEN l.pBuffer[i + l.dwSlack]
                                                               ELSE l.pBuffer[i]]

(* The rest of a line that was too long ends at its newline. *)
SkipRest(l) ==
    IF ~l.bOverflow \/ Newlines(l) = {} THEN l
    ELSE [l EXCEPT !.dwSlack = FirstIn(Newlines(l)), !.dwOffset = FirstIn(Newlines(l)),
                   !.bOverflow = FALSE]

\* A carriage return counts only if it was searched together with the newline.
LineEnd(l, p) == IF p - 1 > l.dwOffset /\ l.pBuffer[p - 1] = CR THEN p - 2 ELSE p - 1

\* The line that ends at p is handed over.
Line(l, p) ==
    /\ lines' = Append(lines, SubSeq(l.pBuffer, l.dwSlack + 1, LineEnd(l, p)))
    /\ lpLine' = [l EXCEPT !.dwOffset = p, !.dwSlack = p]
    /\ waiting' = FALSE

\* More is received behind what there is.
More(l) == /\ lpLine' = [l EXCEPT !.dwOffset = l.dwLength]
           /\ waiting' = TRUE /\ UNCHANGED lines

\* Mutant: a full buffer is emptied.
CompactAll(l) == [l EXCEPT !.dwLength = 0, !.dwSlack = 0]
Compact(l) == [l EXCEPT !.pBuffer = Moved(l), !.dwLength = @ - l.dwSlack, !.dwSlack = 0]

ReceiveLine_Update(given) ==
    LET l == SkipRest(given)
    IN IF Newlines(l) # {} THEN Line(l, FirstIn(Newlines(l)))
       ELSE IF l.bOverflow THEN More([l EXCEPT !.dwLength = 0])
       ELSE IF l.dwLength < dwSize THEN More(l)
       ELSE IF l.dwSlack > 0 THEN More(Compact(l))
       ELSE Line([l EXCEPT !.bOverflow = TRUE], dwSize)

(* The server wants the next line.  What is left of the buffer is moved to *)
(* the front when a third of it has been used; dwLength is not adjusted.   *)
Used == lpLine.dwSlack > dwSize \div 3 /\ lpLine.dwSlack # lpLine.dwLength
ReceiveLine ==
    /\ ~waiting /\ Len(lines) < MAX_BYTES
    /\ doubled' = (doubled \/ Used)
    /\ LET l == IF lpLine.dwSlack > 0 /\ lpLine.dwSlack = lpLine.dwLength
                THEN [lpLine EXCEPT !.dwOffset = 0, !.dwSlack = 0, !.dwLength = 0]
                ELSE IF Used
                THEN [lpLine EXCEPT !.pBuffer = Moved(lpLine), !.dwOffset = @ - lpLine.dwSlack,
                                    !.dwSlack = 0]
                ELSE lpLine
       IN IF l.dwOffset = l.dwLength
          THEN lpLine' = l /\ waiting' = TRUE /\ UNCHANGED lines
          ELSE ReceiveLine_Update(l)
    /\ UNCHANGED stream

(* TransmitPackage_ReceiveLine: the next bytes of the client are behind    *)
(* dwOffset.                                                               *)
TransmitPackage_ReceiveLine ==
    /\ waiting
    /\ \E n \in 1 .. dwSize - lpLine.dwOffset :
        /\ Len(stream) + n <= MAX_BYTES
        /\ \E bytes \in [1..n -> {CR, LF, 0}] :
            LET sent == [i \in 1..n |-> IF bytes[i] = 0 THEN Len(stream) + i ELSE bytes[i]]
            IN /\ stream' = stream \o sent
               /\ ReceiveLine_Update([lpLine EXCEPT
                     !.dwLength = @ + n,
                     !.pBuffer = [i \in 1..dwSize |->
                         IF i \in lpLine.dwOffset + 1 .. lpLine.dwOffset + n
                         THEN sent[i - lpLine.dwOffset] ELSE @[i]]])
    /\ UNCHANGED doubled

LineNext == ReceiveLine \/ TransmitPackage_ReceiveLine

-----------------------------------------------------------------------------
(* The lines of what the client has sent, cut off where they do not fit.   *)
Ends      == {i \in DOMAIN stream : stream[i] = LF}
NthEnd(k) == CHOOSE i \in Ends \cup {Len(stream) + 1} : Cardinality({j \in Ends : j < i}) = k - 1
SentLine(k) == SubSeq(stream, IF k = 1 THEN 1 ELSE NthEnd(k - 1) + 1, NthEnd(k) - 1)
Cut(line) == SubSeq(line, 1, IF Len(line) < dwSize THEN Len(line) ELSE dwSize - 1)

\* With or without its carriage return.
IsLine(line, sent) ==
    \/ line = Cut(sent)
    \/ Append(line, CR) = Cut(sent)

(* The server is given the client's lines, in order, each once and none    *)
(* left out.                                                               *)
LinesAsSent == /\ Len(lines) <= Cardinality(Ends) + 1
               /\ \A i \in DOMAIN lines : IsLine(lines[i], SentLine(i))
(* Nothing is searched or received outside of the buffer.                  *)
InBuffer == /\ 0 <= lpLine.dwSlack /\ lpLine.dwSlack <= lpLine.dwOffset
            /\ lpLine.dwOffset <= lpLine.dwLength /\ lpLine.dwLength <= dwSize
            /\ waiting => lpLine.dwOffset < dwSize

(* Up to the first move that leaves bytes behind as if they were filled,   *)
(* the lines are those the client has sent.                                *)
LinesUntilDoubled == InBuffer /\ (doubled \/ LinesAsSent)
=============================================================================
