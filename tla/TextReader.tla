----------------------------- MODULE TextReader -----------------------------
(* Utf16Reader::readline (pinyin/share/utf16reader.cpp) as DictBuilder uses   *)
(* it: the file is read into a buffer, a line is copied out of it, over as    *)
(* many fillings as it takes.  A character is a letter, the end of a line,    *)
(* "LF", or the "CR" there may be before it; tokens are cut by utf16_strtok   *)
(* (utf16char.cpp) at blanks.                                                 *)
EXTENDS Integers, FiniteSets, Sequences

LOCAL INSTANCE SequencesExt
LOCAL INSTANCE FiniteSetsExt

CONSTANTS Files,      \* what the file may hold behind its mark
          BufferLen,  \* buffer_total_len_
          MaxLine     \* max_len: room for a line and its end

Chars == UNION {ToSet(f) : f \in Files}
ASSUME ReaderAssumption == Files \subseteq Seq(Chars) /\ BufferLen \in Nat /\ MaxLine \in Nat

VARIABLES text,    \* the file
          rest,    \* what of it is not in the buffer yet
          buffer,  \* what is valid in the buffer
          part,    \* what of the line has been copied
          reading, \* "closed", "line" or "done"
          got    \* what was returned

trVars == <<text, rest, buffer, part, reading, got>>

WithoutCR(s) == IF s # <<>> /\ Last(s) = "CR" THEN Front(s) ELSE s
FirstN(s, n) == SubSeq(s, 1, Min({n, Len(s)}))

Fill ==
  /\ reading = "line" /\ buffer = <<>> /\ rest # <<>>
  /\ buffer' = FirstN(rest, BufferLen)
  /\ rest' = SubSeq(rest, BufferLen + 1, Len(rest))
  /\ UNCHANGED <<text, part, reading, got>>

\* The end of the line: "LF", or the last place of the room, which is counted
\* from the last filling; what is there is passed over.
LineEnds == {k \in 1..Len(buffer) : k = MaxLine \/ buffer[k] = "LF"}

CopyAll ==
  /\ reading = "line" /\ buffer # <<>> /\ LineEnds = {}
  /\ part' = part \o buffer
  /\ buffer' = <<>>
  /\ UNCHANGED <<text, rest, reading, got>>

\* A mutant of TakeLine: what was copied before the last filling is lost.
TakeLastPart ==
  /\ reading = "line" /\ LineEnds # {}
  /\ got' = Append(got, WithoutCR(SubSeq(buffer, 1, Min(LineEnds) - 1)))
  /\ buffer' = SubSeq(buffer, Min(LineEnds) + 1, Len(buffer))
  /\ part' = <<>>
  /\ UNCHANGED <<text, rest, reading>>

TakeLine ==
  /\ reading = "line" /\ LineEnds # {}
  /\ got' = Append(got, WithoutCR(part \o SubSeq(buffer, 1, Min(LineEnds) - 1)))
  /\ buffer' = SubSeq(buffer, Min(LineEnds) + 1, Len(buffer))
  /\ part' = <<>>
  /\ UNCHANGED <<text, rest, reading>>

\* At the end of the file the last line is returned as it is.
EndOfFile ==
  /\ reading = "line" /\ buffer = <<>> /\ rest = <<>>
  /\ IF part = <<>> THEN reading' = "done" /\ UNCHANGED got
     ELSE got' = Append(got, part) /\ UNCHANGED reading
  /\ part' = <<>>
  /\ UNCHANGED <<text, rest, buffer>>

Open ==
  /\ reading = "closed"
  /\ text' \in Files /\ rest' = text'
  /\ reading' = "line"
  /\ UNCHANGED <<buffer, part, got>>

ReaderInit ==
  /\ text = <<>> /\ rest = <<>> /\ buffer = <<>> /\ part = <<>> /\ got = <<>>
  /\ reading = "closed"

ReaderNext == Open \/ Fill \/ CopyAll \/ TakeLine \/ EndOfFile
ReaderSpec == ReaderInit /\ [][ReaderNext]_trVars

\* utf16_strtok, one call at place k and then the calls after it: blanks before
\* a token are skipped, the one behind it is overwritten.
Begins(line, k) == {i \in k..Len(line) : line[i] # "blank"}
Blanks(line, i) == {j \in i..Len(line) : line[j] = "blank"}
Stop(line, i) == IF Blanks(line, i) = {} THEN Len(line) + 1 ELSE Min(Blanks(line, i))
TokensFrom(line, k, after) ==
  IF Begins(line, k) = {} THEN <<>>
  ELSE LET i == Min(Begins(line, k))
       IN  <<SubSeq(line, i, Stop(line, i) - 1)>>
           \o (IF Blanks(line, i) = {} THEN <<>> ELSE after[Stop(line, i) + 1])

Tokens(line) ==
  LET calls[k \in 1..Len(line) + 1] == TokensFrom(line, k, calls) IN calls[1]

-----------------------------------------------------------------------------
(* Properties.                                                                *)

\* The lines of a text by their ends: line k is between end k and end k + 1.
Ends == {0} \cup {k \in 1..Len(text) : text[k] = "LF"}
LineFrom(k) == LET next == {j \in Ends : j > k}
               IN  SubSeq(text, k + 1, IF next = {} THEN Len(text) ELSE Min(next) - 1)
LineAt(k) == LineFrom(CHOOSE e \in Ends : Cardinality({j \in Ends : j <= e}) = k)
AllFit == \A e \in Ends : Len(LineFrom(e)) < MaxLine

\* The runs of what is not blank.
Runs(line) ==
  {r \in (1..Len(line)) \X (1..Len(line)) :
     /\ r[1] <= r[2] /\ \A m \in r[1]..r[2] : line[m] # "blank"
     /\ r[1] = 1 \/ line[r[1] - 1] = "blank"
     /\ r[2] = Len(line) \/ line[r[2] + 1] = "blank"}

\* When the lines of a file fit, each is returned whole, wherever the fillings of
\* the buffer cut it (readline, utf16reader.cpp:72), and its tokens are the runs
\* of what is not blank.
LinesAreWhole ==
  AllFit => \A k \in 1..Len(got) :
    LET line == LineAt(k)
    IN  /\ got[k] = IF k < Cardinality(Ends) THEN WithoutCR(line) ELSE line
        /\ got[k] = line => ToSet(Tokens(line)) = {SubSeq(line, r[1], r[2]) : r \in Runs(line)}
        /\ reading = "done" => Len(got) >= Cardinality(Ends) - 1
=============================================================================
