------------------------------ MODULE FileServer ------------------------------
(* The file server of filesvr: a thread for each connection that receives until *)
(* the client has ended its half, then saves or sends one file.  Data is a      *)
(* sequence of pieces <<connection, number>>.                                   *)
EXTENDS Integers, Sequences, FiniteSets

CONSTANTS Connections,  \* numbers from 1
          Paths,    \* as requested: directories and a name
          Length,   \* pieces of an upload
          Buffer    \* pieces of the buffer a file is sent from

ASSUME ServerAssumption == Length \in Nat /\ Buffer \in Nat \ {0}

VARIABLES files,   \* name -> pieces, for the files that exist
          conn,    \* connection -> what its thread is doing
          mixed    \* names that two had open at a time, one of them to write

fileVars == <<files, conn, mixed>>

Name(path) == path[Len(path)]   \* translate_path
NoRequest == [pc |-> "idle", path |-> <<>>, got |-> 0, at |-> 0, size |-> 0, sent |-> <<>>, whole |-> <<>>]
Over == [NoRequest EXCEPT !.pc = "done"]
Those(pcs) == {c \in Connections : conn[c].pc \in pcs}
ThoseAt(name, pcs) == {c \in Those(pcs) : Name(conn[c].path) = name}

\* handle_thread: the request is what has come before the end of the stream, an
\* error, or the limit; an upload that ends early is a shorter one.
Receive(c) ==
  /\ conn[c].pc = "idle"
  /\ \E p \in Paths, got \in 0..Length, kind \in {"upload", "download"} :
       conn' = [conn EXCEPT ![c] = [NoRequest EXCEPT !.pc = kind, !.path = p, !.got = IF kind = "upload" THEN got ELSE 0]]
  /\ UNCHANGED <<files, mixed>>

\* A request without the lines it should have.
ReceiveNothing(c) ==
  /\ conn[c].pc = "idle"
  /\ conn' = [conn EXCEPT ![c] = Over]
  /\ UNCHANGED <<files, mixed>>

\* save_file: opening empties the file; it may fail.
OpenToWrite(c) ==
  LET name == Name(conn[c].path)
  IN  /\ conn[c].pc = "upload"
      /\ conn' = [conn EXCEPT ![c].pc = "write"]
      /\ files' = [n \in DOMAIN files \cup {name} |-> IF n = name THEN <<>> ELSE files[n]]
      /\ mixed' = IF ThoseAt(name, {"write", "send"}) = {} THEN mixed ELSE mixed \cup {name}

CannotOpen(c) ==
  /\ conn[c].pc = "upload"
  /\ conn' = [conn EXCEPT ![c] = Over]
  /\ UNCHANGED <<files, mixed>>

Zeros == <<0, 0>>

\* A piece at the offset of this thread; the file may have another length by now.
Written(s, k, piece) ==
  [i \in 1..(IF k > Len(s) THEN k ELSE Len(s)) |->
     IF i = k THEN piece ELSE IF i <= Len(s) THEN s[i] ELSE Zeros]

\* A mutant of WritePiece: the pieces go to the end of the file.
AppendPiece(c) ==
  LET name == Name(conn[c].path)
  IN  /\ conn[c].pc = "write" /\ conn[c].at < conn[c].got
      /\ files' = [files EXCEPT ![name] = Append(@, <<c, conn[c].got - conn[c].at>>)]
      /\ conn' = [conn EXCEPT ![c].at = @ + 1]
      /\ UNCHANGED mixed

WritePiece(c) ==
  LET name == Name(conn[c].path)
      k == conn[c].at + 1
  IN  /\ conn[c].pc = "write" /\ k <= conn[c].got
      /\ files' = [files EXCEPT ![name] = Written(@, k, <<c, k>>)]
      /\ conn' = [conn EXCEPT ![c].at = k]
      /\ UNCHANGED mixed

\* All is written, or the disk is full: a line in the log is the only difference.
CloseWritten(c) ==
  /\ conn[c].pc = "write"
  /\ conn' = [conn EXCEPT ![c] = Over]
  /\ UNCHANGED <<files, mixed>>

\* send_file: the size is sent first; that of a file that cannot be opened is 0.
OpenToSend(c) ==
  LET name == Name(conn[c].path)
      exists == name \in DOMAIN files
  IN  /\ conn[c].pc = "download"
      /\ conn' = [conn EXCEPT ![c] = IF ~exists THEN Over
                   ELSE [@ EXCEPT !.pc = "send", !.size = Len(files[name]), !.whole = files[name]]]
      /\ mixed' = IF exists /\ ThoseAt(name, {"write"}) # {} THEN mixed \cup {name} ELSE mixed
      /\ UNCHANGED files

\* The next piece of a file as fread fills the buffer.
SendBuffer(c) ==
  LET file == files[Name(conn[c].path)]
      k == conn[c].at
      n == IF k + Buffer <= Len(file) THEN k + Buffer ELSE Len(file)
  IN  /\ conn[c].pc = "send" /\ k < conn[c].size /\ k < n
      /\ conn' = [conn EXCEPT ![c].at = n, ![c].sent = @ \o SubSeq(file, k + 1, n)]
      /\ UNCHANGED <<files, mixed>>

\* As much as was announced is sent, or there is no more.
CloseSent(c) ==
  /\ conn[c].pc = "send"
  /\ conn[c].at >= conn[c].size \/ conn[c].at >= Len(files[Name(conn[c].path)])
  /\ conn' = [conn EXCEPT ![c].pc = "sent"]
  /\ UNCHANGED <<files, mixed>>

\* send fails: the client is gone.
SendFails(c) ==
  /\ conn[c].pc \in {"send", "download"}
  /\ conn' = [conn EXCEPT ![c] = Over]
  /\ UNCHANGED <<files, mixed>>

FileServerInit == files = <<>> /\ conn = [c \in Connections |-> NoRequest] /\ mixed = {}

ServerStep(c) ==
  \/ Receive(c) \/ ReceiveNothing(c) \/ OpenToWrite(c) \/ CannotOpen(c) \/ WritePiece(c) \/ CloseWritten(c)
  \/ OpenToSend(c) \/ SendBuffer(c) \/ CloseSent(c) \/ SendFails(c)

FileServerNext == \E c \in Connections : ServerStep(c)

FileServerSpec == FileServerInit /\ [][FileServerNext]_fileVars

-----------------------------------------------------------------------------

\* Unless a name was open twice with one that writes (utils.cpp:116 empties the
\* file under the other), a file is the beginning of one upload, and a download
\* that was not broken off is the file, and as long as announced.
FilesAreWhole ==
  /\ \A n \in DOMAIN files \ mixed :
       \E c \in Connections : files[n] = [k \in 1..Len(files[n]) |-> <<c, k>>]
  /\ \A c \in Those({"sent"}) : Name(conn[c].path) \notin mixed => conn[c].sent = conn[c].whole
=============================================================================
