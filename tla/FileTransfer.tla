---------------------------- MODULE FileTransfer ----------------------------
(***************************************************************************)
(* File transfer over TCP: TCPFileServer, TCPFileClient and the helpers    *)
(* get_file_info, send_file and receive_file.  The size is announced by    *)
(* one look at the file and the bytes come from a later opening of it; the *)
(* receiver fills a ".receiving" file beside the destination and moves it  *)
(* into place.  A download copies the server's file to a client, an upload *)
(* the other way.  A file is a sequence of blocks.                         *)
(***************************************************************************)
EXTENDS Integers, Sequences

CONSTANTS
  Clients, Server,   \* holders of a copy
  Versions, Size,    \* versions the owner of a file writes, and their sizes in blocks
  NoFile,
  ErrorSize,         \* size of an error message, in blocks
  Uploads            \* whether the server has an upload resolver

ASSUME HoldersAssumption == Server \notin Clients /\ Uploads \in BOOLEAN
ASSUME SizeAssumption == Size \in [Versions -> Nat \ {0}] /\ ErrorSize \in Nat \ {0}

VARIABLES
  file,      \* what each holder has under the file's name
  partial,   \* what is growing, or was left, in its ".receiving" file
  conv,      \* each client's conversation with the server
  server,    \* what the server is doing, and for whom
  cut,       \* holders of a copy of a file that was replaced after its size was announced
  garbled    \* holders of a copy whose sender failed, and sent an error where bytes go

marks == <<cut, garbled>>
transferVars == <<file, partial, conv, server, marks>>

Holders == Clients \cup {Server}
Block(v) == [i \in 1 .. Size[v] |-> <<v, i>>]
Whole == {Block(v) : v \in Versions}
ErrorMessage == [i \in 1 .. ErrorSize |-> <<NoFile, i>>]

(* wire: the bytes under way; closed: no more will come; cut, garbled: of  *)
(* what was sent, as for the copies.                                       *)
NoConv == [at |-> "idle", kind |-> "download", expects |-> 0,
           wire |-> <<>>, closed |-> FALSE, cut |-> FALSE, garbled |-> FALSE]
Accepting == [at |-> "accept", peer |-> Server]

TransferInit ==
  /\ file = [h \in Holders |-> NoFile] /\ partial = [h \in Holders |-> NoFile]
  /\ conv = [c \in Clients |-> NoConv] /\ server = Accepting
  /\ cut = {} /\ garbled = {}

(* The owner of a file moves a new version of it into its place.           *)
Rewrite(h) ==
  /\ \E w \in Whole : file' = [file EXCEPT ![h] = w]
  /\ cut' = cut \ {h} /\ garbled' = garbled \ {h}
  /\ UNCHANGED <<partial, conv, server>>

(* download(), upload(): an upload announces the size of its file.         *)
Ask(c) ==
  /\ conv[c].at = "idle"
  /\ \/ conv' = [conv EXCEPT ![c].at = "asked"]
     \/ /\ file[c] # NoFile
        /\ conv' = [conv EXCEPT ![c].at = "asked", ![c].kind = "upload",
                                ![c].expects = Len(file[c])]
  /\ UNCHANGED <<file, partial, server, marks>>

(* Slip: "ab" for "wb".                                                    *)
ServeDownload_Appends(c, resolved) ==
  /\ server.at = "accept" /\ conv[c].at = "asked" /\ conv[c].kind = "download"
  /\ IF resolved /\ file[Server] # NoFile
     THEN /\ server' = [at |-> "open", peer |-> c]
          /\ conv' = [conv EXCEPT ![c].at = "receive", ![c].expects = Len(file[Server])]
          /\ partial' = [partial EXCEPT ![c] = IF @ = NoFile THEN <<>> ELSE @]
     ELSE conv' = [conv EXCEPT ![c] = NoConv] /\ UNCHANGED <<server, partial>>
  /\ UNCHANGED <<file, marks>>

(* _handle_client: a request that cannot be resolved is refused; a         *)
(* download is answered with the size of the file, which the client then   *)
(* expects; an upload is awaited.                                          *)
ServeDownload(c, resolved) ==
  /\ server.at = "accept" /\ conv[c].at = "asked" /\ conv[c].kind = "download"
  /\ IF resolved /\ file[Server] # NoFile
     THEN /\ server' = [at |-> "open", peer |-> c]
          /\ conv' = [conv EXCEPT ![c].at = "receive", ![c].expects = Len(file[Server])]
          /\ partial' = [partial EXCEPT ![c] = <<>>]
     ELSE conv' = [conv EXCEPT ![c] = NoConv] /\ UNCHANGED <<server, partial>>
  /\ UNCHANGED <<file, marks>>

ServeUpload(c) ==
  /\ server.at = "accept" /\ conv[c].at = "asked" /\ conv[c].kind = "upload"
  /\ IF Uploads
     THEN /\ server' = [at |-> "receive", peer |-> c]
          /\ conv' = [conv EXCEPT ![c].at = "open"]
          /\ partial' = [partial EXCEPT ![Server] = <<>>]
     ELSE conv' = [conv EXCEPT ![c] = NoConv] /\ UNCHANGED <<server, partial>>
  /\ UNCHANGED <<file, marks>>

(* send_file opens what now has the file's name, and reads it to its end   *)
(* or to an error after n blocks.  The server writes the error to the      *)
(* socket where the bytes went; a client just leaves.                      *)
Cut(c, h) == Len(file[h]) # conv[c].expects \/ h \in cut

SendDownload(c) ==
  /\ server = [at |-> "open", peer |-> c] /\ server' = Accepting
  /\ \E n \in 0 .. Len(file[Server]) :
       LET failed == n < Len(file[Server])
           sent == SubSeq(file[Server], 1, n) \o (IF failed THEN ErrorMessage ELSE <<>>)
       IN  conv' = IF conv[c].at = "receive"
                   THEN [conv EXCEPT ![c].wire = sent, ![c].closed = TRUE,
                                     ![c].cut = Cut(c, Server),
                                     ![c].garbled = failed \/ Server \in garbled]
                   ELSE conv
  /\ UNCHANGED <<file, partial, marks>>

SendUpload(c) ==
  /\ conv[c].at = "open"
  /\ \E n \in 0 .. Len(file[c]) :
       LET failed == n < Len(file[c])
       IN  conv' = [conv EXCEPT ![c].wire = SubSeq(file[c], 1, n), ![c].closed = failed,
                                ![c].cut = Cut(c, c), ![c].garbled = c \in garbled,
                                ![c].at = IF failed THEN "gone" ELSE "await"]
  /\ UNCHANGED <<file, partial, server, marks>>

(* receive_file, at the client or at the server.                           *)
Receiver(c) == IF conv[c].kind = "download" THEN c ELSE Server
Receiving(c) ==
  IF conv[c].kind = "download" THEN conv[c].at = "receive"
  ELSE server = [at |-> "receive", peer |-> c]
Received(c) == Len(partial[Receiver(c)])
Done(c) ==
  /\ conv' = [conv EXCEPT ![c] = NoConv]
  /\ server' = IF conv[c].kind = "upload" THEN Accepting ELSE server

ReceiveBlock(c) ==
  /\ Receiving(c) /\ Received(c) < conv[c].expects /\ conv[c].wire # <<>>
  /\ partial' = [partial EXCEPT ![Receiver(c)] = Append(@, Head(conv[c].wire))]
  /\ conv' = [conv EXCEPT ![c].wire = Tail(@)]
  /\ UNCHANGED <<file, server, marks>>

MoveIntoPlace(c) ==
  /\ Receiving(c) /\ Received(c) = conv[c].expects
  /\ LET h == Receiver(c)
     IN  /\ file' = [file EXCEPT ![h] = partial[h]]
         /\ partial' = [partial EXCEPT ![h] = NoFile]
         /\ cut' = IF conv[c].cut THEN cut \cup {h} ELSE cut \ {h}
         /\ garbled' = IF conv[c].garbled THEN garbled \cup {h} ELSE garbled \ {h}
  /\ Done(c)

ReceiveFails(c) ==
  /\ Receiving(c) /\ Received(c) < conv[c].expects /\ conv[c].wire = <<>> /\ conv[c].closed
  /\ partial' = [partial EXCEPT ![Receiver(c)] = NoFile]
  /\ Done(c)
  /\ UNCHANGED <<file, marks>>

(* The client's socket times out, or its process is killed: then the       *)
(* ".receiving" file stays.                                                *)
Leave(c, killed) ==
  /\ conv[c].at \notin {"idle", "gone"}
  /\ conv' = IF server = [at |-> "receive", peer |-> c]
             THEN [conv EXCEPT ![c].at = "gone", ![c].closed = TRUE]
             ELSE [conv EXCEPT ![c] = NoConv]
  /\ partial' = IF conv[c].at = "receive" /\ ~killed
                THEN [partial EXCEPT ![c] = NoFile] ELSE partial
  /\ UNCHANGED <<file, server, marks>>

(* The master is killed and started again.                                 *)
ServerCrash ==
  /\ server' = Accepting
  /\ conv' = [c \in Clients |-> IF conv[c].at = "receive" THEN [conv[c] EXCEPT !.closed = TRUE]
                                ELSE NoConv]
  /\ UNCHANGED <<file, partial, marks>>

TransferStep(c, resolved) ==
  \/ ServeDownload(c, resolved) \/ ServeUpload(c) \/ SendDownload(c) \/ SendUpload(c)
  \/ ReceiveBlock(c) \/ MoveIntoPlace(c) \/ ReceiveFails(c)

(* Whatever times out, breaks or is killed in the middle of a transfer, a  *)
(* holder has nothing or a whole version.  What escapes the .receiving     *)
(* file is named: a beginning of a version, if the file was replaced by a  *)
(* longer one after its size was announced, and anything, if the sender    *)
(* failed and its error filled the announced size (as in copies of these). *)
Beginning(h) == \E v \in Versions : \E n \in 1 .. Size[v] : file[h] = SubSeq(Block(v), 1, n)
CopyIsWhole ==
  \A h \in Holders : \/ file[h] = NoFile \/ file[h] \in Whole
                     \/ h \in cut /\ Beginning(h)
                     \/ h \in garbled

=============================================================================
