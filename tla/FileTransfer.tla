---------------------------- MODULE FileTransfer ----------------------------
(***************************************************************************)
(* The file transfer programs over mysocket: client.c asks for files by    *)
(* name, server.c answers with a line "name,length,text" and then with the *)
(* file, and the two must agree on where one response ends and the next    *)
(* begins.  The mysocket connection is used by its contract (BytePipe):    *)
(* bytes arrive in order and in pieces, and end of file comes after the    *)
(* last one, or early when the connection breaks.                          *)
(*                                                                         *)
(* A character is a string.  A file name is one character without a comma; *)
(* a length is written in binary, so that a cut one is a different number. *)
(***************************************************************************)
EXTENDS Integers, Sequences, FiniteSets, SequencesExt

CONSTANTS
  Names,        \* names a user may ask for
  OneCharNames, \* the names that are a single character long
  FileBytes,    \* possible contents of a file at the start
  Growth,       \* what another program may append to a file
  LineSize,     \* client: sizeof(line)
  RespSize,     \* server: sizeof(resp)
  MaxRequests,  \* bound: requests of one connection
  MaxChanges    \* bound: changes of files by other programs

ASSUME SizesAssumption == LineSize \in Nat \ {0} /\ RespSize \in Nat \ {0}

VARIABLES
  filename,     \* client: the name given with -f, or "" for the prompt
  cpc,          \* client: "prompt", "line", "data" or "closed"
  cline,        \* client: the response line so far
  length,       \* client: bytes still expected
  stored,       \* client: the file received
  complete,     \* client: the last transfer was taken for complete
  spc,          \* server: "line", "send" or "closed"
  sline,        \* server: the request line so far
  sfile, soff,  \* server: the open file and its offset
  up, down,     \* bytes in flight, client to server and back
  broken,       \* the connection has failed
  files,        \* the server's files; a name outside its domain cannot be read
  opened,       \* history: the file as it was when its length was announced
  stable,       \* history: it has not changed since
  answering,    \* history: the request this length was the answer to
  strayed,      \* history: the first request answered with bytes past the
                \* announced length, 0 if none was
  shrunk,       \* history: a file shrank while it was being sent
  requests, changes

clientVars == <<filename, cpc, cline, length, stored, complete, requests>>
serverVars == <<spc, sline, sfile, soff, opened, answering, strayed>>
fileVars   == <<files, stable, shrunk, changes>>
vars == <<clientVars, serverVars, fileVars, up, down, broken>>

CR == "CR"
LF == "LF"
COMMA == ","
NoFile == ""

Init == /\ filename \in {""} \cup Names
        /\ cpc = "prompt" /\ cline = <<>> /\ stored = <<>> /\ complete = FALSE
        /\ length \in {0, 1}   \* not initialised
        /\ spc = "line" /\ sline = <<>> /\ sfile = NoFile /\ soff = 0
        /\ up = <<>> /\ down = <<>> /\ broken = FALSE
        /\ files \in UNION {[D -> FileBytes] : D \in SUBSET Names}
        /\ opened = <<>> /\ stable = TRUE /\ shrunk = FALSE /\ answering = 0 /\ strayed = 0
        /\ requests = 0 /\ changes = 0

-----------------------------------------------------------------------------
(* The connection.  A write after the connection failed goes nowhere, and   *)
(* the writer is not told.                                                  *)

Write(pipe, bytes) == IF broken THEN pipe ELSE pipe \o bytes
Ended(pipe, writerClosed) == pipe = <<>> /\ (writerClosed \/ broken)

(* A connection that fails loses what has not arrived yet *)
Break == /\ ~broken /\ (cpc # "closed" \/ spc # "closed")
         /\ broken' = TRUE
         /\ \E i \in 0 .. Len(up), j \in 0 .. Len(down) :
              up' = SubSeq(up, 1, i) /\ down' = SubSeq(down, 1, j)
         /\ UNCHANGED <<clientVars, serverVars, fileVars>>

(* get_nvt_line: a line is complete at CR LF *)
LineEnds(line, char) == line # <<>> /\ Last(line) = CR /\ char = LF

-----------------------------------------------------------------------------
(* The server *)

Binary(n) == LET digit(k) == IF k = 0 THEN "0" ELSE "1"
                 bin[k \in 0 .. n] == IF k < 2 THEN <<digit(k)>> ELSE Append(bin[k \div 2], digit(k % 2))
             IN  bin[n]
Number(s) == IF s = <<"-1">> THEN -1 ELSE FoldLeft(LAMBDA n, d : 2 * n + (IF d = "1" THEN 1 ELSE 0), 0, s)
IsNumber(s) == s # <<>> /\ \A i \in DOMAIN s : s[i] \in {"0", "1", "-1"}

Response(line, n) == line \o <<COMMA>> \o n \o <<COMMA, "text", CR, LF>>

(* the end of do_connection: myclose; main then closes the listening one *)
ServerDone == spc' = "closed" /\ sfile' = NoFile

(* the response of length -1 *)
Refuse(line) == /\ down' = Write(down, Response(line, <<"-1">>))
                /\ spc' = "line"
                /\ UNCHANGED <<sfile, soff, opened, answering, stable>>

(* mutant: the offset stays where the length was found *)
AnnounceNoRewind(name) == /\ down' = Write(down, Response(<<name>>, Binary(Len(files[name]))))
                          /\ sfile' = name /\ soff' = Len(files[name]) /\ spc' = "send"
                          /\ opened' = files[name] /\ answering' = requests /\ stable' = TRUE

(* The response: the length of the file as it is now, and the offset back   *)
(* at its start                                                             *)
Announce(name) == /\ down' = Write(down, Response(<<name>>, Binary(Len(files[name]))))
                  /\ sfile' = name /\ soff' = 0 /\ spc' = "send"
                  /\ opened' = files[name] /\ answering' = requests /\ stable' = TRUE

(* access fails for a name that is no file, and open may fail for one that is *)
process_line(line) == \/ Refuse(line)
                      \/ \E name \in DOMAIN files : line = <<name>> /\ Announce(name)

(* An empty line ends the connection *)
do_connection(line) == \/ line = <<>> /\ ServerDone /\ UNCHANGED <<soff, opened, answering, stable, down>>
                       \/ line # <<>> /\ process_line(line)

(* One character of a request; the CR is not part of the line *)
ServerChar == /\ spc = "line" /\ up # <<>>
              /\ up' = Tail(up)
              /\ \/ /\ LineEnds(sline, Head(up))
                    /\ sline' = <<>>
                    /\ do_connection(Front(sline))
                 \/ /\ ~LineEnds(sline, Head(up))
                    /\ sline' = Append(sline, Head(up))
                    /\ UNCHANGED <<spc, sfile, soff, opened, answering, stable, down>>
              /\ UNCHANGED <<clientVars, files, shrunk, changes, strayed, broken>>

(* End of file: a started line counts as a request *)
ServerEof == /\ spc = "line" /\ Ended(up, cpc = "closed")
             /\ do_connection(sline)
             /\ sline' = <<>>
             /\ UNCHANGED <<clientVars, files, shrunk, changes, strayed, up, broken>>

(* read returns what the file holds now *)
ServerRead == /\ spc = "send" /\ soff < Len(files[sfile])
              /\ LET got == SubSeq(files[sfile], soff + 1, Min({soff + RespSize, Len(files[sfile])}))
                 IN  down' = Write(down, got) /\ soff' = soff + Len(got)
              /\ strayed' = (IF strayed = 0 /\ soff' > Len(opened) THEN answering ELSE strayed)
              /\ UNCHANGED <<clientVars, spc, sline, sfile, opened, answering, fileVars, up, broken>>

ServerReadEnd == /\ spc = "send" /\ soff >= Len(files[sfile])
                 /\ spc' = "line" /\ sfile' = NoFile
                 /\ UNCHANGED <<clientVars, sline, soff, opened, answering, strayed, fileVars, up, down, broken>>

(* read fails: the connection is closed *)
ServerReadError == /\ spc = "send"
                   /\ ServerDone
                   /\ UNCHANGED <<clientVars, sline, soff, opened, answering, strayed, fileVars, up, down, broken>>

ServerStep == ServerChar \/ ServerEof \/ ServerRead \/ ServerReadEnd \/ ServerReadError

-----------------------------------------------------------------------------
(* The client *)

(* the name typed at the prompt or given with -f; the test pline <= line at *)
(* the prompt also refuses a name of one character                          *)
Sendable(name) == filename # "" \/ name \notin OneCharNames

Request == /\ cpc = "prompt" /\ requests < MaxRequests
           /\ \E name \in IF filename = "" THEN Names ELSE {filename} :
                \/ /\ Sendable(name)
                   /\ up' = Write(up, <<name, CR, LF>>)
                   /\ cpc' = "line" /\ cline' = <<>> /\ complete' = FALSE /\ stored' = <<>>
                \/ ~Sendable(name) /\ UNCHANGED <<up, cpc, cline, complete, stored>>
           /\ requests' = requests + 1
           /\ UNCHANGED <<filename, length, serverVars, fileVars, down, broken>>

(* end of file at the prompt *)
Quit == /\ cpc = "prompt" /\ filename = ""
        /\ cpc' = "closed"
        /\ UNCHANGED <<filename, cline, length, stored, complete, requests, serverVars, fileVars, up, down, broken>>

(* The length is the field before the last comma (strrchr twice).  When it  *)
(* is no number sscanf leaves length as it was.                             *)
Commas(line) == {i \in DOMAIN line : line[i] = COMMA}
LastComma(line) == Max(Commas(line))
BeforeLastComma(line) == SubSeq(line, 1, LastComma(line) - 1)

Parsed(line) ==
  LET rest == BeforeLastComma(line)
      lenstr == SubSeq(rest, LastComma(rest) + 1, Len(rest))
  IN  IF IsNumber(lenstr) THEN Number(lenstr) ELSE length
Malformed(line) == Cardinality(Commas(line)) < 2

(* What loop_until_end does with a response line.  -1 goes back to the      *)
(* prompt, or ends with -f; the local file may fail to open; length 0 is    *)
(* complete at once.                                                        *)
Response_line(line) ==
  \/ /\ Malformed(line)
     /\ cpc' = "closed"
     /\ UNCHANGED <<length, complete>>
  \/ /\ ~Malformed(line)
     /\ length' = Parsed(line)
     /\ \/ length' = -1 /\ cpc' = (IF filename = "" THEN "prompt" ELSE "closed") /\ complete' = FALSE
        \/ length' # -1 /\ cpc' = "closed" /\ complete' = FALSE   \* fopen fails
        \/ length' > 0 /\ cpc' = "data" /\ complete' = FALSE
        \/ length' = 0 /\ cpc' = (IF filename = "" THEN "prompt" ELSE "closed") /\ complete' = TRUE

ClientChar == /\ cpc = "line" /\ down # <<>>
              /\ down' = Tail(down)
              /\ \/ LineEnds(cline, Head(down)) /\ Response_line(Front(cline)) /\ cline' = <<>>
                 \/ /\ ~LineEnds(cline, Head(down))
                    /\ cline' = Append(cline, Head(down))
                    /\ UNCHANGED <<cpc, length, complete>>
              /\ UNCHANGED <<filename, stored, requests, serverVars, fileVars, up, broken>>

(* get_nvt_line returns a cut line as if it were whole *)
ClientEof == /\ cpc = "line" /\ Ended(down, spc = "closed")
             /\ Response_line(cline) /\ cline' = <<>>
             /\ UNCHANGED <<filename, stored, requests, serverVars, fileVars, up, down, broken>>

(* One myread of the file: any part of what is there, at most to_read bytes; *)
(* stored is what is handed to fwrite                                        *)
ClientData == /\ cpc = "data" /\ down # <<>>
              /\ \E got \in 1 .. Len(down) :
                   /\ got <= length /\ got <= LineSize
                   /\ stored' = stored \o SubSeq(down, 1, got)
                   /\ down' = SubSeq(down, got + 1, Len(down))
                   /\ length' = length - got
              /\ \/ length' > 0 /\ UNCHANGED <<cpc, complete>>
                 \/ /\ length' = 0 /\ complete' = TRUE
                    /\ cpc' = (IF filename = "" THEN "prompt" ELSE "closed")
              /\ UNCHANGED <<filename, cline, requests, serverVars, fileVars, up, broken>>

(* mutant: the file ends where the connection does *)
ClientShortTaken == /\ cpc = "data" /\ Ended(down, spc = "closed")
                    /\ cpc' = (IF filename = "" THEN "prompt" ELSE "closed") /\ complete' = TRUE
                    /\ UNCHANGED <<filename, cline, length, stored, requests, serverVars, fileVars, up, down, broken>>

(* end of file inside the file: "read bad number of bytes", exit *)
ClientShort == /\ cpc = "data" /\ Ended(down, spc = "closed")
               /\ cpc' = "closed"
               /\ UNCHANGED <<filename, cline, length, stored, complete, requests, serverVars, fileVars, up, down, broken>>

ClientWork == ClientChar \/ ClientEof \/ ClientData \/ ClientShort

-----------------------------------------------------------------------------
(* Other programs change a file *)

Change(new) == /\ changes < MaxChanges /\ changes' = changes + 1
               /\ \E name \in DOMAIN files :
                    /\ new[name] # files[name]
                    /\ files' = [files EXCEPT ![name] = new[name]]
                    /\ stable' = (stable /\ sfile # name)
                    /\ shrunk' = (shrunk \/ (sfile = name /\ Len(new[name]) < Len(files[name])))
               /\ UNCHANGED <<clientVars, serverVars, up, down, broken>>

Grow == \E g \in Growth : Change([name \in DOMAIN files |-> files[name] \o g])
Shrink == Change([name \in DOMAIN files |-> <<>>])

Next == ServerStep \/ Request \/ Quit \/ ClientWork \/ Break \/ Grow \/ Shrink

(* Both programs run on; the user need not type, nothing need break.  With  *)
(* -f the request is made without a user.                                   *)
Spec == /\ Init /\ [][Next]_vars
        /\ WF_vars(ServerStep) /\ WF_vars(ClientWork)

-----------------------------------------------------------------------------
(* The client has gone on to a later request after a response with surplus  *)
(* bytes: server.c sends a file to its end as it is then (229-249) and      *)
(* client.c reads as many bytes as were announced (216-253), so what the    *)
(* file has grown by stands in front of the next response line              *)
Misplaced == strayed # 0 /\ requests > strayed

(* A transfer client.c takes for complete has the announced number of bytes *)
(* and is the file, unless another program changed it meanwhile: also when  *)
(* the connection broke or the file grew behind the announced length.  Of   *)
(* the requests after such a growth nothing is said: the surplus may read   *)
(* like a response line, of any length (client.c 171-199).                  *)
CompleteMeansWhole ==
  complete /\ ~Misplaced => /\ Len(stored) = Len(opened)
                            /\ stable => stored = opened

(* A client waiting for a response line gets one or learns that the         *)
(* connection ended, whatever the server met with the file.  A transfer     *)
(* ends, unless the file shrank after its length was announced, or its      *)
(* length was read from the surplus of an earlier file: then client.c waits *)
(* in myread for bytes and server.c in get_nvt_line for a request.  The     *)
(* server leaves do_connection once the client has closed, also in the      *)
(* middle of a file or of a line.                                           *)
TransferEnds == /\ cpc = "line" ~> cpc # "line"
                /\ cpc = "data" ~> (cpc # "data" \/ shrunk \/ Misplaced)
                /\ cpc = "closed" ~> spc = "closed"
=============================================================================
