--------------------------- MODULE ParsedRequest ---------------------------
(***************************************************************************)
(* The request object of proxy_parse.c: the request line, the headers in a *)
(* growing array whose removed entries stay in place, and the blocks of    *)
(* memory the object owns.  A user parses one text, sets, removes, prints  *)
(* and destroys.                                                           *)
(*                                                                         *)
(* A request text is abstracted to how its request line fares with the     *)
(* checks of ParsedRequest_parse and to the lines after it: header lines,  *)
(* the blank line that ends them, and whatever follows in the buffer, the  *)
(* last line perhaps without its CRLF.  A line is what stands before its   *)
(* colon and the characters behind it, or has no colon.  The code looks    *)
(* for the colon in the rest of the text, so a line without one is joined  *)
(* with the lines after it: a key is a sequence of names.                  *)
(***************************************************************************)
EXTENDS Integers, Sequences

CONSTANTS
  Names,     \* what stands before the colon, or is the line if it has none
  Rests,     \* what stands behind the colon: sequences of characters
  Values,    \* values the user of the object sets: sequences of characters
  NoValue,   \* no value: a line without a colon, a key that is not set
  NHDRS,     \* DEFAULT_NHDRS, the first size of the array
  UserKeys,  \* keys the user of the object sets and removes
  MaxLines,  \* bound: lines of a text, the blank one too
  MaxUsed    \* bound: entries of the array

ASSUME NHDRSAssumption == NHDRS \in Nat /\ NHDRS >= 2
ASSUME MaxLinesAssumption == MaxLines \in Nat

VARIABLES
  phase,      \* "idle", "headers" (parsing), "crash" or "destroyed"
  buf,        \* the request line: allocated or NULL
  path,       \* NULL or allocated; inside a parse also a pointer into buf
  array,      \* pr->headers: the array, or NULL after a failed realloc
  headers,    \* the first headersused entries of the array
  headerslen, \* its size
  lines, pos, \* the lines being parsed and the current one
  open,       \* the last of the lines is not ended by a CRLF
  heap,       \* blocks allocated
  badFree,    \* history: something else than an allocated block was freed
  ret,        \* what the last operation returned
  last        \* history: the last call

vars == <<phase, buf, path, array, headers, headerslen, lines, pos, open, heap, badFree, ret, last>>

NULL == "NULL"
NoKey == <<>>
Blank == ""
SP == " "
LF == "LF"

Keys == UNION {[1 .. n -> Names \cup {Blank}] : n \in 1 .. MaxLines}
Line == [name : Names, rest : Rests \cup {NoValue}] \cup {[name |-> Blank, rest |-> NoValue]}
Lines == UNION {[1 .. n -> Line] : n \in 0 .. MaxLines}

(* ParsedRequest_parse has found the end of the headers *)
Texts == {text \in Lines : \E i \in DOMAIN text : text[i].name = Blank}

(* a line without its CRLF *)
LineText(l) == IF l.name = Blank THEN <<>>
               ELSE IF l.rest = NoValue THEN <<l.name>> ELSE <<l.name, ":">> \o l.rest

(* what may be kept as a value: also what is left of a text *)
Stored == Values \cup {Tail(r) : r \in Rests \ {<<>>}} \cup {<<LF>> \o LineText(l) : l \in Line}

ASSUME BlankAssumption == Blank \notin Names
ASSUME NoValueAssumption == NoValue \notin Rests \cup Stored
ASSUME UserKeysAssumption == UserKeys \subseteq Keys

Entry == [key : Keys \cup {NoKey}, value : Stored]

Array == <<"array", 0>>
Buf   == <<"buf", 0>>
Path  == <<"path", 0>>
Inner == <<"inner", 0>>   \* no block: the inside of buf
Tmp   == <<"tmp_buf", 0>>
Blocks(i) == {<<"key", i>>, <<"value", i>>}

Call(op, k, v) == [op |-> op, key |-> k, value |-> v]
Other == last' = Call("other", NoKey, NoValue)

(* ParsedRequest_create *)
Init == /\ phase = "idle" /\ buf = NULL /\ path = NULL
        /\ array = "heap" /\ headers = <<>> /\ headerslen = NHDRS
        /\ lines = <<>> /\ pos = 0 /\ open = FALSE
        /\ heap = {Array} /\ badFree = FALSE
        /\ ret = 0 /\ last = Call("other", NoKey, NoValue)

-----------------------------------------------------------------------------
(* The header array *)

Matches(hs, k) == {i \in DOMAIN hs : hs[i].key = k}

(* ParsedHeader_get: the first live entry with this key *)
ParsedHeader_get(hs, k) == CHOOSE i \in Matches(hs, k) : \A j \in Matches(hs, k) : i <= j

(* mutant: the entry keeps its key *)
RemovedFreedOnly(hs, k) == hs

(* ParsedHeader_remove: the entry stays and loses its key *)
Removed(hs, k) == IF Matches(hs, k) = {} THEN hs
                  ELSE [hs EXCEPT ![ParsedHeader_get(hs, k)].key = NoKey]
RemovedBlocks(hs, k) == IF Matches(hs, k) = {} THEN {} ELSE Blocks(ParsedHeader_get(hs, k))

(* free: never anything but an allocated block *)
Frees(blocks) == badFree' = (badFree \/ ~(blocks \subseteq heap))

(* mutant: grows only when the array is already full *)
GrownLate(n) == IF headerslen < n THEN 2 * headerslen ELSE headerslen

(* the size of the array before an entry is added to n others *)
Grown(n) == IF headerslen <= n + 1 THEN 2 * headerslen ELSE headerslen

(* ParsedHeader_set: the new value goes to the end of the array *)
Set(k, v) ==
  LET n == Len(headers)
  IN  /\ array # NULL /\ n < MaxUsed
      /\ headers' = Append(Removed(headers, k), [key |-> k, value |-> v])
      /\ headerslen' = Grown(n)
      /\ heap' = (heap \ RemovedBlocks(headers, k)) \cup Blocks(n + 1)
      /\ Frees(RemovedBlocks(headers, k))
      /\ last' = Call("set", k, v)
      /\ UNCHANGED array

(* ... or realloc returns NULL: the key is removed already, the doubled size *)
(* stays, and nothing points to the old array any more, which is not freed   *)
SetFails(k) ==
  /\ array # NULL /\ headerslen <= Len(headers) + 1
  /\ headers' = Removed(headers, k)
  /\ headerslen' = 2 * headerslen /\ array' = NULL
  /\ heap' = heap \ RemovedBlocks(headers, k)
  /\ Frees(RemovedBlocks(headers, k))
  /\ last' = Call("setFails", k, NoValue)

ParsedHeader_set ==
  /\ phase = "idle"
  /\ \E k \in UserKeys : \/ \E v \in Values : Set(k, v) /\ ret' = 0
                         \/ SetFails(k) /\ ret' = -1
  /\ UNCHANGED <<phase, buf, path, lines, pos, open>>

ParsedHeader_remove ==
  /\ phase = "idle" /\ array # NULL
  /\ \E k \in UserKeys :
       /\ headers' = Removed(headers, k)
       /\ heap' = heap \ RemovedBlocks(headers, k)
       /\ Frees(RemovedBlocks(headers, k))
       /\ ret' = (IF Matches(headers, k) = {} THEN -1 ELSE 0)
       /\ last' = Call("remove", k, NoValue)
  /\ UNCHANGED <<phase, buf, path, array, headerslen, lines, pos, open>>

-----------------------------------------------------------------------------
(* Parsing *)

(* Where ParsedRequest_parse gives a request line up.  Without a version it *)
(* reads past the line's end, and a port that is no number is refused only  *)
(* if errno happens to be EINVAL: such lines may also be accepted.          *)
Refused == {"length", "noEnd", "noMethod", "noAddress", "noVersion", "badVersion",
            "noProtocol", "noHost", "noPath", "twoSlashes", "noHostName", "zeroPort"}

(* What each error path has allocated when it gives up, and what it frees:  *)
(* the copy of the text, the request line, and, from the host's name on,    *)
(* the path                                                                 *)
Allocated(line) == CASE line = "length" -> {}
                     [] line = "noEnd" -> {Tmp}
                     [] line \in {"noHostName", "zeroPort"} -> {Tmp, Buf, Path}
                     [] OTHER -> {Tmp, Buf}

(* mutant: the path is forgotten *)
FreedNotPath(line) == IF line = "length" THEN {} ELSE IF line = "noEnd" THEN {Tmp} ELSE {Tmp, Buf}

Freed(line) == CASE line = "length" -> {}
                 [] line = "noEnd" -> {Tmp}
                 [] line \in {"noHostName", "zeroPort"} -> {Tmp, Buf, Path}
                 [] OTHER -> {Tmp, Buf}

(* mutant: path still points into the freed request line *)
PathAfterLeft(line) == IF line = "twoSlashes" THEN "inner" ELSE NULL

(* path pointed into the request line or to its copy, and is reset *)
PathAfter(line) == NULL

(* the object already holds a request *)
ParseAgain == /\ phase = "idle" /\ buf # NULL
              /\ ret' = -1 /\ Other
              /\ UNCHANGED <<phase, buf, path, array, headers, headerslen, lines, pos, open, heap, badFree>>

ParseRefused == /\ phase = "idle" /\ buf = NULL
                /\ \E line \in Refused :
                     /\ heap' = (heap \cup Allocated(line)) \ Freed(line)
                     /\ badFree' = (badFree \/ ~(Freed(line) \subseteq heap \cup Allocated(line)))
                     /\ path' = PathAfter(line)
                /\ ret' = -1 /\ Other
                /\ UNCHANGED <<phase, buf, array, headers, headerslen, lines, pos, open>>

ParseAccepted == /\ phase = "idle" /\ buf = NULL
                 /\ \E text \in Texts :
                      /\ lines' = text
                      /\ open' \in {FALSE, text[Len(text)].name # Blank}
                 /\ buf' = "heap" /\ path' = "heap"
                 /\ heap' = heap \cup {Buf, Path, Tmp}
                 /\ phase' = "headers" /\ pos' = 1
                 /\ Other
                 /\ UNCHANGED <<array, headers, headerslen, badFree, ret>>

(* ParsedHeader_parse: the key runs to the next colon, wherever it is *)
Colons(from) == {j \in from .. Len(lines) : lines[j].rest # NoValue}
NextColon == CHOOSE j \in Colons(pos) : \A l \in Colons(pos) : j <= l
KeyHere == [i \in 1 .. NextColon - pos + 1 |-> lines[pos + i - 1].name]

(* The value starts two characters after the colon, be they what they may,  *)
(* and runs to the next CRLF: with nothing behind the colon it starts with  *)
(* the LF of the line's own end and runs to the end of the next line        *)
ValueHere == IF lines[NextColon].rest # <<>> THEN Tail(lines[NextColon].rest)
             ELSE <<LF>> \o LineText(lines[NextColon + 1])

LineEnds(j) == j < Len(lines) \/ (j = Len(lines) /\ ~open)
ValueEnds == LineEnds(IF lines[NextColon].rest # <<>> THEN NextColon ELSE NextColon + 1)

(* currentHeader is a header line with a colon at it or after it *)
AtHeader == /\ phase = "headers"
            /\ pos <= Len(lines) /\ lines[pos].name # Blank /\ Colons(pos) # {}

(* mutant: goes on after the line the colon was found in *)
ParseHeaderSkips == /\ AtHeader /\ ValueEnds
                    /\ Set(KeyHere, ValueHere) \/ SetFails(KeyHere)
                    /\ pos' = NextColon + 1
                    /\ UNCHANGED <<phase, buf, path, lines, open, ret>>

(* what ParsedHeader_set returns is not looked at *)
ParseHeader == /\ AtHeader /\ ValueEnds
               /\ Set(KeyHere, ValueHere) \/ SetFails(KeyHere)
               /\ pos' = pos + 1
               /\ UNCHANGED <<phase, buf, path, lines, open, ret>>

(* the blank line, or a line with no colon at it or after it *)
ParseEnds == /\ phase = "headers" /\ ~AtHeader
             /\ ret' = (IF lines[pos].name = Blank THEN 0 ELSE -1)
             /\ phase' = "idle" /\ Other
             /\ heap' = heap \ {Tmp} /\ Frees({Tmp})
             /\ lines' = <<>> /\ pos' = 0 /\ open' = FALSE
             /\ UNCHANGED <<buf, path, array, headers, headerslen>>

(* No CRLF after the value: its length is counted from a null pointer, or   *)
(* what is read lies behind the text.  A lost array: set, remove, unparse   *)
(* and destroy follow a null pointer to the first of its entries.           *)
Crash == /\ \/ AtHeader /\ (~ValueEnds \/ array = NULL)
            \/ phase = "idle" /\ array = NULL
         /\ phase' = "crash" /\ Other
         /\ UNCHANGED <<buf, path, array, headers, headerslen, lines, pos, open, heap, badFree, ret>>

-----------------------------------------------------------------------------
(* Printing and destroying *)

Live(hs) == {i \in DOMAIN hs : hs[i].key # NoKey}

(* mutant: prints removed entries too *)
PrintAll(hs) == hs

(* ParsedHeader_printHeaders, into a buffer of ParsedHeader_headersLen: what *)
(* the loop has printed after n entries                                      *)
ParsedHeader_printHeaders(hs) ==
  LET printed[n \in 0 .. Len(hs)] ==
        IF n = 0 THEN <<>>
        ELSE IF hs[n].key = NoKey THEN printed[n - 1] ELSE Append(printed[n - 1], hs[n])
  IN  printed[Len(hs)]

(* ParsedRequest_unparse changes nothing; the buffer may be too small *)
ParsedRequest_unparse ==
  /\ phase = "idle"
  /\ ret' = -1 \/ (buf # NULL /\ array # NULL /\ ret' = 0)
  /\ Other
  /\ UNCHANGED <<phase, buf, path, array, headers, headerslen, lines, pos, open, heap, badFree>>

(* ParsedHeader_destroyOne: a removed entry is skipped *)
EntryBlocks(hs) == UNION {Blocks(i) : i \in Live(hs)}

OwnBlocks == (IF buf # NULL THEN {Buf} ELSE {})
             \cup (IF path = "heap" THEN {Path} ELSE IF path = "inner" THEN {Inner} ELSE {})
             \cup EntryBlocks(headers) \cup {Array}

ParsedRequest_destroy ==
  /\ phase = "idle" /\ array # NULL
  /\ heap' = heap \ OwnBlocks /\ Frees(OwnBlocks)
  /\ phase' = "destroyed" /\ headers' = <<>> /\ headerslen' = 0
  /\ ret' = 0 /\ last' = Call("destroy", NoKey, NoValue)
  /\ UNCHANGED <<buf, path, array, lines, pos, open>>

Next == \/ ParsedHeader_set \/ ParsedHeader_remove
        \/ ParseAgain \/ ParseRefused \/ ParseAccepted \/ ParseHeader \/ ParseEnds \/ Crash
        \/ ParsedRequest_unparse \/ ParsedRequest_destroy

Spec == Init /\ [][Next]_vars

-----------------------------------------------------------------------------
TypeOK == /\ phase \in {"idle", "headers", "crash", "destroyed"}
          /\ buf \in {NULL, "heap"} /\ path \in {NULL, "heap"} /\ array \in {NULL, "heap"}
          /\ headers \in Seq(Entry) /\ headerslen \in Nat
          /\ lines \in Lines /\ pos \in Nat /\ open \in BOOLEAN
          /\ badFree \in BOOLEAN /\ ret \in {0, -1}

(* The entry set writes lies inside the array at every moment, across any   *)
(* number of sets, removes and doublings                                    *)
CapacityLeft == phase # "destroyed" => Len(headers) < headerslen

(* Over all error paths of ParsedRequest_parse and any later use, only      *)
(* allocated blocks are freed, each once, and ParsedRequest_destroy leaves  *)
(* nothing behind                                                           *)
MemorySafe == ~badFree /\ (phase = "destroyed" => heap = {})

(* The header map the array stands for *)
HeaderValue(hs, k) == IF Matches(hs, k) = {} THEN NoValue
                      ELSE hs[ParsedHeader_get(hs, k)].value
Map == INSTANCE HeaderMap WITH map <- [k \in Keys |-> HeaderValue(headers, k)], Values <- Stored

(* The array with its removed entries behaves as a map from keys to values; *)
(* a set that finds no memory takes its key away, and then the array is     *)
(* never read again                                                         *)
ImplementsMap == Map!Spec

(* no later line that was parsed files a value under the name of line i *)
LastOfName(i) == \A j \in i + 1 .. pos - 1 : lines[j].name = lines[i].name => lines[j].rest = NoValue

(* Every header line parsed so far that has the form "name: value" has its  *)
(* value in the map, unless a later one of its name took its place: also    *)
(* after and between lines that have no colon and are joined with it, or    *)
(* nothing behind the colon and swallow it, as long as memory lasts.  Of    *)
(* "name:value", the form proxy_parse.h 45 gives, it is not true: the       *)
(* parser takes the first character for the space and drops it              *)
ParsedKept ==
  phase = "headers" /\ array # NULL =>
    \A i \in 1 .. pos - 1 :
      lines[i].rest \notin {NoValue, <<>>} /\ lines[i].rest[1] = SP /\ LastOfName(i)
        => HeaderValue(headers, <<lines[i].name>>) = Tail(lines[i].rest)

(* What ParsedRequest_unparse prints is the map: every key once, with its   *)
(* value, and nothing that was removed                                      *)
PrintedIsMap ==
  LET out == ParsedHeader_printHeaders(headers)
  IN  /\ \A i \in DOMAIN out : out[i].key \in Keys /\ HeaderValue(headers, out[i].key) = out[i].value
      /\ \A i, j \in DOMAIN out : out[i].key = out[j].key => i = j
      /\ \A k \in Keys : HeaderValue(headers, k) # NoValue => \E i \in DOMAIN out : out[i].key = k
=============================================================================
