---------------------------- MODULE StreamParser ----------------------------
(***************************************************************************)
(* The stream between mydumper --stream and myloader --stream.  mydumper   *)
(* (src/mydumper/mydumper_stream.c) writes every file behind a line with   *)
(* its name and size; process_stream of myloader                           *)
(* (src/myloader/myloader_stream.c) cuts the stream into files again,      *)
(* through a buffer whose limits fall anywhere, and with contents that may *)
(* look like such a line.  The stream may break off (mydumper killed, the  *)
(* connection lost); a file may be in the directory already; with          *)
(* --no-stream only names are sent.                                        *)
(*                                                                         *)
(* Text is a sequence of symbols: NL, "-", " ", NUL, a letter of a file    *)
(* name, or a size, which is one symbol.                                   *)
(***************************************************************************)
EXTENDS Integers, Sequences, SequencesExt

CONSTANTS
    Streams,       \* what is sent: files, how, what is present, where it is cut
    BufferSizes,   \* the values of stream_buffer_size
    SizeBits       \* the width of total_size and file_size_from_stream (guint)

ASSUME BufferAssumption == BufferSizes \subseteq Nat \ {0, 1} /\ SizeBits \in Nat

VARIABLES
    sent,         \* the files that mydumper sends, and how (an element of Streams)
    stdin,        \* what can still be read
    buffer,       \* buffer[0 .. stream_buffer_size - 1]
    buffer_len,
    diff,         \* the bytes carried over to the next read
    pos,
    filename,     \* the current file; NoFile before the first header
    file,         \* it is open (not NULL)
    total_size, file_size_from_stream,
    written,      \* the contents of the files written
    pushed,       \* the names given to process_filename_push
    at            \* "read", "lines", "ended" or "crashed"; "directory" when
                  \* process_directory takes the place of process_stream

vars == <<sent, stdin, buffer, buffer_len, diff, pos, filename, file, total_size,
          file_size_from_stream, written, pushed, at>>

NL == "nl"
NUL == "nul"
Tag == <<NL, "-", "-", " ">>
NoFile == <<>>

\* The symbol of a size, and g_ascii_strtoull.
Digits == <<"0", "1", "2", "3", "4", "5", "6", "7", "8", "9", "10", "11", "12">>
ToNumber(symbol) ==
    IF symbol \in Range(Digits) THEN (CHOOSE i \in DOMAIN Digits : Digits[i] = symbol) - 1 ELSE 0

Guint(n) == n % 2 ^ SizeBits

-----------------------------------------------------------------------------
(* mydumper: process_stream *)

no_stream == sent.no_stream
Header(f, size) == Tag \o f.name \o <<" ", Digits[size + 1], NL>>
Frame(s, f) == IF s.no_stream THEN Header(f, 0) ELSE Header(f, Len(f.data)) \o f.data
Text(s) == FoldLeft(LAMBDA text, f : text \o Frame(s, f), <<>>, s.files)

-----------------------------------------------------------------------------
(* myloader: the buffer *)

Sub(from, to) == [i \in 1 .. to - from + 1 |-> buffer[from + i - 1]]
HasPrefix(from, prefix) ==
    \A i \in DOMAIN prefix : from + i - 1 \in DOMAIN buffer /\ buffer[from + i - 1] = prefix[i]

\* The first place from p on where buffer has one of the symbols.
Find(p, symbols) ==
    CHOOSE q \in p .. sent.buffer_size - 1 :
      /\ q = sent.buffer_size - 1 \/ buffer[q] \in symbols
      /\ \A r \in p .. q - 1 : buffer[r] \notin symbols

\* flush: nothing without a file.
Flushed(bytes) ==
    /\ written' = IF file THEN [written EXCEPT ![filename] = @ \o bytes] ELSE written
    /\ total_size' = IF file THEN Guint(total_size + Len(bytes)) ELSE total_size

\* g_strlcpy(buffer, &buffer[from], diff + 1) ends at the first NUL.
Carried(from) ==
    LET n == Find(from, {NUL}) - from
        end == IF n < buffer_len - from THEN n ELSE buffer_len - from
    IN [i \in DOMAIN buffer |-> IF i < end THEN buffer[from + i]
                                ELSE IF i = end THEN NUL ELSE buffer[i]]

\* read_more
Read ==
    LET room == sent.buffer_size - 1 - diff
        n == IF Len(stdin) < room THEN Len(stdin) ELSE room
    IN /\ at = "read"
       /\ n > 0
       /\ buffer' = [i \in DOMAIN buffer |->
                       IF i \in diff .. diff + n - 1 THEN stdin[i - diff + 1] ELSE buffer[i]]
       /\ stdin' = SubSeq(stdin, n + 1, Len(stdin))
       /\ buffer_len' = n + diff
       /\ pos' = 0
       /\ diff' = 0
       /\ at' = "lines"
       /\ UNCHANGED <<sent, filename, file, total_size, file_size_from_stream, written, pushed>>

\* Nothing was read: what was carried is flushed, and the last file pushed,
\* whatever its size.
ReadNothing ==
    /\ at = "read"
    /\ stdin = <<>> \/ diff = sent.buffer_size - 1
    /\ Flushed(Sub(0, diff - 1))
    /\ pushed' = IF ~no_stream /\ filename # NoFile THEN Append(pushed, filename) ELSE pushed
    /\ at' = "ended"
    /\ UNCHANGED <<sent, stdin, buffer, buffer_len, diff, pos, filename, file,
                   file_size_from_stream>>

-----------------------------------------------------------------------------
(* myloader: one turn of the loop over the lines in the buffer *)

\* New lines, then the rest of a line.  The first loop does not look at
\* buffer_len, and may go over what an earlier read left behind it.
AfterNewLines == CHOOSE q \in pos .. sent.buffer_size - 1 :
                   buffer[q] # NL /\ \A r \in pos .. q - 1 : buffer[r] = NL
LineFrom == IF AfterNewLines = pos THEN pos ELSE AfterNewLines - 1
LineEnd == IF AfterNewLines >= buffer_len THEN AfterNewLines
           ELSE LET q == Find(AfterNewLines, {NL})
                IN IF q < buffer_len THEN q ELSE buffer_len
InLines == at = "lines" /\ pos < buffer_len
IsLine == buffer[LineEnd] = NL

CommonLine ==
    /\ InLines /\ IsLine
    /\ ~HasPrefix(LineFrom, Tag)
    /\ Flushed(Sub(pos, LineEnd - 1))
    /\ pos' = LineEnd
    /\ UNCHANGED <<sent, stdin, buffer, buffer_len, diff, filename, file,
                   file_size_from_stream, pushed, at>>

\* The size of the current file once the new lines in front of a header are
\* flushed (with --no-stream nothing may have been written).
SizeAtHeader == IF file THEN Guint(total_size + LineFrom - pos) ELSE total_size

\* Mutant: the size in the header is not looked at.
TooEarlyNever == FALSE

TooEarly == file /\ ~no_stream /\ SizeAtHeader < file_size_from_stream
TooLate == file /\ SizeAtHeader > (IF no_stream THEN 0 ELSE file_size_from_stream)

\* A line of the file that looks like a header.
TagInside ==
    /\ InLines /\ IsLine
    /\ HasPrefix(LineFrom, Tag)
    /\ TooEarly
    /\ Flushed(Sub(pos, LineEnd - 1))
    /\ pos' = LineEnd
    /\ UNCHANGED <<sent, stdin, buffer, buffer_len, diff, filename, file,
                   file_size_from_stream, pushed, at>>

\* m_critical: more was written than the header had said, or --no-stream
\* names a file that is not there.
NameEnd == Find(LineFrom + 4, {" ", NUL})
NewName == Sub(LineFrom + 4, NameEnd - 1)
Exists(name) == name \in sent.present \/ name \in DOMAIN written

HeaderFails ==
    /\ InLines /\ IsLine
    /\ HasPrefix(LineFrom, Tag)
    /\ ~TooEarly
    /\ TooLate \/ (no_stream /\ ~Exists(NewName))
    /\ at' = "crashed"
    /\ UNCHANGED <<sent, stdin, buffer, buffer_len, diff, pos, filename, file, total_size,
                   file_size_from_stream, written, pushed>>

\* The current file is complete and goes to the loader (not one that was
\* there before); the next one is opened unless it exists.
HeaderLine ==
    /\ InLines /\ IsLine
    /\ HasPrefix(LineFrom, Tag)
    /\ ~TooEarly /\ ~TooLate
    /\ no_stream => Exists(NewName)
    /\ LET flushed == IF file THEN [written EXCEPT ![filename] = @ \o Sub(pos, LineFrom - 1)]
                      ELSE written
           opens == ~Exists(NewName)
       IN /\ written' = IF opens THEN (NewName :> <<>>) @@ flushed ELSE flushed
          /\ pushed' = pushed \o (IF file THEN <<filename>> ELSE <<>>)
                              \o (IF no_stream THEN <<NewName>> ELSE <<>>)
          /\ file' = opens
    /\ filename' = NewName
    /\ file_size_from_stream' =
         IF buffer[NameEnd] = " " THEN Guint(ToNumber(buffer[NameEnd + 1])) ELSE 0
    /\ total_size' = IF file THEN 0 ELSE total_size
    /\ pos' = LineEnd + 1
    /\ UNCHANGED <<sent, stdin, buffer, buffer_len, diff, at>>

\* Mutant: only a whole tag at the end of the buffer is carried over.
MayBeTagWhole == HasPrefix(LineFrom, Tag)

\* The end of the buffer: it may be the beginning of a header.  g_strndup
\* ends at a NUL, and one at once is no tag.
MayBeTag ==
    IF LineEnd - LineFrom >= 4 THEN HasPrefix(LineFrom, Tag)
    ELSE LET q == Find(LineFrom, {NUL})
             tmp == Sub(LineFrom, (IF q < LineEnd THEN q ELSE LineEnd) - 1)
         IN tmp # <<>> /\ \E i \in 0 .. 4 - Len(tmp) : SubSeq(Tag, i + 1, i + Len(tmp)) = tmp

EndOfBuffer ==
    /\ InLines /\ ~IsLine
    /\ IF MayBeTag
       THEN /\ diff' = buffer_len - pos
            /\ buffer' = Carried(pos)
            /\ UNCHANGED <<written, total_size>>
       ELSE /\ Flushed(Sub(pos, LineEnd - 1))
            /\ diff' = 0
            /\ UNCHANGED buffer
    /\ at' = "read"
    /\ UNCHANGED <<sent, stdin, buffer_len, pos, filename, file, file_size_from_stream, pushed>>

BufferDone ==
    /\ at = "lines" /\ pos >= buffer_len
    /\ at' = "read"
    /\ UNCHANGED <<sent, stdin, buffer, buffer_len, diff, pos, filename, file, total_size,
                   file_size_from_stream, written, pushed>>

-----------------------------------------------------------------------------
Init ==
    /\ \E s \in Streams, size \in BufferSizes :
         /\ s.from = "stream" \/ \A other \in BufferSizes : size <= other
         /\ sent = ("buffer_size" :> size) @@ s
         /\ stdin = IF s.cut = 0 THEN Text(s) ELSE SubSeq(Text(s), 1, Len(Text(s)) - s.cut)
         /\ buffer = [i \in 0 .. size - 1 |-> NUL]
    /\ buffer_len = 0 /\ diff = 0 /\ pos = 0
    /\ filename = NoFile /\ file = FALSE
    /\ total_size = 0 /\ file_size_from_stream = 0
    /\ written = <<>>
    /\ pushed = <<>>
    /\ at = IF sent.from = "stream" THEN "read" ELSE "directory"

Next == \/ Read \/ ReadNothing \/ CommonLine \/ TagInside \/ HeaderFails \/ HeaderLine
        \/ EndOfBuffer \/ BufferDone

Spec == Init /\ [][Next]_vars /\ WF_vars(Next)

-----------------------------------------------------------------------------
(* Properties *)

Names == [i \in DOMAIN sent.files |-> sent.files[i].name]
DataOf(name) == (CHOOSE f \in Range(sent.files) : f.name = name).data

\* A line of the stream that starts like a header and does not fit into the
\* buffer, or as many new lines: read_more then has no room, and takes that
\* for the end.
Overlong ==
    LET text == Text(sent)
        n == sent.buffer_size - 1
    IN \E i \in 1 .. Len(text) - n + 1 :
         /\ text[i] = NL
         /\ LET rest == SubSeq(text, i, i + n - 1)
                run == CHOOSE k \in 1 .. n : /\ \A j \in 1 .. k : rest[j] = NL
                                             /\ k = n \/ rest[k + 1] # NL
                line == SubSeq(rest, run, n)
            IN /\ \A j \in 2 .. Len(line) : line[j] # NL
               /\ IF Len(line) >= 4 THEN SubSeq(line, 1, 4) = Tag
                  ELSE line = SubSeq(Tag, 1, Len(line))

\* A file that is skipped has no size to check a tag in its contents by, and
\* the sizes of a file that do not fit into a guint say little.
TagIn(data) == \E i \in 1 .. Len(data) - 3 : SubSeq(data, i, i + 3) = Tag
Ambiguous ==
    \E f \in Range(sent.files) :
      TagIn(<<NL>> \o f.data) /\ (f.name \in sent.present \/ Len(f.data) >= 2 ^ SizeBits)

\* The header is split at its blanks, and the pattern of mydumper's file
\* names allows them.
Spaced == \E f \in Range(sent.files) : " " \in Range(f.name)

\* A file that process_stream gives to the loader has the contents that were
\* sent, whatever its lines look like and wherever the buffer ends; only the
\* last file of a stream that broke off may not.
PushedIntact ==
    sent.from = "stream" /\ pushed # <<>> /\ ~Overlong /\ ~Ambiguous /\ ~Spaced =>
      \A i \in DOMAIN pushed :
        \/ i = Len(pushed) /\ at = "ended" /\ sent.cut > 0
        \/ LET name == pushed[i]
           IN /\ name \in Range(Names)
              /\ name \in DOMAIN written =>
                   /\ Len(written[name]) = Len(DataOf(name))
                   /\ NUL \notin Range(DataOf(name)) => written[name] = DataOf(name)
=============================================================================
