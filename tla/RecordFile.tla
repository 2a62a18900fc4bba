------------------------------- MODULE RecordFile -------------------------------
(***************************************************************************)
(* The record file of "pk create" (src/handle-record.c with src/strlist.c, *)
(* src/strbuf.c and the I/O wrappers): the template is put together from   *)
(* the values on the command line and written, the user saves some text    *)
(* over it, the text is cut into lines, filtered and turned into a record. *)
(*                                                                         *)
(* A text is a sequence of characters; a word counts as one.  NULL is      *)
(* None.  A pointer to a line is the number of the line, elvec the array   *)
(* of pointers, and what has been freed is remembered: to read or free it  *)
(* again may do anything, and the model goes no further ("undefined").     *)
(***************************************************************************)
EXTENDS StrBuf, Sequences, SequencesExt, FiniteSets

CONSTANTS
    Char,      \* the characters of a text
    None,      \* NULL
    Records,   \* the records command lines may give
    Edits(_),  \* record -> the texts its user may save in place of the template
    Message,   \* COMMON_RECORD_MESSAGE
    MaxIoSize  \* MAX_IO_SIZE

NL == "\n"

(* fmap0; an id is the name between two colons. *)
Fields  == <<"sitename", "siteurl", "username", "password",
             "guard", "recovery", "memo", "comment">>
Names   == {Fields[k] : k \in DOMAIN Fields}
Id(f)   == <<":", f, ":">>

Strings == Seq(Char)

ASSUME TextAssumption ==
    /\ Names \cup {":", NL} \subseteq Char /\ "" \notin Char
    /\ Message \in Strings /\ MaxIoSize \in Nat
    /\ \A r \in Records :
          r \in [Names -> {None} \cup Strings] /\ Edits(r) \subseteq Strings

VARIABLES
    pc,
    rec,     \* struct record: field -> its value
    given,   \* history: the record before it is read back
    edited,  \* history: did the user save?
    text,    \* what the buffer holds: the template, then a field
    sb,      \* the size of the buffer
    file,    \* what the file holds
    size,    \* rec_bufsz
    lines,   \* the strings of the list
    elvec,   \* lines->elvec[0 .. size - 1]
    freed,   \* the strings that were freed
    i, ii,   \* the variables of the loops
    target   \* fmap: the field that is being read

buffer == <<text, sb>>
list   == <<lines, elvec, freed>>
loops  == <<i, ii, target>>
vars   == <<pc, rec, given, edited, buffer, file, size, list, loops>>

NoRecord == [f \in Names |-> None]

Init ==
    /\ pc = "format" /\ rec \in Records /\ given = rec /\ edited = FALSE
    /\ text = <<>> /\ sb = STRBUF_INIT
    /\ file = <<>> /\ size = 0
    /\ lines = <<>> /\ elvec = <<>> /\ freed = {}
    /\ i = 1 /\ ii = 1 /\ target = ""

(* is_blank_str(): of spaces and newlines only. *)
IsBlank(str) == str = None \/ \A k \in DOMAIN str : str[k] \in {" ", NL}

IsIncompleteRecord(r) == IsBlank(r["sitename"]) \/ IsBlank(r["password"])
-------------------------------------------------------------------------------
(***************************************************************************)
(* populate_record_file()                                                  *)
(***************************************************************************)
(* Mutant: the value is put without the newlines behind it. *)
FormatField_Unterminated ==
    LET id  == Id(Fields[i])
        val == rec[Fields[i]]
    IN  /\ pc = "format" /\ i <= Len(Fields)
        /\ i' = i + 1
        /\ IF IsBlank(val)
           THEN /\ text' = text \o id \o <<NL, NL, NL>>
                /\ sb' = StrbufPutchar(StrbufPutchar(StrbufPuts(sb, Len(id))))
           ELSE /\ text' = text \o id \o <<NL>> \o val
                /\ sb' = StrbufWrite(StrbufPuts(sb, Len(id)), Len(val))
        /\ UNCHANGED <<pc, rec, given, edited, file, size, list, ii, target>>

FormatField ==
    LET id  == Id(Fields[i])
        val == rec[Fields[i]]
    IN  /\ pc = "format" /\ i <= Len(Fields)
        /\ i' = i + 1
        /\ IF IsBlank(val)
           THEN /\ text' = text \o id \o <<NL, NL, NL>>
                /\ sb' = StrbufPutchar(StrbufPutchar(StrbufPuts(sb, Len(id))))
           ELSE /\ text' = text \o id \o <<NL>> \o val \o <<NL, NL>>
                /\ sb' = StrbufPutchar(StrbufPuts(StrbufPuts(sb, Len(id)), Len(val)))
        /\ UNCHANGED <<pc, rec, given, edited, file, size, list, ii, target>>

FormatMessage ==
    /\ pc = "format" /\ i = Len(Fields) + 1
    /\ text' = text \o Message \o <<NL>> /\ sb' = StrbufPuts(sb, Len(Message))
    /\ pc' = "create"
    /\ UNCHANGED <<rec, given, edited, file, size, list, loops>>

Die(from) == pc = from /\ pc' = "died"

(* populate_file(): what write() leaves out is not written again but ends pk. *)
WriteFails ==
    /\ Die("create")
    /\ \E n \in {0, Len(text) - 1} : file' = SubSeq(text, 1, n)
    /\ UNCHANGED <<rec, given, edited, buffer, size, list, loops>>

WriteFile ==
    /\ pc = "create" /\ Len(text) <= MaxIoSize
    /\ file' = text /\ pc' = "edit"
    /\ UNCHANGED <<rec, given, edited, buffer, size, list, loops>>

Save ==
    /\ pc = "edit"
    /\ file' \in Edits(rec) /\ edited' = TRUE
    /\ pc' = "seek"
    /\ UNCHANGED <<rec, given, buffer, size, list, loops>>

LeaveAsIs ==
    /\ pc = "edit" /\ pc' = "seek"
    /\ UNCHANGED <<rec, given, edited, buffer, file, size, list, loops>>
-------------------------------------------------------------------------------
(***************************************************************************)
(* read_record_file()                                                      *)
(***************************************************************************)
OpenFails ==
    /\ Die("seek")
    /\ UNCHANGED <<rec, given, edited, buffer, file, size, list, loops>>

(* "cancelled" frees a list; before the text is there, the list is not. *)
SeekEnd ==
    /\ pc = "seek"
    /\ size' = Len(file)
    /\ pc' = IF Len(file) = 0 THEN "undefined" ELSE "fetch"
    /\ UNCHANGED <<rec, given, edited, buffer, file, list, loops>>

(* An editor that still runs empties the file before it writes it. *)
EmptiedMeanwhile ==
    /\ pc = "fetch" /\ edited /\ file # <<>>
    /\ file' = <<>>
    /\ UNCHANGED <<pc, rec, given, edited, buffer, size, list, loops>>

ReadFails ==
    /\ Die("fetch")
    /\ UNCHANGED <<rec, given, edited, buffer, file, size, list, loops>>

(* strlist_split() *)
Split(str) ==
    LET split[k \in 0 .. Len(str)] ==
          IF k = 0 THEN << <<>> >>
          ELSE LET strs == split[k - 1]
               IN  IF str[k] = NL THEN Append(strs, <<>>)
                   ELSE [strs EXCEPT ![Len(strs)] = Append(@, str[k])]
    IN  split[Len(str)]

(* One read() gets all of the text but what is beyond MAX_IO_SIZE or no longer
   there; the buffer is as malloc() left it from there on. *)
ReadLines ==
    /\ pc = "fetch"
    /\ IF Len(file) < size \/ size > MaxIoSize
       THEN pc' = "undefined" /\ UNCHANGED list
       ELSE /\ pc' = "filter"
            /\ lines' = Split(file)
            /\ elvec' = [k \in DOMAIN lines' |-> k]
            /\ UNCHANGED freed
    /\ UNCHANGED <<rec, given, edited, buffer, file, size, loops>>

First(line) == IF line = <<>> THEN "" ELSE line[1]

(* recfile_line_filter() and recfile_line_filter_all() *)
LineFilter(line)    == First(line) \notin {"", "#"}
LineFilterAll(line) == LineFilter(line) /\ First(line) # ":"

(* Every line of COMMON_RECORD_MESSAGE begins with a "#": the filter drops them all. *)
ASSUME MessageAssumption == \A k \in DOMAIN Split(Message) : ~LineFilter(Split(Message)[k])

(* The elements strlist_filter() drops. *)
Track(keep(_)) == {k \in DOMAIN elvec : ~keep(lines[elvec[k]])}

(* Mutant: the last run is moved to its end. *)
Filtered_Whole(track) ==
    LET Dropped(k) == Cardinality({d \in track : d < k})
        Moves(to)  == {k \in DOMAIN elvec \ track : k - Dropped(k) = to}
    IN  [to \in 1 .. Len(elvec) - Cardinality(track) |->
            elvec[IF Moves(to) = {} THEN to ELSE CHOOSE k \in Moves(to) : TRUE]]

(* strlist_filter(): an element that is kept moves by the number of those dropped
   before it.  The last run is taken to end where the list, shortened by the
   elements dropped so far, ends; what is behind that stays where it is. *)
Filtered(track) ==
    LET m          == Cardinality(track)
        Dropped(k) == Cardinality({d \in track : d < k})
        Moves(to)  == {k \in DOMAIN elvec \ track :
                          /\ k - Dropped(k) = to
                          /\ Dropped(k) = m => k <= Len(elvec) - (m - 1)}
    IN  [to \in 1 .. Len(elvec) - m |->
            elvec[IF Moves(to) = {} THEN to ELSE CHOOSE k \in Moves(to) : TRUE]]

IsReadable(k) == elvec[k] \notin freed

(* A call of strlist_filter(), and where it leads when no element was freed. *)
Filter(keep(_), empty, next) ==
    LET track   == Track(keep)
        dropped == {elvec[k] : k \in track}
    IN  IF \/ \E k \in DOMAIN elvec : ~IsReadable(k)
           \/ Cardinality(dropped) # Cardinality(track)
        THEN pc' = "undefined" /\ UNCHANGED list
        ELSE /\ freed' = freed \cup dropped
             /\ elvec' = Filtered(track)
             /\ pc' = IF elvec' = <<>> THEN empty ELSE next
             /\ UNCHANGED lines

FilterLines ==
    /\ pc = "filter"
    /\ Filter(LineFilter, "aborted", "assign")
    /\ rec' = IF pc' = "assign" THEN NoRecord ELSE rec
    /\ i' = 1 /\ ii' = 1 /\ text' = <<>> /\ sb' = STRBUF_INIT
    /\ UNCHANGED <<given, edited, file, size, target>>

Line(k) == lines[elvec[k]]
InList(k) == k <= Len(elvec)

(* A freed string is looked at. *)
ReadFreed ==
    /\ \/ pc = "assign" /\ InList(i) /\ ~IsReadable(i)
       \/ pc = "collect" /\ InList(ii) /\ ~IsReadable(ii)
    /\ pc' = "undefined"
    /\ UNCHANGED <<rec, given, edited, buffer, file, size, list, loops>>

IsId(line) == \E f \in Names : line = Id(f)

(* reassign_record(): what belongs to no field is skipped. *)
SkipLine ==
    /\ pc = "assign" /\ InList(i) /\ IsReadable(i) /\ ~IsId(Line(i))
    /\ i' = i + 1
    /\ UNCHANGED <<pc, rec, given, edited, buffer, file, size, list, ii, target>>

BeginField ==
    /\ pc = "assign" /\ InList(i) /\ IsReadable(i) /\ IsId(Line(i))
    /\ target' = CHOOSE f \in Names : Line(i) = Id(f)
    /\ ii' = i + 1 /\ pc' = "collect"
    /\ UNCHANGED <<rec, given, edited, buffer, file, size, list, i>>

IsText(k) == InList(k) /\ IsReadable(k) /\ First(Line(k)) # ":"

(* Mutant: the bar is taken for a part of the text. *)
AppendLine_WithBar ==
    /\ pc = "collect" /\ IsText(ii)
    /\ text' = text \o Line(ii) \o (IF First(Line(ii)) = "|" THEN <<NL>> ELSE <<>>)
    /\ sb' = StrbufWrite(sb, Len(text') - Len(text))
    /\ ii' = ii + 1
    /\ UNCHANGED <<pc, rec, given, edited, file, size, list, i, target>>

AppendLine ==
    /\ pc = "collect" /\ IsText(ii)
    /\ IF First(Line(ii)) = "|"
       THEN text' = text \o Tail(Line(ii)) \o <<NL>> /\ sb' = StrbufPuts(sb, Len(Line(ii)) - 1)
       ELSE text' = text \o Line(ii) /\ sb' = StrbufWrite(sb, Len(Line(ii)))
    /\ ii' = ii + 1
    /\ UNCHANGED <<pc, rec, given, edited, file, size, list, i, target>>

(* A field without lines is left as it is. *)
EndField ==
    /\ pc = "collect" /\ pc' = "assign"
    /\ InList(ii) => IsReadable(ii) /\ ~IsText(ii)
    /\ i' = ii
    /\ IF ii = i + 1
       THEN UNCHANGED <<rec, buffer>>
       ELSE /\ rec' = [rec EXCEPT ![target] = text]
            /\ text' = <<>> /\ sb' = StrbufTrunc(sb)
    /\ UNCHANGED <<given, edited, file, size, list, ii, target>>

CheckRecord ==
    /\ pc = "assign" /\ ~InList(i)
    /\ pc' = IF IsIncompleteRecord(rec) THEN "filterall" ELSE "complete"
    /\ UNCHANGED <<rec, given, edited, buffer, file, size, list, loops>>

FilterAll ==
    /\ pc = "filterall"
    /\ Filter(LineFilterAll, "aborted", "incomplete")
    /\ UNCHANGED <<rec, given, edited, buffer, file, size, loops>>

(* strlist_destroy() *)
Destroy ==
    /\ pc \in {"complete", "incomplete"}
    /\ pc' = IF \/ \E k \in DOMAIN elvec : ~IsReadable(k)
                \/ \E k, l \in DOMAIN elvec : k # l /\ elvec[k] = elvec[l]
             THEN "undefined"
             ELSE IF pc = "complete" THEN "open" ELSE "missing"
    /\ UNCHANGED <<rec, given, edited, buffer, file, size, list, loops>>

Ended == {"open", "missing", "aborted", "undefined", "died"}

Next ==
    \/ FormatField \/ FormatMessage \/ WriteFails \/ WriteFile \/ Save \/ LeaveAsIs
    \/ OpenFails \/ SeekEnd \/ EmptiedMeanwhile \/ ReadFails \/ ReadLines \/ FilterLines
    \/ ReadFreed \/ SkipLine \/ BeginField \/ AppendLine \/ EndField \/ CheckRecord
    \/ FilterAll \/ Destroy
    \/ pc \in Ended /\ UNCHANGED vars

Spec == Init /\ [][Next]_vars
-------------------------------------------------------------------------------
(***************************************************************************)
(* What a text says, without the list and its loops.                       *)
(***************************************************************************)
(* The elements of strs at the places in kept, in their order. *)
Selected(strs, kept) ==
    LET Rank(k) == Cardinality({l \in kept : l <= k})
    IN  [to \in 1 .. Cardinality(kept) |-> strs[CHOOSE k \in kept : Rank(k) = to]]

Kept(str) ==
    LET strs == Split(str) IN Selected(strs, {k \in DOMAIN strs : LineFilter(strs[k])})

IsMark(line) == First(line) = ":"

(* Behind a bar all else is text, and ends with a newline. *)
Said(line) == IF First(line) = "|" THEN Tail(line) \o <<NL>> ELSE line

(* The text below the line k of kept, up to the next mark. *)
Section(kept, k) ==
    LET end == CHOOSE e \in k + 1 .. Len(kept) + 1 :
                   /\ e > Len(kept) \/ IsMark(kept[e])
                   /\ \A l \in k + 1 .. e - 1 : ~IsMark(kept[l])
    IN  FlattenSeq([l \in 1 .. end - k - 1 |-> Said(kept[k + l])])

(* The marks of f with a text. *)
Says(kept, f) ==
    {k \in DOMAIN kept : kept[k] = Id(f) /\ k < Len(kept) /\ ~IsMark(kept[k + 1])}

(* The last of them counts. *)
LastSection(kept, marks) ==
    IF marks = {} THEN None
    ELSE Section(kept, CHOOSE k \in marks : \A l \in marks : l <= k)

MeaningOf(kept) == [f \in Names |-> LastSection(kept, Says(kept, f))]

Meaning(str) == MeaningOf(Kept(str))

HasText(str) == \E k \in DOMAIN Kept(str) : ~IsMark(Kept(str)[k])

(* strlist_filter() loses elements if it drops two and keeps the last one. *)
Damages(keep(_), strs) ==
    /\ Cardinality({k \in DOMAIN strs : ~keep(strs[k])}) >= 2
    /\ keep(strs[Len(strs)])

(* A record is taken from the file only if it is complete and just as the text
   says; without any text the creation is aborted, and it fails if a required
   field has none. *)
ReadsFile ==
    /\ pc = "open" => rec = Meaning(file) /\ ~IsIncompleteRecord(rec)
    /\ pc = "aborted" => ~HasText(file)
    /\ pc = "missing" => HasText(file) /\ IsIncompleteRecord(Meaning(file))

(* A value that is one line, begins with no mark and is not blank. *)
IsPlain(val) == ~IsBlank(val) /\ First(val) \notin {"#", ":", "|"}
                /\ \A k \in DOMAIN val : val[k] # NL

(* The values of the command line are kept in a file the user leaves alone, where
   they are plain; a blank one is dropped. *)
UneditedKept ==
    /\ pc = "open" /\ ~edited
    /\ \A f \in Names : IsBlank(given[f]) \/ IsPlain(given[f])
    => \A f \in Names : rec[f] = IF IsBlank(given[f]) THEN None ELSE given[f]

(* To read a record file has a defined outcome unless the file is empty, larger
   than one read() or emptied meanwhile, or a filter drops two lines and keeps the
   last: the first one in a text without a final newline, the second one where
   the last field has text and a required field has none. *)
UndefinedExactly ==
    LET badtext   == size = 0 \/ size > MaxIoSize \/ Len(file) < size
        badfilter == \/ Damages(LineFilter, Split(file))
                     \/ /\ IsIncompleteRecord(Meaning(file))
                        /\ Kept(file) # <<>>
                        /\ Damages(LineFilterAll, Kept(file))
    IN  /\ pc = "undefined" => badtext \/ badfilter
        /\ pc \in {"open", "missing", "aborted"} => ~badtext /\ ~badfilter

(* The template and the fields stay within the memory of their buffer, which
   holds as much as it is said to. *)
BufferFits == Fits(sb) /\ sb.length = Len(text)
===============================================================================
