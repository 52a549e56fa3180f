------------------------------- MODULE Chunking -------------------------------
(***************************************************************************)
(* chunk_document: a document is a list of lines, which become blocks, the *)
(* blocks chunks, and the chunks the rows of the library.  Of a line only  *)
(* its kind, its length and whether it ends a sentence count; of a text    *)
(* which lines it is made of and the line breaks between them.  The last   *)
(* pass, which gives each chunk its authority, is left out.                *)
(***************************************************************************)
EXTENDS Integers, Sequences, SequencesExt, FiniteSets

CONSTANTS
    ProseLines,  \* lines of prose: kind "heading", "text" or "blank"
    CodeLines,   \* lines of code: "unit" and "open" begin a block, "text", "blank"
    MaxLines,    \* bound: lines of a document
    chunk_max_chars,
    chunk_min_chars

VARIABLES
    doc,      \* the lines
    is_code   \* doc_type = Code?

textVars == <<doc, is_code>>

TextInit == doc = <<>> /\ is_code \in BOOLEAN

AddLine ==
    /\ Len(doc) < MaxLines
    /\ \E l \in IF is_code THEN CodeLines ELSE ProseLines : doc' = Append(doc, l)
    /\ UNCHANGED is_code

-----------------------------------------------------------------------------
(* Texts: items [line, len, stop, sep], sep line breaks after each.        *)

Item(i, extra, sep) ==
    [line |-> i, len |-> doc[i].len + extra, stop |-> doc[i].stop, sep |-> sep]

Size(t) == FoldLeft(LAMBDA n, x : n + x.len + x.sep, 0, t)
Offset(i) == FoldLeft(LAMBDA n, l : n + l.len + 1, 0, SubSeq(doc, 1, i - 1))

SetSep(t, n) == IF t = <<>> THEN t ELSE [t EXCEPT ![Len(t)].sep = n]

(* trim: no empty lines at the ends, no line break after the last. *)
Trim(t) ==
    LET full == {k \in 1..Len(t) : t[k].len > 0} IN
    IF full = {} THEN <<>>
    ELSE SetSep(SubSeq(t, CHOOSE k \in full : \A j \in full : k <= j,
                          CHOOSE k \in full : \A j \in full : k >= j), 0)

Slice(from, to) == Trim([k \in 1..(to - from) |-> Item(from + k - 1, 0, 1)])

Block(t, section, kind, start) ==
    [text |-> t, section |-> section, kind |-> kind, start |-> start,
     end |-> start + Size(t)]

-----------------------------------------------------------------------------
(* Blocks. *)

push_prose_block(s, to) ==
    IF s.para = 0 THEN s
    ELSE [s EXCEPT !.para = 0,
             !.blocks = Append(@, Block(Slice(s.para, to), s.section, "prose",
                                        Offset(s.para)))]

(* A heading line (# or capitals) is a block "## title" and names the      *)
(* section of what follows; an empty line ends a paragraph.                *)
ProseLine(s, i) ==
    LET done == push_prose_block(s, i) IN
    CASE doc[i].kind = "heading" ->
            [blocks |-> Append(done.blocks,
                 [Block(<<Item(i, 3, 0)>>, i, "heading", Offset(i)) EXCEPT !.end = Offset(i + 1)]),
             section |-> i, para |-> 0]
      [] doc[i].kind = "blank" -> done
      [] OTHER -> IF s.para = 0 THEN [s EXCEPT !.para = i] ELSE s

prose_blocks ==
    push_prose_block(
        FoldLeft(ProseLine, [blocks |-> <<>>, section |-> 0, para |-> 0],
                 [i \in 1..Len(doc) |-> i]),
        Len(doc) + 1).blocks

(* Code: from each opening line to the next one; all of it if none opens.  *)
code_blocks ==
    LET openers == SelectSeq([i \in 1..Len(doc) |-> i],
                             LAMBDA i : doc[i].kind \in {"unit", "open"})
        starts == IF openers = <<>> THEN <<1>> ELSE openers
        Stop(k) == IF k = Len(starts) THEN Len(doc) + 1 ELSE starts[k + 1]
        Kind(i) == IF doc[i].kind = "unit" THEN "code_unit" ELSE "code"
        all == [k \in 1..Len(starts) |->
                   IF doc = <<>> THEN Block(<<>>, 0, "code", 0)
                   ELSE Block(Slice(starts[k], Stop(k)), 0, Kind(starts[k]), Offset(starts[k]))]
    IN  SelectSeq(all, LAMBDA b : b.text # <<>>)

-----------------------------------------------------------------------------
(* Aggregation. *)

Closed == [open |-> FALSE, text |-> <<>>, section |-> 0, kind |-> "prose",
           start |-> 0, end |-> 0]

Chunk(c) == [text |-> c.text, section |-> c.section, kind |-> c.kind,
             start |-> c.start, end |-> c.end]

(* A block that does not fit, a heading, or a block of another kind closes *)
(* the chunk that is open.                                                 *)
AddBlock(s, b) ==
    LET heading == b.kind = "heading"
        fits == Size(s.cur.text) + Size(b.text) + 2 <= chunk_max_chars
        flush == s.cur.open /\ (~fits \/ heading \/ b.kind # s.cur.kind)
        cur == IF flush THEN Closed ELSE s.cur
    IN
    [chunks |-> IF flush THEN Append(s.chunks, Chunk(s.cur)) ELSE s.chunks,
     cur |-> IF heading
             THEN [open |-> TRUE, text |-> SetSep(b.text, 2), section |-> b.section,
                   kind |-> "prose", start |-> b.start, end |-> b.end]
             ELSE [open |-> TRUE, text |-> cur.text \o SetSep(b.text, 1),
                   section |-> IF cur.open THEN cur.section ELSE b.section,
                   kind |-> IF cur.open THEN cur.kind ELSE b.kind,
                   start |-> IF cur.open THEN cur.start ELSE b.start,
                   end |-> b.end]]

(* Mutant: the chunk still open at the end of the document is forgotten.   *)
aggregate_all_but_last(blocks) ==
    FoldLeft(AddBlock, [chunks |-> <<>>, cur |-> Closed], blocks).chunks

aggregate(blocks) ==
    LET s == FoldLeft(AddBlock, [chunks |-> <<>>, cur |-> Closed], blocks) IN
    IF s.cur.open
    THEN Append(s.chunks, [Chunk(s.cur) EXCEPT !.text = Trim(s.cur.text)])
    ELSE s.chunks

(* The offset of item k in a text, and of its end. *)
ItemStart(t, k) == Size(SubSeq(t, 1, k - 1))
ItemEnd(t, k) == ItemStart(t, k) + t[k].len

(* The cuts of an oversized text: after a sentence or an empty line, once  *)
(* chunk_max_chars have passed since the last cut.                         *)
Cuts(t) ==
    LET Cut(s, p) == IF p - s.last >= chunk_max_chars
                     THEN [last |-> p, at |-> Append(s.at, p + 1)] ELSE s
        AfterStop(s, k) == IF t[k].stop THEN Cut(s, ItemEnd(t, k) - 1) ELSE s
        EmptyLine(k) == t[k].sep = 2 \/ (t[k].sep = 1 /\ k < Len(t) /\ t[k + 1].len = 0)
        Next(s, k) == IF EmptyLine(k) THEN Cut(AfterStop(s, k), ItemEnd(t, k))
                      ELSE AfterStop(s, k)
    IN  FoldLeft(Next, [last |-> 0, at |-> <<>>], [k \in 1..Len(t) |-> k]).at

Pieces(c) ==
    LET cuts == Cuts(c.text)
        ends == IF cuts # <<>> /\ Last(cuts) >= Size(c.text) THEN cuts
                ELSE Append(cuts, Size(c.text))
        From(n) == IF n = 1 THEN 0 ELSE ends[n - 1]
        Within(n) == SelectSeq([k \in 1..Len(c.text) |-> k],
                        LAMBDA k : From(n) < ItemEnd(c.text, k) /\ ItemEnd(c.text, k) <= ends[n])
        Piece(n) == [c EXCEPT !.text = Trim([j \in 1..Len(Within(n)) |-> c.text[Within(n)[j]]]),
                              !.start = c.start + From(n), !.end = c.start + ends[n]]
    IN  SelectSeq([n \in 1..Len(ends) |-> Piece(n)], LAMBDA p : p.text # <<>>)

split_oversized(chunks) ==
    FlattenSeq([i \in 1..Len(chunks) |->
        IF Size(chunks[i].text) <= 2 * chunk_max_chars THEN <<chunks[i]>>
        ELSE Pieces(chunks[i])])

-----------------------------------------------------------------------------
(* The passes over the chunks. *)

Tiny(c) == Size(c.text) < chunk_min_chars /\ c.kind # "code_unit"

(* merge_tiny: a tiny chunk becomes the beginning of the next one. *)
merge_tiny(chunks) ==
    LET Into(c, next) ==
            [next EXCEPT !.text = SetSep(c.text, Last(c.text).sep + 1) \o @,
                         !.start = c.start,
                         !.section = IF @ = 0 THEN c.section ELSE @]
        Pass(done, next) ==
            IF done # <<>> /\ Tiny(Last(done)) THEN Append(Front(done), Into(Last(done), next))
            ELSE Append(done, next)
    IN  FoldLeft(Pass, <<>>, chunks)

chunk_document ==
    merge_tiny(split_oversized(aggregate(IF is_code THEN code_blocks ELSE prose_blocks)))

-----------------------------------------------------------------------------
(* Properties. *)

LinesOf(c) == [k \in 1..Len(c.text) |-> c.text[k].line]
Opens == {i \in 1..Len(doc) : doc[i].kind \in {"unit", "open"}}

(* Code before the first line that opens a block, when there is one. *)
Leading == IF is_code THEN {i \in 1..Len(doc) : Opens # {} /\ \A o \in Opens : i < o} ELSE {}

(* Every line with text is in one chunk, in the order of the document.     *)
(* Leading code is not spoken of here.                                     *)
KeepsText(cs) ==
    LET kept == FlattenSeq([n \in 1..Len(cs) |-> LinesOf(cs[n])])
        Spoken(i) == doc[i].kind # "blank" /\ i \notin Leading
    IN  SelectSeq(kept, Spoken) = SelectSeq([i \in 1..Len(doc) |-> i], Spoken)

(* code_blocks: "Comments/blank lines attach to the following unit".  A    *)
(* line of code before the first one that opens a block is in its block.   *)
LeadingLinesAttach ==
    \A i \in Leading, o \in Opens :
        doc[i].kind = "text" /\ (\A p \in Opens : o <= p) =>
            \E k \in 1..Len(code_blocks) : {i, o} \subseteq Range(LinesOf(code_blocks[k]))

ShortSentences ==
    \A i \in 1..Len(doc) :
        doc[i].kind = "text" => doc[i].stop /\ doc[i].len <= chunk_max_chars

(* Only the last chunk, or a unit of code, is below the minimum, and none  *)
(* is much larger than the limit if the sentences are short.               *)
SizesHold(cs) ==
    /\ \A n \in 1..(Len(cs) - 1) : ~Tiny(cs[n])
    /\ ShortSentences => \A n \in 1..Len(cs) :
                            Size(cs[n].text) <= 2 * chunk_max_chars + chunk_min_chars

Headings(i) == {h \in 1..i : doc[h].kind = "heading"}

(* The section of a chunk is the heading in effect where it ends. *)
SectionInEffect(cs) ==
    \A n \in 1..Len(cs) :
        LET above == Headings(Last(LinesOf(cs[n])))
        IN  cs[n].section = IF above = {} THEN 0
                            ELSE CHOOSE h \in above : \A g \in above : g <= h

(* The spans of the chunks lie in the document and begin in its order. *)
SpansInOrder(cs) ==
    /\ \A n \in 1..Len(cs) : cs[n].start <= cs[n].end /\ cs[n].end <= Offset(Len(doc) + 1)
    /\ \A n \in 1..(Len(cs) - 1) : cs[n].start <= cs[n + 1].start

(* What the passes over blocks and chunks keep between them: no line is    *)
(* lost, repeated or moved, but for code before the first line that opens  *)
(* a block (see LeadingLinesAttach); sizes are within the limits; a chunk  *)
(* carries the section it ends in and a span of the document.              *)
ChunksSound ==
    LET cs == chunk_document IN
    KeepsText(cs) /\ SizesHold(cs) /\ SectionInEffect(cs) /\ SpansInOrder(cs)
=============================================================================
