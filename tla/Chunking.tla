------------------------------ MODULE Chunking ------------------------------
(* How a text becomes the chunks of the knowledge base                       *)
(* (knowledge/chunking).  A text is a sequence of tokens: "x" is text, "n" a *)
(* place to split at, "f" the marker that opens or closes a code fence.      *)
(* Positions count from 0, as in the code; a chunk is [start, end).          *)
EXTENDS Integers, Sequences, SequencesExt, FiniteSetsExt

CONSTANTS ChunkChars, OverlapChars

\* The last and the first position of a token (or of a pair) in [start, end).
Latest(positions) == IF positions = {} THEN -1 ELSE Max(positions)
Earliest(positions) == IF positions = {} THEN -1 ELSE Min(positions)
Where(text, token, start, end) == {i \in start..(end - 1) : text[i + 1] = token}
Paragraphs(text, start, end) == {i \in Where(text, "n", start, end) : i + 1 < end /\ text[i + 2] = "n"}

\* Mutant of AvoidOpenFence: a fence is kept whole whatever its length.
AvoidOpenFenceFar(text, start, end) ==
    LET fences == Where(text, "f", start, end)
        opens == Latest(fences)
        closes == Earliest(Where(text, "f", end, Len(text)))
    IN IF Cardinality(fences) % 2 = 0 THEN end
       ELSE IF opens - start > (end - start) \div 2 THEN opens
       ELSE IF closes # -1 THEN closes + 1
       ELSE end

\* _avoid_open_code_fence: a chunk that opens a fence ends before it, if that is in
\* its second half, or else after the fence, if that is not much longer.
AvoidOpenFence(text, start, end) ==
    LET fences == Where(text, "f", start, end)
        opens == Latest(fences)
        closes == Earliest(Where(text, "f", end, Len(text)))
    IN IF Cardinality(fences) % 2 = 0 THEN end
       ELSE IF opens - start > (end - start) \div 2 THEN opens
       ELSE IF closes # -1 /\ 4 * (closes + 1 - start) <= 5 * (end - start) THEN closes + 1
       ELSE end

\* _semantic_overlap_start: the next chunk repeats the last paragraph or line.
OverlapStart(text, end) ==
    LET raw == IF end > OverlapChars THEN end - OverlapChars ELSE 0
        paragraph == Earliest(Paragraphs(text, raw, end))
        line == Earliest(Where(text, "n", raw, end))
    IN IF OverlapChars = 0 THEN end
       ELSE IF paragraph # -1 /\ paragraph + 2 < end THEN paragraph + 2
       ELSE IF line # -1 /\ line + 1 < end THEN line + 1
       ELSE raw

\* Where a chunk that begins at start ends: at the last place to split in its
\* second half, or at its full length.
ChunkEnd(text, start) ==
    LET full == IF start + ChunkChars < Len(text) THEN start + ChunkChars ELSE Len(text)
        split == Latest(Where(text, "n", start, full))
        cut == IF split > start + ChunkChars \div 2 THEN split + 1 ELSE full
        end == IF full = Len(text) THEN full
               ELSE IF cut < Len(text) THEN AvoidOpenFence(text, start, cut) ELSE cut
    IN IF end > start THEN end ELSE full

\* A start that would not move on is moved to the end of the chunk.
NextStart(text, start, end) ==
    LET next == OverlapStart(text, end)
    IN IF next <= start THEN end ELSE next

\* split_semantic_text
SplitText(text) ==
    LET From[start \in 0..Len(text)] ==
            LET end == ChunkEnd(text, start)
                chunk == [start |-> start, end |-> end]
                blank == \A i \in start..(end - 1) : text[i + 1] = "n"
            IN (IF blank THEN <<>> ELSE <<chunk>>)
               \o (IF end >= Len(text) THEN <<>> ELSE From[NextStart(text, start, end)])
    IN IF Len(text) <= ChunkChars THEN <<[start |-> 0, end |-> Len(text)]>> ELSE From[0]

\* split_markdown_sections: a section begins at each heading, one more before the
\* first if there is text; its title is the path of the headings it stands under.
Sections(headings, length) ==
    LET from(i) == headings[i].at
        to(i) == IF i < Len(headings) THEN headings[i + 1].at ELSE length
        Path[i \in 0..Len(headings)] ==
            IF i = 0 THEN <<>>
            ELSE Append(SelectSeq(Path[i - 1], LAMBDA j : headings[j].level < headings[i].level), i)
        section(i) == [start |-> from(i), end |-> to(i), path |-> Path[i]]
    IN (IF headings = <<>> \/ from(1) > 0
        THEN <<[start |-> 0, end |-> IF headings = <<>> THEN length ELSE from(1), path |-> <<>>]>> ELSE <<>>)
       \o [i \in DOMAIN headings |-> section(i)]

---------------------------------------------------------------------------
\* The chunks of a file, each with its place in it.  A chunk's id is made of the
\* file, this place and the beginning of the text.
Placed(from, chunks) == [k \in DOMAIN chunks |-> [start |-> from + chunks[k].start, end |-> from + chunks[k].end]]
Blank(text) == \A i \in DOMAIN text : text[i] = "n"

\* normalize_text: no places to split at the end.
Trimmed(text) == SubSeq(text, 1, Latest({0} \union {i \in DOMAIN text : text[i] # "n"}))

\* MarkdownDocChunking: the sections that are not blank, one after the other.
MarkdownChunks(text, headings) ==
    LET sections == SelectSeq(Sections(headings, Len(text)), LAMBDA s : ~Blank(SubSeq(text, s.start + 1, s.end)))
        chunks(s) == Placed(s.start, SplitText(Trimmed(SubSeq(text, s.start + 1, s.end))))
    IN IF Blank(text) THEN <<>> ELSE FlattenSeq([i \in DOMAIN sections |-> chunks(sections[i])])

\* JsonAdvisoryChunking: a chunk per field that is there, the details cut into
\* chunks; an advisory with none of them is cut up as it is.
AdvisoryFields == <<"summary", "details", "affected", "references">>
AdvisoryChunks(text, fields, places, details) ==
    LET field(name) ==
            IF name \notin fields THEN <<>>
            ELSE IF name = "details" THEN Placed(places[name].start, SplitText(details))
            ELSE <<places[name]>>
        named == FlattenSeq([i \in DOMAIN AdvisoryFields |-> field(AdvisoryFields[i])])
    IN IF named = <<>> THEN SplitText(text) ELSE named

\* SemgrepYamlChunking: a rule is one chunk, or else all but its patterns and then
\* its patterns, counted anew.  Rules have headers of their own.
RuleChunks(rule) ==
    IF rule.prefix + Len(rule.patterns) <= ChunkChars
    THEN <<[start |-> rule.at, end |-> rule.at + rule.prefix + Len(rule.patterns)]>>
    ELSE <<[start |-> rule.at, end |-> rule.at + rule.prefix]>> \o Placed(rule.at, SplitText(rule.patterns))

\* ChunkingRouter: what the strategy for a file finds nothing in is cut up as text.
FileChunks(kind, found, text) == IF kind = "markdown" \/ found = <<>> THEN MarkdownChunks(text, <<>>) ELSE found

---------------------------------------------------------------------------
Splits(text) ==
    LET chunks == SplitText(text)
    IN /\ \A i \in 0..(Len(text) - 1) :
            text[i + 1] # "n" => \E k \in DOMAIN chunks : chunks[k].start <= i /\ i < chunks[k].end
       /\ \A k \in DOMAIN chunks : 4 * (chunks[k].end - chunks[k].start) <= 5 * ChunkChars
       /\ \A k \in 2..Len(chunks) : chunks[k - 1].start < chunks[k].start

\* Each chunk has a place of its own.
AllPlaced(chunks) == chunks # <<>> => IsInjective(chunks)

Encloses(headings, i, j) ==
    j < i /\ \A k \in (j + 1)..i : headings[k].level > headings[j].level

\* Whatever places to split and fences a text has, splitting it ends and loses
\* nothing but blank lines between chunks, no chunk is over its size by more than
\* a quarter, the title of a section names the headings that enclose it, and no
\* chunk of a file takes the place of another in the index; except of a rule that
\* without its patterns is as long as their first chunk
\* (knowledge/chunking/utils.py:68).
ChunksCover ==
    /\ \A n \in 1..7 : \A text \in [1..n -> {"x", "n", "f"}] :
            text[1] # "n" /\ text[n] # "n" => Splits(text)
    /\ \A n \in 0..4 : \A levels \in [1..n -> 1..3], before \in 0..1 :
            LET headings == [i \in 1..n |-> [at |-> before + i, level |-> levels[i]]]
                sections == SelectSeq(Sections(headings, before + n + 1), LAMBDA s : s.path # <<>>)
            IN /\ Len(sections) = n
               /\ \A i \in 1..n : ToSet(sections[i].path) = {i} \union {j \in 1..n : Encloses(headings, i, j)}
    /\ \A text \in [1..6 -> {"x", "n"}], at \in SUBSET (0..5) :
            LET places == SetToSortSeq({i \in at : text[i + 1] = "x"}, <)
                headings == [i \in DOMAIN places |-> [at |-> places[i], level |-> 1]]
            IN /\ AllPlaced(MarkdownChunks(text, headings))
               /\ ~Blank(text) => FileChunks("yaml", <<>>, text) # <<>>
    /\ \A fields \in SUBSET ToSet(AdvisoryFields), n \in 1..6 : \A details \in [1..n -> {"x", "f"}] :
            LET places == [name \in ToSet(AdvisoryFields) |->
                              LET i == CHOOSE i \in DOMAIN AdvisoryFields : AdvisoryFields[i] = name
                              IN [start |-> 10 * i, end |-> 10 * i + 9]]
            IN AllPlaced(AdvisoryChunks(details, fields, places, details))
    /\ \A prefix \in 1..6, n \in 1..6 : \A patterns \in [1..n -> {"x", "f"}] :
            LET rule == [at |-> 3, prefix |-> prefix, patterns |-> patterns]
            IN AllPlaced(RuleChunks(rule)) \/ prefix = SplitText(patterns)[1].end
=============================================================================
