------------------------------- MODULE GmiToHtml -------------------------------
(***************************************************************************)
(* textToHTML: Gemtext, line by line, to HTML.  Quotes, list items and     *)
(* preformatted lines each go into an element around them, which is opened *)
(* and closed as the lines go by; three flags say which are open.  A line  *)
(* is its kind, and what is written a sequence of tags of those elements   *)
(* and of contents, which are numbers of lines.  What a line says, and     *)
(* where a link leads, is left out.                                        *)
(***************************************************************************)
EXTENDS Naturals, Sequences, FiniteSets

CONSTANT MaxLines   \* bound: the length of a document

ASSUME GmiToHtmlAssumption == MaxLines \in Nat

\* An "untitled" line is a heading without text, a "badlink" one whose URL does not parse.
Kinds == {"quote", "item", "toggle", "preformatted", "link", "badlink", "heading", "untitled", "text"}

Elements == {"pre", "ul", "blockquote"}

Open(e) == [open |-> e]
Close(e) == [close |-> e]
Content(i) == [line |-> i]

VARIABLES
    text,       \* the lines read so far
    fenced,     \* the parser: are the lines between two toggles?
    flags,      \* pre, list and blockquote: the elements whose flag is set
    title,      \* the line whose text is the title, 0 if that is ""
    out,        \* the tags and contents written so far
    done        \* has textToHTML returned?

vars == <<text, fenced, flags, title, out, done>>

\* Flags and output: what the steps of one line pass on.
Now == [flags |-> flags, out |-> out]

\* Mutant: the tag is written whatever the flag says.
TurnAgain(s, e, on) ==
    IF ~on /\ e \notin s.flags THEN s
    ELSE [flags |-> IF on THEN s.flags \cup {e} ELSE s.flags \ {e},
          out |-> Append(s.out, IF on THEN Open(e) ELSE Close(e))]

\* A tag, if the flag does not say that it has been written.
Turn(s, e, on) ==
    IF (e \in s.flags) = on THEN s
    ELSE [flags |-> IF on THEN s.flags \cup {e} ELSE s.flags \ {e},
          out |-> Append(s.out, IF on THEN Open(e) ELSE Close(e))]

\* Mutants: the list first; a list that only a quote ends.
AroundListFirst(s, l) == Turn(Turn(s, "ul", l = "item"), "blockquote", l = "quote")

AroundOpenList(s, l) ==
    LET t == Turn(s, "blockquote", l = "quote")
    IN IF l \in {"item", "quote"} THEN Turn(t, "ul", l = "item") ELSE t

\* The elements that a line is to be in, or not in: the quote first, then the list.
Around(s, l) == Turn(Turn(s, "blockquote", l = "quote"), "ul", l = "item")

\* The line itself; after a URL that does not parse, the next line.
Write(s, l) ==
    CASE l = "toggle"  -> Turn(s, "pre", "pre" \notin s.flags)
      [] l = "badlink" -> s
      [] OTHER         -> [s EXCEPT !.out = Append(@, Content(Len(text) + 1))]

\* Mutant: text or no text.
TitledAnyway(l) == l \in {"heading", "untitled"} /\ title = 0

Titled(l) == l = "heading" /\ title = 0

-------------------------------------------------------------------------------
Init ==
    /\ text = <<>> /\ fenced = FALSE
    /\ flags = {} /\ title = 0 /\ out = <<>>
    /\ done = FALSE

\* What the Gemini library makes of a line: between toggles, preformatted text.
Parsed(l) == l = "toggle" \/ (l = "preformatted") = fenced

\* One turn of the loop.
ReadLine(l) ==
    /\ ~done /\ Len(text) < MaxLines
    /\ Parsed(l)
    /\ LET s == Write(Around(Now, l), l) IN flags' = s.flags /\ out' = s.out
    /\ title' = IF Titled(l) THEN Len(text) + 1 ELSE title
    /\ text' = Append(text, l)
    /\ fenced' = IF l = "toggle" THEN ~fenced ELSE fenced
    /\ UNCHANGED done

\* After the last line; the flags stay as they are.
Finish ==
    /\ ~done
    /\ LET Closed(s, e) == IF e \in flags THEN [s EXCEPT !.out = Append(@, Close(e))] ELSE s
       IN out' = Closed(Closed(Closed(Now, "pre"), "ul"), "blockquote").out
    /\ done' = TRUE
    /\ UNCHANGED <<text, fenced, flags, title>>

\* Another page is asked for.
NextPage ==
    /\ done
    /\ text' = <<>> /\ fenced' = FALSE
    /\ flags' = {} /\ title' = 0 /\ out' = <<>>
    /\ done' = FALSE

Next == (\E l \in Kinds : ReadLine(l)) \/ Finish \/ NextPage

Spec == Init /\ [][Next]_vars
-------------------------------------------------------------------------------
Tags == [open : Elements] \cup [close : Elements] \cup [line : Nat \ {0}]

\* Every variable has its type; at most one flag is set after a line, and pre as the parser has it.
TypeOK ==
    /\ text \in Seq(Kinds) /\ Len(text) <= MaxLines
    /\ fenced \in BOOLEAN /\ done \in BOOLEAN
    /\ flags \subseteq Elements /\ Cardinality(flags) <= 1
    /\ fenced <=> "pre" \in flags
    /\ title \in 0 .. Len(text)
    /\ \A k \in DOMAIN out : out[k] \in Tags

\* How often a tag was written up to the k-th place.
Count(tag, k) == Cardinality({j \in 1 .. k : out[j] = tag})

\* The elements that are open at place k, if one looks at how many tags there were.
OpenAt(k) == {e \in Elements : Count(Open(e), k) > Count(Close(e), k)}

\* The element the kind of a line is for.
ElementsOf(l) ==
    CASE l = "quote"        -> {"blockquote"}
      [] l = "item"         -> {"ul"}
      [] l = "preformatted" -> {"pre"}
      [] OTHER              -> {}

Contents == {k \in DOMAIN out : out[k] \in [line : Nat]}

(***************************************************************************)
(* Each line but toggles and links that do not parse is written, once, in  *)
(* its place, and inside the element of its kind and no other, whichever   *)
(* lines came before it (the flags of textToHTML).                         *)
(***************************************************************************)
LinesAreInPlace ==
    /\ \A k \in Contents : OpenAt(k) = ElementsOf(text[out[k].line])
    /\ \A j, k \in Contents : j < k => out[j].line < out[k].line
    /\ {out[k].line : k \in Contents} = {i \in DOMAIN text : text[i] \notin {"toggle", "badlink"}}

\* The lines of a kind that follow one of another kind, or none.
Runs(l) == {i \in DOMAIN text : text[i] = l /\ (i > 1 => text[i - 1] # l)}

(***************************************************************************)
(* Quotes that follow each other are one quote, and list items one list:   *)
(* no element is opened twice or left empty (textToHTML).                  *)
(***************************************************************************)
OneElementPerRun ==
    /\ Count(Open("blockquote"), Len(out)) = Cardinality(Runs("quote"))
    /\ Count(Open("ul"), Len(out)) = Cardinality(Runs("item"))

QuoteAfterItem == \E i \in 1 .. Len(text) - 1 : text[i] = "item" /\ text[i + 1] = "quote"

(***************************************************************************)
(* When textToHTML returns, all elements are closed, whatever was open at  *)
(* the end of the document, and each was before the next one was opened.   *)
(* A quote right after a list item is the one exception: it is opened      *)
(* before the list is closed.                                              *)
(***************************************************************************)
WellNested ==
    done =>
        /\ \A e \in Elements : Count(Open(e), Len(out)) = Count(Close(e), Len(out))
        /\ ~QuoteAfterItem =>
             \A e \in Elements, j \in DOMAIN out : out[j] = Open(e) =>
                 \E k \in j + 1 .. Len(out) :
                     out[k] = Close(e) /\ \A i \in j + 1 .. k - 1 : i \in Contents

(***************************************************************************)
(* The title is the first heading that has a text, of whatever level       *)
(* (textToHTML; the TODO on repetition).                                   *)
(***************************************************************************)
TitleIsTheFirst ==
    LET headings == {i \in DOMAIN text : text[i] = "heading"}
    IN IF headings = {} THEN title = 0
       ELSE title \in headings /\ \A i \in headings : title <= i
===============================================================================
