------------------------------ MODULE PagesProofs ------------------------------
(***************************************************************************)
(* How a page is converted and what is answered for its path.  First       *)
(* GmiToHtml for documents of any length: which flags may be set, which    *)
(* line gives the title, and where the tags are.  Then PageLookup for any  *)
(* number of requests over both protocols: what an answer rests on.        *)
(***************************************************************************)
EXTENDS GmiToHtml, PageLookup, FiniteSetTheorems, SequenceTheorems, TLAPS

Output == [flags : SUBSET Elements, out : Seq(Tags)]

\* As TypeOK has it, but that it says what elements may be set at once by name.
Typed ==
    /\ text \in Seq(Kinds) /\ Len(text) <= MaxLines
    /\ fenced \in BOOLEAN /\ done \in BOOLEAN
    /\ flags \in {{}, {"pre"}, {"ul"}, {"blockquote"}}
    /\ fenced <=> "pre" \in flags
    /\ title \in 0 .. Len(text)
    /\ out \in Seq(Tags)

IInv == Typed /\ TitleIsTheFirst

\* A turn sets its flag or resets it, and writes tags.
LEMMA TurnFacts ==
    ASSUME NEW s \in Output, NEW e \in Elements, NEW on \in BOOLEAN
    PROVE  /\ Turn(s, e, on) \in Output
           /\ Turn(s, e, on).flags = IF on THEN s.flags \cup {e} ELSE s.flags \ {e}
<1>1. Open(e) \in Tags /\ Close(e) \in Tags
  BY DEF Open, Close, Tags
<1>2. /\ Append(s.out, Open(e)) \in Seq(Tags) /\ Append(s.out, Close(e)) \in Seq(Tags)
      /\ s.flags \cup {e} \in SUBSET Elements /\ s.flags \ {e} \in SUBSET Elements
  BY <1>1 DEF Output
<1>3. CASE (e \in s.flags) = on
  <2>1. s.flags = IF on THEN s.flags \cup {e} ELSE s.flags \ {e}
    BY <1>3
  <2> QED BY <1>3, <2>1 DEF Turn
<1>4. CASE (e \in s.flags) # on
  BY <1>2, <1>4 DEF Turn, Output
<1> QED BY <1>3, <1>4

\* What a line finds open around it: the element of its kind and no other.
LEMMA AroundFacts ==
    ASSUME Typed, NEW l \in Kinds, Parsed(l)
    PROVE  LET quoted == Turn(Now, "blockquote", l = "quote")
               around == Around(Now, l)
           IN /\ Now \in Output /\ Now.flags = flags /\ Now.out = out
              /\ quoted \in Output
              /\ quoted.flags = IF l = "quote" THEN flags \cup {"blockquote"} ELSE flags \ {"blockquote"}
              /\ around \in Output /\ around = Turn(quoted, "ul", l = "item")
              /\ around.flags = IF l = "toggle" THEN flags \cap {"pre"} ELSE ElementsOf(l)
<1> DEFINE quoted == Turn(Now, "blockquote", l = "quote")
           around == Around(Now, l)
<1> USE DEF Elements
<1>1. Now \in Output /\ Now.flags = flags /\ Now.out = out
  BY DEF Typed, Now, Output
<1>2. /\ quoted \in Output
      /\ quoted.flags = IF l = "quote" THEN flags \cup {"blockquote"} ELSE flags \ {"blockquote"}
  BY <1>1, TurnFacts
<1>3. /\ around \in Output
      /\ around.flags = IF l = "item" THEN quoted.flags \cup {"ul"} ELSE quoted.flags \ {"ul"}
      /\ around = Turn(quoted, "ul", l = "item")
  BY <1>2, TurnFacts DEF Around
<1>4. CASE l = "toggle"
  BY <1>1, <1>2, <1>3, <1>4 DEF Typed
<1>5. CASE l = "preformatted"
  <2>1. flags = {"pre"} /\ ElementsOf(l) = {"pre"}
    BY <1>5 DEF Parsed, Typed, ElementsOf
  <2> QED BY <1>1, <1>2, <1>3, <1>5, <2>1
<1>6. CASE l \notin {"toggle", "preformatted"}
  <2>1. flags \in {{}, {"ul"}, {"blockquote"}}
    BY <1>6 DEF Parsed, Typed
  <2>2. CASE l = "quote"
    <3>1. ElementsOf(l) = {"blockquote"}
      BY <2>2 DEF ElementsOf
    <3> QED BY <1>1, <1>2, <1>3, <2>1, <2>2, <3>1
  <2>3. CASE l = "item"
    <3>1. ElementsOf(l) = {"ul"}
      BY <2>3 DEF ElementsOf
    <3> QED BY <1>1, <1>2, <1>3, <2>1, <2>3, <3>1
  <2>4. CASE l \notin {"quote", "item"}
    <3>1. ElementsOf(l) = {}
      BY <1>6, <2>4 DEF ElementsOf, Kinds
    <3> QED BY <1>1, <1>2, <1>3, <1>6, <2>1, <2>4, <3>1
  <2> QED BY <2>2, <2>3, <2>4
<1> QED BY <1>1, <1>4, <1>5, <1>6, <1>2, <1>3

\* The flags after one line: the element of its kind, or what the toggle makes of pre.
LEMMA LineFacts ==
    ASSUME Typed, NEW l \in Kinds, Parsed(l)
    PROVE  LET s == Write(Around(Now, l), l)
           IN /\ s \in Output
              /\ s.flags \in {{}, {"pre"}, {"ul"}, {"blockquote"}}
              /\ "pre" \in s.flags <=> IF l = "toggle" THEN ~fenced ELSE fenced
<1> DEFINE around == Around(Now, l)
<1> USE DEF Elements
<1>1. /\ around \in Output
      /\ around.flags = IF l = "toggle" THEN flags \cap {"pre"} ELSE ElementsOf(l)
  BY AroundFacts
<1>2. CASE l = "toggle"
  <2>1. Write(around, l) = Turn(around, "pre", "pre" \notin around.flags)
    BY <1>2 DEF Write
  <2>2. /\ Write(around, l) \in Output
        /\ Write(around, l).flags = IF "pre" \notin around.flags THEN around.flags \cup {"pre"}
                                                                 ELSE around.flags \ {"pre"}
    BY <1>1, <2>1, TurnFacts
  <2> QED BY <1>1, <1>2, <2>2 DEF Typed
<1>3. CASE l # "toggle"
  <2>1. Content(Len(text) + 1) \in Tags
    BY DEF Typed, Content, Tags
  <2>2. Write(around, l) \in Output /\ Write(around, l).flags = ElementsOf(l)
    BY <1>1, <1>3, <2>1 DEF Write, Output
  <2>3. /\ ElementsOf(l) \in {{}, {"pre"}, {"ul"}, {"blockquote"}}
        /\ "pre" \in ElementsOf(l) <=> l = "preformatted"
    BY DEF ElementsOf, Kinds
  <2> QED BY <1>3, <2>2, <2>3 DEF Parsed
<1> QED BY <1>2, <1>3

LEMMA ReadLineInv ==
    ASSUME IInv, NEW l \in Kinds, ReadLine(l)
    PROVE  IInv'
<1> USE DEF IInv
<1>1. /\ text' = Append(text, l) /\ text' \in Seq(Kinds) /\ Len(text') = Len(text) + 1
      /\ \A i \in 1 .. Len(text) : text'[i] = text[i]
      /\ text'[Len(text) + 1] = l /\ Len(text) \in Nat
  BY DEF ReadLine, Typed
<1>2. title' = IF Titled(l) THEN Len(text) + 1 ELSE title
  BY DEF ReadLine
<1>3. Typed'
  <2>1. Parsed(l)
    BY DEF ReadLine
  <2>2. /\ out' \in Seq(Tags) /\ flags' \in {{}, {"pre"}, {"ul"}, {"blockquote"}}
        /\ fenced' \in BOOLEAN /\ (fenced' <=> "pre" \in flags')
    BY <2>1, LineFacts DEF ReadLine, Output, Typed
  <2>3. Len(text') <= MaxLines /\ title' \in 0 .. Len(text') /\ done' \in BOOLEAN
    BY <1>1, <1>2, GmiToHtmlAssumption DEF ReadLine, Typed
  <2> QED BY <1>1, <2>2, <2>3 DEF Typed
<1>4. TitleIsTheFirst'
  <2> DEFINE before == {i \in DOMAIN text : text[i] = "heading"}
             after == {i \in DOMAIN text' : text'[i] = "heading"}
  <2>1. after = IF l = "heading" THEN before \cup {Len(text) + 1} ELSE before
    BY <1>1 DEF Typed
  <2>2. IF before = {} THEN title = 0
        ELSE title \in before /\ \A i \in before : title <= i
    BY DEF TitleIsTheFirst
  <2>3. before \subseteq 1 .. Len(text)
    BY DEF Typed
  <2>4. IF after = {} THEN title' = 0
        ELSE title' \in after /\ \A i \in after : title' <= i
    <3>1. CASE l # "heading"
      BY <1>2, <2>1, <2>2, <3>1 DEF Titled
    <3>2. CASE l = "heading" /\ before = {}
      <4>1. title' = Len(text) + 1 /\ after = {Len(text) + 1}
        BY <1>2, <2>1, <2>2, <3>2 DEF Titled
      <4> QED BY <1>1, <4>1
    <3>3. CASE l = "heading" /\ before # {}
      <4>1. title \in before /\ title # 0 /\ title' = title
        BY <1>2, <2>2, <2>3, <3>3 DEF Titled
      <4> QED BY <1>1, <2>1, <2>2, <2>3, <3>3, <4>1
    <3> QED BY <3>1, <3>2, <3>3
  <2> QED BY <2>4 DEF TitleIsTheFirst
<1> QED BY <1>3, <1>4

LEMMA FinishInv ==
    ASSUME IInv, Finish
    PROVE  IInv'
<1> DEFINE Closed(s, e) == IF e \in flags THEN [s EXCEPT !.out = Append(@, Close(e))] ELSE s
<1>1. ASSUME NEW s \in Output, NEW e \in Elements
      PROVE  Closed(s, e) \in Output
  <2>1. Close(e) \in Tags
    BY DEF Close, Tags
  <2>2. Append(s.out, Close(e)) \in Seq(Tags)
    BY <2>1 DEF Output
  <2> QED BY <2>2 DEF Output
<1>2. Now \in Output
  BY DEF IInv, Typed, Now, Output, Elements
<1>3. Closed(Closed(Closed(Now, "pre"), "ul"), "blockquote") \in Output
  <2>1. Closed(Now, "pre") \in Output
    BY <1>1, <1>2 DEF Elements
  <2>2. Closed(Closed(Now, "pre"), "ul") \in Output
    BY <1>1, <2>1 DEF Elements
  <2> QED BY <1>1, <2>2 DEF Elements
<1>4. out' \in Seq(Tags) /\ done' = TRUE /\ UNCHANGED <<text, fenced, flags, title>>
  BY <1>3 DEF Finish, Output
<1> QED BY <1>4 DEF IInv, Typed, TitleIsTheFirst

\* An empty page.
LEMMA EmptyInv ==
    ASSUME text = <<>>, fenced = FALSE, flags = {}, title = 0, out = <<>>, done = FALSE
    PROVE  IInv
<1>1. text \in Seq(Kinds) /\ Len(text) = 0 /\ DOMAIN text = {} /\ out \in Seq(Tags)
  OBVIOUS
<1>2. Typed
  <2>1. Len(text) <= MaxLines /\ title \in 0 .. Len(text)
    BY <1>1, GmiToHtmlAssumption
  <2>2. fenced <=> "pre" \in flags
    OBVIOUS
  <2>3. fenced \in BOOLEAN /\ done \in BOOLEAN
    OBVIOUS
  <2> QED BY <1>1, <2>1, <2>2, <2>3 DEF Typed
<1>3. TitleIsTheFirst
  BY <1>1 DEF TitleIsTheFirst
<1> QED BY <1>2, <1>3 DEF IInv

(***************************************************************************)
(* The flags and the title in documents of any length.                     *)
(***************************************************************************)
THEOREM Invariance == Spec => []IInv
<1>1. Init => IInv
  BY EmptyInv DEF Init
<1>2. IInv /\ [Next]_vars => IInv'
  <2> SUFFICES ASSUME IInv, [Next]_vars PROVE IInv'
    OBVIOUS
  <2>1. CASE NextPage
    <3>1. /\ text' = <<>> /\ Len(text') = 0 /\ DOMAIN text' = {}
          /\ text' \in Seq(Kinds) /\ out' \in Seq(Tags)
      BY <2>1 DEF NextPage
    <3>2. Typed'
      <4>1. Len(text') <= MaxLines /\ title' \in 0 .. Len(text')
        BY <2>1, <3>1, GmiToHtmlAssumption DEF NextPage
      <4>2. /\ fenced' <=> "pre" \in flags'
            /\ fenced' \in BOOLEAN /\ done' \in BOOLEAN
            /\ flags' = {}
        BY <2>1 DEF NextPage
      <4> QED BY <3>1, <4>1, <4>2 DEF Typed
    <3>3. TitleIsTheFirst'
      BY <2>1, <3>1 DEF NextPage, TitleIsTheFirst
    <3> QED BY <3>2, <3>3 DEF IInv
  <2>2. CASE UNCHANGED vars
    BY <2>2 DEF vars, IInv, Typed, TitleIsTheFirst
  <2> QED BY <2>1, <2>2, ReadLineInv, FinishInv DEF Next
<1> QED BY <1>1, <1>2, PTL DEF Spec

(***************************************************************************)
(* The variables have their types; never are two of the flags pre, list    *)
(* and blockquote set after a line, and pre is set between toggles         *)
(* (textToHTML), however long the document.                                *)
(***************************************************************************)
THEOREM TypeCorrect == Spec => []TypeOK
<1>1. /\ Cardinality({}) <= 1 /\ Cardinality({"pre"}) <= 1
      /\ Cardinality({"ul"}) <= 1 /\ Cardinality({"blockquote"}) <= 1
  <2>1. Cardinality({}) = 0
    BY FS_EmptySet
  <2>2. Cardinality({"pre"}) = 1 /\ Cardinality({"ul"}) = 1 /\ Cardinality({"blockquote"}) = 1
    BY FS_Singleton
  <2> QED BY <2>1, <2>2
<1>2. ASSUME IInv
      PROVE  TypeOK
  <2>1. Cardinality(flags) <= 1
    BY <1>1, <1>2 DEF IInv, Typed
  <2>2. flags \subseteq Elements
    BY <1>2 DEF IInv, Typed, Elements
  <2>3. \A k \in DOMAIN out : out[k] \in Tags
    BY <1>2 DEF IInv, Typed
  <2> QED BY <1>2, <2>1, <2>2, <2>3 DEF IInv, Typed, TypeOK
<1> QED BY <1>2, Invariance, PTL

(***************************************************************************)
(* The title is the first heading with a text, however long the document.  *)
(***************************************************************************)
THEOREM TitleIsFirst == Spec => []TitleIsTheFirst
<1>1. IInv => TitleIsTheFirst
  BY DEF IInv
<1> QED BY <1>1, Invariance, PTL
-------------------------------------------------------------------------------
\* The places up to k at which a tag stands in o, and how often it stands there at all.
Occurrences(o, tag, k) == {j \in 1 .. k : o[j] = tag}
Times(o, tag) == Cardinality(Occurrences(o, tag, Len(o)))

\* OpenAt and Contents of any output.
OpenIn(o, k) ==
    {e \in Elements : Cardinality(Occurrences(o, Open(e), k)) > Cardinality(Occurrences(o, Close(e), k))}
ContentsOf(o) == {k \in DOMAIN o : o[k] \in [line : Nat]}

\* Tags are written open and closed in turn: an element that stands open was opened once more.
Balanced(f, o) ==
    \A e \in Elements : Times(o, Open(e)) = Times(o, Close(e)) + IF e \in f THEN 1 ELSE 0

\* LinesAreInPlace, OneElementPerRun and the nesting of WellNested, of a text and an output.
InPlace(t, o) ==
    /\ \A k \in ContentsOf(o) : OpenIn(o, k) = ElementsOf(t[o[k].line])
    /\ \A j, k \in ContentsOf(o) : j < k => o[j].line < o[k].line
    /\ {o[k].line : k \in ContentsOf(o)} = {i \in DOMAIN t : t[i] \notin {"toggle", "badlink"}}

RunsOf(t, l) == {i \in DOMAIN t : t[i] = l /\ (i > 1 => t[i - 1] # l)}

PerRun(t, o) ==
    /\ Times(o, Open("blockquote")) = Cardinality(RunsOf(t, "quote"))
    /\ Times(o, Open("ul")) = Cardinality(RunsOf(t, "item"))

ClosedAfter(o, e, j) ==
    \E k \in j + 1 .. Len(o) : o[k] = Close(e) /\ \A i \in j + 1 .. k - 1 : i \in ContentsOf(o)

Nested(f, o) ==
    \A e \in Elements, j \in DOMAIN o : o[j] = Open(e) =>
        ClosedAfter(o, e, j) \/ (e \in f /\ \A i \in j + 1 .. Len(o) : i \in ContentsOf(o))

ItemThenQuote(t) == \E i \in 1 .. Len(t) - 1 : t[i] = "item" /\ t[i + 1] = "quote"

\* The flags of quotes and lists are those of the last line.
LastLine(t, f) ==
    /\ "blockquote" \in f <=> t # <<>> /\ t[Len(t)] = "quote"
    /\ "ul" \in f <=> t # <<>> /\ t[Len(t)] = "item"

\* The tags of open and of close, and contents, are told apart.
LEMMA TagFacts ==
    /\ \A e \in Elements : Open(e) \in Tags /\ Close(e) \in Tags
    /\ \A e, d \in Elements : Open(e) # Close(d)
    /\ \A e, d \in Elements : (Open(e) = Open(d) <=> e = d) /\ (Close(e) = Close(d) <=> e = d)
    /\ \A e \in Elements : Open(e) \notin [line : Nat] /\ Close(e) \notin [line : Nat]
    /\ \A i \in Nat \ {0} : Content(i) \in Tags /\ Content(i) \in [line : Nat] /\ Content(i).line = i
    /\ \A e \in Elements, i \in Nat : Open(e) # Content(i) /\ Close(e) # Content(i)
<1>1. \A e : DOMAIN Open(e) = {"open"} /\ DOMAIN Close(e) = {"close"}
  BY DEF Open, Close
<1>2. \A i : DOMAIN Content(i) = {"line"} /\ Content(i).line = i
  BY DEF Content
<1>3. \A r \in [line : Nat] : DOMAIN r = {"line"}
  OBVIOUS
<1>4. \A e : Open(e).open = e /\ Close(e).close = e
  BY DEF Open, Close
<1>5. \A e \in Elements : Open(e) \in Tags /\ Close(e) \in Tags
  BY DEF Open, Close, Tags
<1>6. \A i \in Nat \ {0} : Content(i) \in Tags /\ Content(i) \in [line : Nat]
  BY DEF Content, Tags
<1>7. {"open"} # {"close"} /\ {"open"} # {"line"} /\ {"close"} # {"line"}
  OBVIOUS
<1> QED BY <1>1, <1>2, <1>3, <1>4, <1>5, <1>6, <1>7

LEMMA OccurrencesFinite ==
    ASSUME NEW o, NEW tag, NEW k \in Nat
    PROVE  /\ IsFiniteSet(Occurrences(o, tag, k))
           /\ Cardinality(Occurrences(o, tag, k)) \in Nat
<1>1. IsFiniteSet(1 .. k)
  BY FS_Interval
<1>2. Occurrences(o, tag, k) \in SUBSET (1 .. k)
  BY DEF Occurrences
<1> QED BY <1>1, <1>2, FS_Subset, FS_CardinalityType

\* One more place: the counts up to the old ones stay, that of what is there grows by one.
LEMMA AppendCounts ==
    ASSUME NEW o \in Seq(Tags), NEW x \in Tags
    PROVE  LET p == Append(o, x) IN
           /\ p \in Seq(Tags) /\ Len(p) = Len(o) + 1 /\ p[Len(o) + 1] = x
           /\ \A j \in 1 .. Len(o) : p[j] = o[j]
           /\ \A k \in 1 .. Len(o) : OpenIn(p, k) = OpenIn(o, k)
           /\ \A tag : Times(p, tag) = Times(o, tag) + IF x = tag THEN 1 ELSE 0
<1> DEFINE p == Append(o, x)
<1>1. /\ p \in Seq(Tags) /\ Len(p) = Len(o) + 1 /\ p[Len(o) + 1] = x
      /\ \A j \in 1 .. Len(o) : p[j] = o[j]
      /\ Len(o) \in Nat
  OBVIOUS
<1> HIDE DEF p
<1>2. ASSUME NEW tag, NEW k \in 0 .. Len(o)
      PROVE  Occurrences(p, tag, k) = Occurrences(o, tag, k)
  BY <1>1 DEF Occurrences
<1>3. ASSUME NEW tag
      PROVE  Times(p, tag) = Times(o, tag) + IF x = tag THEN 1 ELSE 0
  <2> DEFINE S == Occurrences(o, tag, Len(o))
  <2>1. /\ IsFiniteSet(S) /\ Cardinality(S) \in Nat /\ Len(o) + 1 \notin S
        /\ Occurrences(p, tag, Len(o)) = S
    <3>1. IsFiniteSet(S) /\ Cardinality(S) \in Nat
      BY <1>1, OccurrencesFinite
    <3>2. Len(o) + 1 \notin S
      BY <1>1 DEF Occurrences
    <3>3. Len(o) \in 0 .. Len(o)
      BY <1>1
    <3> QED BY <1>2, <3>1, <3>2, <3>3
  <2>2. Occurrences(p, tag, Len(o) + 1) = IF x = tag THEN S \cup {Len(o) + 1} ELSE S
    <3>1. 1 .. Len(o) + 1 = (1 .. Len(o)) \cup {Len(o) + 1}
      BY <1>1
    <3>2. Occurrences(p, tag, Len(o) + 1)
            = {j \in 1 .. Len(o) : p[j] = tag} \cup {j \in {Len(o) + 1} : p[j] = tag}
      BY <3>1 DEF Occurrences
    <3>3. {j \in {Len(o) + 1} : p[j] = tag} = IF x = tag THEN {Len(o) + 1} ELSE {}
      BY <1>1
    <3> QED BY <2>1, <3>2, <3>3 DEF Occurrences
  <2>3. Cardinality(S \cup {Len(o) + 1}) = Cardinality(S) + 1
    BY <2>1, FS_AddElement
  <2>4. Times(p, tag) = Cardinality(Occurrences(p, tag, Len(o) + 1)) /\ Times(o, tag) = Cardinality(S)
    BY <1>1 DEF Times
  <2> QED BY <2>1, <2>2, <2>3, <2>4
<1>4. ASSUME NEW k \in 1 .. Len(o)
      PROVE  OpenIn(p, k) = OpenIn(o, k)
  <2>1. \A tag : Occurrences(p, tag, k) = Occurrences(o, tag, k)
    BY <1>1, <1>2
  <2>2. \A tag : Cardinality(Occurrences(p, tag, k)) = Cardinality(Occurrences(o, tag, k))
    BY <2>1
  <2> QED BY <2>2 DEF OpenIn
<1> QED BY <1>1, <1>3, <1>4 DEF p

\* What stands open at the end.
LEMMA OpenAtEnd ==
    ASSUME NEW o \in Seq(Tags), NEW f \in SUBSET Elements, Balanced(f, o)
    PROVE  OpenIn(o, Len(o)) = f
<1>1. \A e \in Elements : Times(o, Open(e)) \in Nat /\ Times(o, Close(e)) \in Nat
  BY OccurrencesFinite DEF Times
<1>2. OpenIn(o, Len(o)) = {e \in Elements : Times(o, Open(e)) > Times(o, Close(e))}
  BY DEF OpenIn, Times
<1>3. \A e \in Elements : Times(o, Open(e)) > Times(o, Close(e)) <=> e \in f
  BY <1>1 DEF Balanced
<1> QED BY <1>2, <1>3

-------------------------------------------------------------------------------
\* A tag more: no content is added, and what stands open at the contents stays.
LEMMA AppendTag ==
    ASSUME NEW o \in Seq(Tags), NEW t \in Seq(Kinds), InPlace(t, o),
           NEW x \in Tags, x \notin [line : Nat]
    PROVE  LET p == Append(o, x) IN
           /\ ContentsOf(p) = ContentsOf(o)
           /\ InPlace(t, p)
<1> DEFINE p == Append(o, x)
<1>1. /\ p \in Seq(Tags) /\ Len(p) = Len(o) + 1 /\ p[Len(o) + 1] = x /\ Len(o) \in Nat
      /\ \A j \in 1 .. Len(o) : p[j] = o[j]
      /\ DOMAIN p = (1 .. Len(o)) \cup {Len(o) + 1} /\ DOMAIN o = 1 .. Len(o)
  BY AppendCounts
<1>2. \A k \in 1 .. Len(o) : OpenIn(p, k) = OpenIn(o, k)
  BY AppendCounts
<1> HIDE DEF p
<1>3. ContentsOf(p) = ContentsOf(o) /\ ContentsOf(o) \subseteq 1 .. Len(o)
  BY <1>1 DEF ContentsOf
<1>4. \A k \in ContentsOf(p) : OpenIn(p, k) = OpenIn(o, k) /\ p[k] = o[k]
  BY <1>1, <1>2, <1>3
<1>5. {p[k].line : k \in ContentsOf(p)} = {o[k].line : k \in ContentsOf(o)}
  BY <1>3, <1>4
<1>6. InPlace(t, p)
  BY <1>3, <1>4, <1>5 DEF InPlace
<1> QED BY <1>3, <1>6 DEF p

\* A line that is written, inside what stands open at the end.
LEMMA AppendContent ==
    ASSUME NEW o \in Seq(Tags), NEW t \in Seq(Kinds), InPlace(t, o),
           NEW l \in Kinds \ {"toggle", "badlink"}, OpenIn(o, Len(o)) = ElementsOf(l)
    PROVE  LET p == Append(o, Content(Len(t) + 1)) IN
           /\ ContentsOf(p) = ContentsOf(o) \cup {Len(p)}
           /\ InPlace(Append(t, l), p)
<1> DEFINE n == Len(t) + 1
           x == Content(n)
           p == Append(o, x)
           u == Append(t, l)
<1>0. /\ Len(t) \in Nat /\ n \in Nat \ {0}
      /\ DOMAIN u = DOMAIN t \cup {n} /\ n \notin DOMAIN t
      /\ u[n] = l /\ \A i \in DOMAIN t : u[i] = t[i] /\ i < n
  OBVIOUS
<1>a. x \in Tags /\ x \in [line : Nat] /\ x.line = n /\ \A e \in Elements : x # Open(e) /\ x # Close(e)
  BY <1>0, TagFacts
<1> HIDE DEF n, x, u
<1>1. /\ p \in Seq(Tags) /\ Len(p) = Len(o) + 1 /\ p[Len(p)] = x /\ Len(o) \in Nat
      /\ \A j \in 1 .. Len(o) : p[j] = o[j]
      /\ DOMAIN p = (1 .. Len(o)) \cup {Len(p)} /\ DOMAIN o = 1 .. Len(o)
  BY <1>a, AppendCounts
<1>2. /\ \A k \in 1 .. Len(o) : OpenIn(p, k) = OpenIn(o, k)
      /\ \A tag : Times(p, tag) = Times(o, tag) + IF x = tag THEN 1 ELSE 0
  BY <1>a, AppendCounts
<1> HIDE DEF p
<1>3. ContentsOf(p) = ContentsOf(o) \cup {Len(p)} /\ ContentsOf(o) \subseteq 1 .. Len(o)
  BY <1>a, <1>1 DEF ContentsOf
<1>4. \A k \in ContentsOf(o) : OpenIn(p, k) = OpenIn(o, k) /\ p[k] = o[k] /\ k < Len(p)
  BY <1>1, <1>2, <1>3
<1>5. OpenIn(p, Len(p)) = ElementsOf(l)
  <2>1. \A e \in Elements : Times(p, Open(e)) = Times(o, Open(e)) /\ Times(p, Close(e)) = Times(o, Close(e))
    <3>1. \A tag : Times(o, tag) \in Nat
      BY OccurrencesFinite, <1>1 DEF Times
    <3> QED BY <1>2, <1>a, <3>1
  <2>2. OpenIn(p, Len(p)) = OpenIn(o, Len(o))
    BY <2>1 DEF OpenIn, Times
  <2> QED BY <2>2
<1>6. \A k \in ContentsOf(o) : o[k].line \in DOMAIN t
  BY DEF InPlace
<1>7. \A k \in ContentsOf(p) : OpenIn(p, k) = ElementsOf(u[p[k].line])
  <2>1. \A k \in ContentsOf(o) : OpenIn(p, k) = ElementsOf(u[p[k].line])
    BY <1>0, <1>4, <1>6 DEF InPlace
  <2>2. u[p[Len(p)].line] = l
    BY <1>0, <1>1, <1>a
  <2> QED BY <1>3, <1>5, <2>1, <2>2
<1>8. \A j, k \in ContentsOf(p) : j < k => p[j].line < p[k].line
  <2> SUFFICES ASSUME NEW j \in ContentsOf(p), NEW k \in ContentsOf(p), j < k
               PROVE  p[j].line < p[k].line
    OBVIOUS
  <2>1. j \in ContentsOf(o)
    BY <1>1, <1>3, <1>4
  <2>2. CASE k \in ContentsOf(o)
    BY <1>4, <2>1, <2>2 DEF InPlace
  <2>3. CASE k = Len(p)
    BY <1>0, <1>1, <1>a, <1>4, <1>6, <2>1, <2>3
  <2> QED BY <1>3, <2>2, <2>3
<1>9. {p[k].line : k \in ContentsOf(p)} = {i \in DOMAIN u : u[i] \notin {"toggle", "badlink"}}
  <2>1. {p[k].line : k \in ContentsOf(p)} = {o[k].line : k \in ContentsOf(o)} \cup {n}
    BY <1>1, <1>3, <1>4, <1>a
  <2>2. {i \in DOMAIN u : u[i] \notin {"toggle", "badlink"}}
          = {i \in DOMAIN t : t[i] \notin {"toggle", "badlink"}} \cup {n}
    BY <1>0
  <2> QED BY <2>1, <2>2 DEF InPlace
<1>10. InPlace(u, p)
  BY <1>7, <1>8, <1>9 DEF InPlace
<1> QED BY <1>3, <1>10 DEF n, x, p, u

\* A line of which nothing is written.
LEMMA UnwrittenLine ==
    ASSUME NEW o \in Seq(Tags), NEW t \in Seq(Kinds), InPlace(t, o), NEW l \in {"toggle", "badlink"}
    PROVE  InPlace(Append(t, l), o)
<1> DEFINE u == Append(t, l)
<1>0. /\ Len(t) \in Nat
      /\ DOMAIN u = DOMAIN t \cup {Len(t) + 1}
      /\ u[Len(t) + 1] = l /\ \A i \in DOMAIN t : u[i] = t[i]
  OBVIOUS
<1> HIDE DEF u
<1>1. \A k \in ContentsOf(o) : o[k].line \in DOMAIN t
  BY DEF InPlace
<1>2. \A k \in ContentsOf(o) : OpenIn(o, k) = ElementsOf(u[o[k].line])
  BY <1>0, <1>1 DEF InPlace
<1>3. {i \in DOMAIN u : u[i] \notin {"toggle", "badlink"}}
        = {i \in DOMAIN t : t[i] \notin {"toggle", "badlink"}}
  BY <1>0
<1>4. InPlace(u, o)
  BY <1>2, <1>3 DEF InPlace
<1> QED BY <1>4 DEF u

\* One line more begins a run of its kind, if the last line was of another kind.
LEMMA RunsGrow ==
    ASSUME NEW t \in Seq(Kinds), NEW l \in Kinds, NEW m \in Kinds
    PROVE  Cardinality(RunsOf(Append(t, l), m))
             = Cardinality(RunsOf(t, m)) + IF l = m /\ ~(t # <<>> /\ t[Len(t)] = m) THEN 1 ELSE 0
<1> DEFINE u == Append(t, l)
           n == Len(t) + 1
<1>0. /\ Len(t) \in Nat /\ DOMAIN t = 1 .. Len(t) /\ DOMAIN u = (1 .. Len(t)) \cup {n} /\ n \notin 1 .. Len(t)
      /\ u[n] = l /\ \A i \in 1 .. Len(t) : u[i] = t[i]
      /\ t = <<>> <=> Len(t) = 0
  OBVIOUS
<1> HIDE DEF u
<1>1. IsFiniteSet(RunsOf(t, m)) /\ Cardinality(RunsOf(t, m)) \in Nat
  <2>1. IsFiniteSet(1 .. Len(t)) /\ RunsOf(t, m) \in SUBSET (1 .. Len(t))
    BY <1>0, FS_Interval DEF RunsOf
  <2> QED BY <2>1, FS_Subset, FS_CardinalityType
<1>2. \A i \in 1 .. Len(t) : i \in RunsOf(u, m) <=> i \in RunsOf(t, m)
  BY <1>0 DEF RunsOf
<1>3. n \in RunsOf(u, m) <=> l = m /\ ~(t # <<>> /\ t[Len(t)] = m)
  <2>1. n \in RunsOf(u, m) <=> l = m /\ (n > 1 => u[n - 1] # m)
    BY <1>0 DEF RunsOf
  <2>2. n > 1 <=> t # <<>>
    BY <1>0
  <2>3. t # <<>> => u[n - 1] = t[Len(t)]
    <3>1. n - 1 = Len(t) /\ (t # <<>> => Len(t) \in 1 .. Len(t))
      BY <1>0
    <3> QED BY <1>0, <3>1
  <2> QED BY <2>1, <2>2, <2>3
<1>4. RunsOf(u, m) \subseteq (1 .. Len(t)) \cup {n} /\ RunsOf(t, m) \subseteq 1 .. Len(t)
  BY <1>0 DEF RunsOf
<1>5. CASE n \in RunsOf(u, m)
  <2>1. RunsOf(u, m) = RunsOf(t, m) \cup {n} /\ n \notin RunsOf(t, m)
    BY <1>0, <1>2, <1>4, <1>5
  <2>2. Cardinality(RunsOf(u, m)) = Cardinality(RunsOf(t, m)) + 1
    BY <1>1, <2>1, FS_AddElement
  <2> QED BY <1>3, <1>5, <2>2 DEF u
<1>6. CASE n \notin RunsOf(u, m)
  <2>1. RunsOf(u, m) = RunsOf(t, m)
    BY <1>0, <1>2, <1>4, <1>6
  <2> QED BY <1>1, <1>3, <1>6, <2>1 DEF u
<1> QED BY <1>5, <1>6

-------------------------------------------------------------------------------
\* What was closed stays closed, with only contents in between.
LEMMA StaysClosed ==
    ASSUME NEW o \in Seq(Tags), NEW x \in Tags, NEW e \in Elements, NEW j \in DOMAIN o,
           ClosedAfter(o, e, j)
    PROVE  ClosedAfter(Append(o, x), e, j)
<1> DEFINE p == Append(o, x)
<1>1. /\ Len(p) = Len(o) + 1 /\ Len(o) \in Nat /\ DOMAIN o = 1 .. Len(o) /\ DOMAIN p = 1 .. Len(p)
      /\ \A i \in 1 .. Len(o) : p[i] = o[i]
  BY AppendCounts
<1> HIDE DEF p
<1>2. ContentsOf(o) \subseteq ContentsOf(p)
  BY <1>1 DEF ContentsOf
<1>3. PICK k \in j + 1 .. Len(o) : o[k] = Close(e) /\ \A i \in j + 1 .. k - 1 : i \in ContentsOf(o)
  BY DEF ClosedAfter
<1>4. k \in j + 1 .. Len(p) /\ p[k] = Close(e) /\ \A i \in j + 1 .. k - 1 : i \in ContentsOf(p)
  BY <1>1, <1>2, <1>3
<1> QED BY <1>4 DEF ClosedAfter, p

\* An element is closed after its contents, or opened when none stands open; a content goes in.
LEMMA AppendNests ==
    ASSUME NEW o \in Seq(Tags), NEW e \in Elements, NEW f \in SUBSET Elements, Nested(f, o)
    PROVE  /\ f \subseteq {e} => Nested({}, Append(o, Close(e)))
           /\ f = {} => Nested({e}, Append(o, Open(e)))
           /\ \A i \in Nat \ {0} : Nested(f, Append(o, Content(i)))
<1>1. ASSUME NEW x \in Tags, NEW d \in Elements, NEW j \in DOMAIN o, o[j] = Open(d)
      PROVE  \/ ClosedAfter(Append(o, x), d, j)
             \/ /\ d \in f
                /\ \A i \in j + 1 .. Len(o) : i \in ContentsOf(Append(o, x))
  <2>1. CASE ClosedAfter(o, d, j)
    BY <2>1, StaysClosed
  <2>2. CASE d \in f /\ \A i \in j + 1 .. Len(o) : i \in ContentsOf(o)
    <3>1. ContentsOf(o) \subseteq ContentsOf(Append(o, x))
      BY AppendCounts DEF ContentsOf
    <3> QED BY <2>2, <3>1
  <2> QED BY <1>1, <2>1, <2>2 DEF Nested
<1>2. ASSUME f \subseteq {e}
      PROVE  Nested({}, Append(o, Close(e)))
  <2> DEFINE p == Append(o, Close(e))
  <2>1. /\ Close(e) \in Tags /\ Len(p) = Len(o) + 1 /\ Len(o) \in Nat /\ p[Len(p)] = Close(e)
        /\ DOMAIN o = 1 .. Len(o) /\ DOMAIN p = (1 .. Len(o)) \cup {Len(p)}
        /\ \A i \in 1 .. Len(o) : p[i] = o[i]
    BY TagFacts, AppendCounts
  <2>2. SUFFICES ASSUME NEW d \in Elements, NEW j \in DOMAIN p, p[j] = Open(d)
                 PROVE  ClosedAfter(p, d, j)
    BY DEF Nested
  <2>3. j \in DOMAIN o /\ o[j] = Open(d)
    BY <2>1, <2>2, TagFacts
  <2>4. CASE d \in f /\ \A i \in j + 1 .. Len(o) : i \in ContentsOf(p)
    <3>1. Len(p) \in j + 1 .. Len(p) /\ p[Len(p)] = Close(d) /\ j + 1 .. Len(p) - 1 = j + 1 .. Len(o)
      BY <1>2, <2>1, <2>3, <2>4
    <3> QED BY <2>4, <3>1 DEF ClosedAfter
  <2> QED BY <1>1, <2>1, <2>3, <2>4
<1>3. ASSUME f = {}
      PROVE  Nested({e}, Append(o, Open(e)))
  <2> DEFINE p == Append(o, Open(e))
  <2>1. /\ Open(e) \in Tags /\ Len(p) = Len(o) + 1 /\ Len(o) \in Nat /\ p[Len(p)] = Open(e)
        /\ DOMAIN o = 1 .. Len(o) /\ DOMAIN p = (1 .. Len(o)) \cup {Len(p)}
        /\ \A i \in 1 .. Len(o) : p[i] = o[i]
    BY TagFacts, AppendCounts
  <2>2. SUFFICES ASSUME NEW d \in Elements, NEW j \in DOMAIN p, p[j] = Open(d)
                 PROVE  ClosedAfter(p, d, j) \/ (d \in {e} /\ \A i \in j + 1 .. Len(p) : i \in ContentsOf(p))
    BY DEF Nested
  <2>3. CASE j = Len(p)
    BY <2>1, <2>2, <2>3, TagFacts
  <2>4. CASE j \in DOMAIN o
    BY <1>1, <1>3, <2>1, <2>2, <2>4
  <2> QED BY <2>1, <2>3, <2>4
<1>4. ASSUME NEW n \in Nat \ {0}
      PROVE  Nested(f, Append(o, Content(n)))
  <2> DEFINE p == Append(o, Content(n))
  <2>1. /\ Content(n) \in Tags /\ Len(p) = Len(o) + 1 /\ Len(o) \in Nat /\ p[Len(p)] = Content(n)
        /\ DOMAIN o = 1 .. Len(o) /\ DOMAIN p = (1 .. Len(o)) \cup {Len(p)}
        /\ \A i \in 1 .. Len(o) : p[i] = o[i]
    BY TagFacts, AppendCounts
  <2>2. SUFFICES ASSUME NEW d \in Elements, NEW j \in DOMAIN p, p[j] = Open(d)
                 PROVE  ClosedAfter(p, d, j) \/ (d \in f /\ \A i \in j + 1 .. Len(p) : i \in ContentsOf(p))
    BY DEF Nested
  <2>3. j \in DOMAIN o /\ o[j] = Open(d)
    BY <2>1, <2>2, TagFacts
  <2>4. Len(p) \in ContentsOf(p)
    BY <2>1, TagFacts DEF ContentsOf
  <2>5. j + 1 .. Len(p) \subseteq (j + 1 .. Len(o)) \cup {Len(p)}
    BY <2>1, <2>3
  <2> QED BY <1>1, <2>1, <2>3, <2>4, <2>5
<1> QED BY <1>2, <1>3, <1>4

\* What a turn keeps, and what it adds to the number of elements.
LEMMA TurnKeeps ==
    ASSUME NEW s \in Output, NEW e \in Elements, NEW on \in BOOLEAN, NEW t \in Seq(Kinds),
           Balanced(s.flags, s.out), InPlace(t, s.out)
    PROVE  LET r == Turn(s, e, on) IN
           /\ Balanced(r.flags, r.out) /\ InPlace(t, r.out)
           /\ \A d \in Elements : Times(r.out, Open(d))
                  = Times(s.out, Open(d)) + IF d = e /\ on /\ e \notin s.flags THEN 1 ELSE 0
           /\ Nested(s.flags, s.out) /\ (s.flags \subseteq {e} \/ (e \in s.flags <=> on))
                  => Nested(r.flags, r.out)
<1>0. /\ s.out \in Seq(Tags) /\ s.flags \in SUBSET Elements
      /\ \A tag : Times(s.out, tag) \in Nat
  BY OccurrencesFinite DEF Times, Output
<1>1. CASE (e \in s.flags) = on
  <2>1. Turn(s, e, on) = s
    BY <1>1 DEF Turn
  <2> QED BY <1>0, <1>1, <2>1
<1>2. CASE on /\ e \notin s.flags
  <2> DEFINE p == Append(s.out, Open(e))
             f == s.flags \cup {e}
  <2>1. Turn(s, e, on).flags = f /\ Turn(s, e, on).out = p
    BY <1>2 DEF Turn
  <2>2. /\ \A d \in Elements : Times(p, Open(d)) = Times(s.out, Open(d)) + IF d = e THEN 1 ELSE 0
        /\ \A d \in Elements : Times(p, Close(d)) = Times(s.out, Close(d))
    BY <1>0, AppendCounts, TagFacts
  <2>3. InPlace(t, p)
    BY <1>0, AppendTag, TagFacts
  <2>4. Balanced(f, p)
    BY <1>0, <1>2, <2>2 DEF Balanced
  <2>5. Nested(s.flags, s.out) /\ s.flags \subseteq {e} => Nested(f, p)
    <3>1. s.flags \subseteq {e} => s.flags = {} /\ f = {e}
      BY <1>2
    <3> QED BY <1>0, <3>1, AppendNests
  <2> QED BY <1>2, <2>1, <2>2, <2>3, <2>4, <2>5
<1>3. CASE ~on /\ e \in s.flags
  <2> DEFINE p == Append(s.out, Close(e))
             f == s.flags \ {e}
  <2>1. Turn(s, e, on).flags = f /\ Turn(s, e, on).out = p
    BY <1>3 DEF Turn
  <2>2. /\ \A d \in Elements : Times(p, Close(d)) = Times(s.out, Close(d)) + IF d = e THEN 1 ELSE 0
        /\ \A d \in Elements : Times(p, Open(d)) = Times(s.out, Open(d))
    BY <1>0, AppendCounts, TagFacts
  <2>3. InPlace(t, p)
    BY <1>0, AppendTag, TagFacts
  <2>4. Balanced(f, p)
    BY <1>0, <1>3, <2>2 DEF Balanced
  <2>5. Nested(s.flags, s.out) /\ s.flags \subseteq {e} => Nested(f, p)
    <3>1. s.flags \subseteq {e} => f = {}
      OBVIOUS
    <3> QED BY <1>0, <3>1, AppendNests
  <2> QED BY <1>0, <1>3, <2>1, <2>2, <2>3, <2>4, <2>5
<1> QED BY <1>1, <1>2, <1>3

-------------------------------------------------------------------------------
\* The elements that stand open: after the last line all are closed, and the flags stay.
Standing == IF done THEN {} ELSE flags

\* The tags that were written, against the text and the flags.
TagInv ==
    /\ LastLine(text, flags)
    /\ InPlace(text, out)
    /\ PerRun(text, out)
    /\ Balanced(Standing, out)
    /\ ~ItemThenQuote(text) => Nested(Standing, out)

LEMMA ReadLineTags ==
    ASSUME Typed, TagInv, NEW l \in Kinds, ReadLine(l)
    PROVE  TagInv'
<1> DEFINE now == Now
           quoted == Turn(now, "blockquote", l = "quote")
           around == Around(now, l)
           after == Write(around, l)
           t == Append(text, l)
<1>1. /\ text \in Seq(Kinds) /\ Parsed(l) /\ ~done /\ ~done' /\ Standing = flags
      /\ text' = t /\ flags' = after.flags /\ out' = after.out
  BY DEF ReadLine, Typed, Standing
<1>2. /\ t \in Seq(Kinds) /\ t # <<>> /\ t[Len(t)] = l /\ Len(t) = Len(text) + 1
      /\ Len(text) \in Nat /\ \A i \in 1 .. Len(text) : t[i] = text[i]
      /\ text # <<>> => Len(text) \in 1 .. Len(text)
  BY <1>1
<1>3. /\ now \in Output /\ now.flags = flags /\ now.out = out
      /\ quoted \in Output
      /\ quoted.flags = IF l = "quote" THEN flags \cup {"blockquote"} ELSE flags \ {"blockquote"}
      /\ around \in Output /\ around = Turn(quoted, "ul", l = "item")
      /\ around.flags = IF l = "toggle" THEN flags \cap {"pre"} ELSE ElementsOf(l)
  BY <1>1, AroundFacts
<1> HIDE DEF now, t
<1>4. ~ItemThenQuote(t) => ~ItemThenQuote(text) /\ ~(l = "quote" /\ "ul" \in flags)
  <2>1. ASSUME ItemThenQuote(text) PROVE ItemThenQuote(t)
    <3>1. PICK i \in 1 .. Len(text) - 1 : text[i] = "item" /\ text[i + 1] = "quote"
      BY <2>1 DEF ItemThenQuote
    <3>2. i \in 1 .. Len(t) - 1 /\ i \in 1 .. Len(text) /\ i + 1 \in 1 .. Len(text)
      BY <1>2
    <3> QED BY <1>2, <3>1, <3>2 DEF ItemThenQuote
  <2>2. ASSUME l = "quote", "ul" \in flags PROVE ItemThenQuote(t)
    <3>1. text # <<>> /\ text[Len(text)] = "item"
      BY <2>2 DEF TagInv, LastLine
    <3>2. Len(text) \in 1 .. Len(t) - 1 /\ t[Len(text)] = "item" /\ t[Len(text) + 1] = "quote"
      BY <1>2, <2>2, <3>1
    <3> QED BY <3>2 DEF ItemThenQuote
  <2> QED BY <2>1, <2>2
<1>5. /\ "pre" \in flags <=> fenced
      /\ flags \in {{}, {"pre"}, {"ul"}, {"blockquote"}}
      /\ l \in {"quote", "item"} => "pre" \notin flags
  BY <1>1 DEF Typed, Parsed
<1>6. /\ Balanced(quoted.flags, quoted.out) /\ InPlace(text, quoted.out)
      /\ \A d \in Elements : Times(quoted.out, Open(d))
           = Times(out, Open(d)) + IF d = "blockquote" /\ l = "quote" /\ "blockquote" \notin flags THEN 1 ELSE 0
      /\ ~ItemThenQuote(t) => Nested(quoted.flags, quoted.out)
  <2>1. ~ItemThenQuote(t) => flags \subseteq {"blockquote"} \/ ("blockquote" \in flags <=> l = "quote")
    BY <1>4, <1>5
  <2>2. "blockquote" \in Elements
    BY DEF Elements
  <2>on. PICK on \in BOOLEAN : on <=> l = "quote"
    OBVIOUS
  <2>3. Balanced(now.flags, now.out) /\ InPlace(text, now.out)
    BY <1>1, <1>3 DEF TagInv
  <2>4. ~ItemThenQuote(t) => Nested(now.flags, now.out)
    BY <1>1, <1>3, <1>4 DEF TagInv
  <2>5. /\ Balanced(quoted.flags, quoted.out) /\ InPlace(text, quoted.out)
        /\ \A d \in Elements : Times(quoted.out, Open(d)) = Times(now.out, Open(d))
               + IF d = "blockquote" /\ on /\ "blockquote" \notin now.flags THEN 1 ELSE 0
        /\ Nested(now.flags, now.out)
              /\ (now.flags \subseteq {"blockquote"} \/ ("blockquote" \in now.flags <=> on))
             => Nested(quoted.flags, quoted.out)
    <3>1. quoted = Turn(now, "blockquote", on)
      BY <2>on DEF Turn
    <3> HIDE DEF quoted
    <3> QED BY <1>1, <1>3, <2>2, <2>3, <3>1, TurnKeeps
  <2> HIDE DEF quoted
  <2> QED BY <1>3, <2>on, <2>1, <2>4, <2>5
<1> HIDE DEF quoted
<1>7. /\ Balanced(around.flags, around.out) /\ InPlace(text, around.out)
      /\ \A d \in Elements : Times(around.out, Open(d))
           = Times(quoted.out, Open(d)) + IF d = "ul" /\ l = "item" /\ "ul" \notin quoted.flags THEN 1 ELSE 0
      /\ ~ItemThenQuote(t) => Nested(around.flags, around.out)
  <2>1. ~ItemThenQuote(t) => quoted.flags \subseteq {"ul"} \/ ("ul" \in quoted.flags <=> l = "item")
    BY <1>3, <1>4, <1>5
  <2>2. "ul" \in Elements
    BY DEF Elements
  <2>on. PICK on \in BOOLEAN : on <=> l = "item"
    OBVIOUS
  <2> HIDE DEF around
  <2>3. /\ Balanced(around.flags, around.out) /\ InPlace(text, around.out)
        /\ \A d \in Elements : Times(around.out, Open(d)) = Times(quoted.out, Open(d))
               + IF d = "ul" /\ on /\ "ul" \notin quoted.flags THEN 1 ELSE 0
        /\ Nested(quoted.flags, quoted.out)
              /\ (quoted.flags \subseteq {"ul"} \/ ("ul" \in quoted.flags <=> on))
             => Nested(around.flags, around.out)
    <3>1. around = Turn(quoted, "ul", on)
      BY <1>3, <2>on DEF Turn
    <3> QED BY <1>1, <1>3, <1>6, <2>2, <3>1, TurnKeeps
  <2> QED BY <1>6, <2>on, <2>1, <2>3
<1> HIDE DEF around
<1>8. /\ Balanced(after.flags, after.out) /\ InPlace(t, after.out)
      /\ Times(after.out, Open("blockquote")) = Times(around.out, Open("blockquote"))
      /\ Times(after.out, Open("ul")) = Times(around.out, Open("ul"))
      /\ ~ItemThenQuote(t) => Nested(after.flags, after.out)
      /\ l # "toggle" => after.flags = around.flags
      /\ l = "toggle" => "ul" \notin after.flags /\ "blockquote" \notin after.flags
  <2>0. /\ "ul" \in Elements /\ "blockquote" \in Elements /\ "pre" \in Elements
        /\ around.out \in Seq(Tags) /\ around.flags \in SUBSET Elements
        /\ \A tag : Times(around.out, tag) \in Nat
    BY <1>3, OccurrencesFinite DEF Elements, Output, Times
  <2>1. CASE l = "toggle"
    <3>on. PICK on \in BOOLEAN : on <=> "pre" \notin around.flags
      OBVIOUS
    <3>1. after = Turn(around, "pre", on) /\ around.flags \subseteq {"pre"}
      <4>1. after = Turn(around, "pre", "pre" \notin around.flags)
        BY <2>1 DEF Write
      <4> HIDE DEF after
      <4>2. after = Turn(around, "pre", on)
        BY <3>on, <4>1 DEF Turn
      <4> QED BY <1>3, <2>1, <4>2
    <3> HIDE DEF after
    <3>2. /\ Balanced(after.flags, after.out) /\ InPlace(text, after.out)
          /\ \A d \in Elements : Times(after.out, Open(d)) = Times(around.out, Open(d))
                 + IF d = "pre" /\ on /\ "pre" \notin around.flags THEN 1 ELSE 0
          /\ Nested(around.flags, around.out)
                /\ (around.flags \subseteq {"pre"} \/ ("pre" \in around.flags <=> on))
               => Nested(after.flags, after.out)
      BY <1>1, <1>3, <1>7, <2>0, <3>1, TurnKeeps
    <3>3. /\ after \in Output
          /\ after.flags = IF on THEN around.flags \cup {"pre"} ELSE around.flags \ {"pre"}
      <4>1. around \in Output /\ "pre" \in Elements
        BY <1>3, <2>0
      <4>2. /\ Turn(around, "pre", on) \in Output
            /\ Turn(around, "pre", on).flags
                  = IF on THEN around.flags \cup {"pre"} ELSE around.flags \ {"pre"}
        BY <4>1, TurnFacts
      <4> QED BY <3>1, <4>2
    <3>4. InPlace(t, after.out)
      BY <1>1, <2>1, <3>2, <3>3, UnwrittenLine DEF Output, t
    <3>5. "ul" \notin after.flags /\ "blockquote" \notin after.flags
      BY <3>1, <3>3
    <3>6. "blockquote" # "pre" /\ "ul" # "pre"
      OBVIOUS
    <3>7. /\ Times(after.out, Open("blockquote")) = Times(around.out, Open("blockquote"))
          /\ Times(after.out, Open("ul")) = Times(around.out, Open("ul"))
      BY <2>0, <3>2, <3>6
    <3> QED BY <1>7, <2>1, <3>1, <3>2, <3>4, <3>5, <3>7
  <2>2. CASE l = "badlink"
    <3>1. after = around
      BY <2>2 DEF Write
    <3>2. InPlace(t, around.out)
      BY <1>1, <1>7, <2>0, <2>2, UnwrittenLine DEF t
    <3> QED BY <1>7, <2>2, <3>1, <3>2
  <2>3. CASE l \notin {"toggle", "badlink"}
    <3> DEFINE n == Len(text) + 1
    <3>1. after.out = Append(around.out, Content(n)) /\ after.flags = around.flags
      BY <1>3, <2>3 DEF Write, Output
    <3>2. n \in Nat \ {0} /\ Content(n) \in Tags
      BY <1>2, TagFacts
    <3>3. OpenIn(around.out, Len(around.out)) = ElementsOf(l)
      BY <1>3, <1>7, <2>0, <2>3, OpenAtEnd
    <3>4. InPlace(t, after.out)
      BY <1>1, <1>7, <2>0, <2>3, <3>1, <3>3, AppendContent DEF t
    <3>5. \A e \in Elements : Open(e) # Content(n) /\ Close(e) # Content(n)
      BY <3>2, TagFacts
    <3>6. \A e \in Elements : /\ Times(after.out, Open(e)) = Times(around.out, Open(e))
                              /\ Times(after.out, Close(e)) = Times(around.out, Close(e))
      BY <2>0, <3>1, <3>2, <3>5, AppendCounts
    <3>7. Balanced(after.flags, after.out)
      BY <1>7, <3>1, <3>6 DEF Balanced
    <3>8. ~ItemThenQuote(t) => Nested(after.flags, after.out)
      BY <1>7, <2>0, <3>1, <3>2, AppendNests
    <3> QED BY <2>0, <2>3, <3>1, <3>4, <3>6, <3>7, <3>8
  <2> QED BY <2>1, <2>2, <2>3
<1> HIDE DEF after
<1>9. LastLine(t, after.flags)
  <2>1. /\ "blockquote" \in after.flags <=> l = "quote"
        /\ "ul" \in after.flags <=> l = "item"
    BY <1>3, <1>8 DEF ElementsOf, Kinds
  <2> QED BY <1>2, <2>1 DEF LastLine
<1>10. PerRun(t, after.out)
  <2>1. /\ "blockquote" \in flags <=> text # <<>> /\ text[Len(text)] = "quote"
        /\ "ul" \in flags <=> text # <<>> /\ text[Len(text)] = "item"
        /\ Times(out, Open("blockquote")) = Cardinality(RunsOf(text, "quote"))
        /\ Times(out, Open("ul")) = Cardinality(RunsOf(text, "item"))
    BY DEF TagInv, LastLine, PerRun
  <2>2. "ul" \in quoted.flags <=> "ul" \in flags
    BY <1>3
  <2>3. \A m \in {"quote", "item"} : Cardinality(RunsOf(t, m))
           = Cardinality(RunsOf(text, m)) + IF l = m /\ ~(text # <<>> /\ text[Len(text)] = m) THEN 1 ELSE 0
    BY <1>1, RunsGrow DEF Kinds, t
  <2>4. \A tag : Times(out, tag) \in Nat /\ Times(quoted.out, tag) \in Nat
    BY <1>3, OccurrencesFinite DEF Output, Times, Typed
  <2>5. /\ Times(after.out, Open("blockquote"))
             = Times(out, Open("blockquote")) + IF l = "quote" /\ "blockquote" \notin flags THEN 1 ELSE 0
        /\ Times(after.out, Open("ul")) = Times(out, Open("ul")) + IF l = "item" /\ "ul" \notin flags THEN 1 ELSE 0
    BY <1>6, <1>7, <1>8, <2>2, <2>4 DEF Elements
  <2> QED BY <2>1, <2>3, <2>5 DEF PerRun
<1>11. Standing' = flags'
  BY <1>1 DEF Standing
<1> QED BY <1>1, <1>8, <1>9, <1>10, <1>11 DEF TagInv

\* After the last line at most one tag is written, that of the element that stands open.
LEMMA FinishTags ==
    ASSUME Typed, TagInv, Finish
    PROVE  TagInv'
<1>1. /\ ~done /\ done' /\ Standing = flags /\ Standing' = {} /\ UNCHANGED <<text, flags>>
      /\ text \in Seq(Kinds) /\ out \in Seq(Tags) /\ flags \in SUBSET Elements
  BY DEF Finish, Standing, Typed, Elements
<1>2. /\ LastLine(text, flags) /\ InPlace(text, out) /\ PerRun(text, out) /\ Balanced(flags, out)
      /\ ~ItemThenQuote(text) => Nested(flags, out)
  BY <1>1 DEF TagInv
<1>3. CASE flags = {}
  <2>1. out' = out
    BY <1>3 DEF Finish, Now
  <2> QED BY <1>1, <1>2, <1>3, <2>1 DEF TagInv
<1>4. CASE flags # {}
  <2>1. PICK e \in Elements : flags = {e}
    BY <1>4 DEF Typed, Elements
  <2>2. out' = Append(out, Close(e))
    <3>1. CASE e = "pre"
      BY <2>1, <3>1 DEF Finish, Now
    <3>2. CASE e = "ul"
      BY <2>1, <3>2 DEF Finish, Now
    <3>3. CASE e = "blockquote"
      BY <2>1, <3>3 DEF Finish, Now
    <3> QED BY <3>1, <3>2, <3>3 DEF Elements
  <2> DEFINE p == Append(out, Close(e))
  <2>3. InPlace(text, p)
    BY <1>1, <1>2, AppendTag, TagFacts
  <2>4. /\ \A tag : Times(out, tag) \in Nat
        /\ \A d \in Elements : Times(p, Open(d)) = Times(out, Open(d))
        /\ \A d \in Elements : Times(p, Close(d)) = Times(out, Close(d)) + IF d = e THEN 1 ELSE 0
    <3>1. \A tag : Times(out, tag) \in Nat
      BY <1>1, OccurrencesFinite DEF Times
    <3> QED BY <1>1, <3>1, AppendCounts, TagFacts
  <2>5. PerRun(text, p)
    BY <1>2, <2>4 DEF PerRun, Elements
  <2>6. Balanced({}, p)
    BY <1>2, <2>1, <2>4 DEF Balanced
  <2>7. ~ItemThenQuote(text) => Nested({}, p)
    BY <1>1, <1>2, <2>1, AppendNests
  <2> QED BY <1>1, <1>2, <2>2, <2>3, <2>5, <2>6, <2>7 DEF TagInv
<1> QED BY <1>3, <1>4

\* An empty page.
LEMMA EmptyTags ==
    /\ LastLine(<<>>, {})
    /\ InPlace(<<>>, <<>>)
    /\ PerRun(<<>>, <<>>)
    /\ Balanced({}, <<>>) /\ Nested({}, <<>>)
<1>1. Len(<<>>) = 0 /\ DOMAIN <<>> = {} /\ 1 .. 0 = {}
  OBVIOUS
<1>2. \A tag : Times(<<>>, tag) = 0
  <2>1. \A tag : Occurrences(<<>>, tag, 0) = {}
    BY <1>1 DEF Occurrences
  <2> QED BY <1>1, <2>1, FS_EmptySet DEF Times
<1>3. \A m : Cardinality(RunsOf(<<>>, m)) = 0
  <2>1. \A m : RunsOf(<<>>, m) = {}
    BY <1>1 DEF RunsOf
  <2> QED BY <2>1, FS_EmptySet
<1>4. InPlace(<<>>, <<>>)
  BY <1>1 DEF InPlace, ContentsOf
<1>5. PerRun(<<>>, <<>>)
  BY <1>2, <1>3 DEF PerRun
<1>6. Balanced({}, <<>>) /\ Nested({}, <<>>)
  BY <1>1, <1>2 DEF Balanced, Nested
<1> QED BY <1>4, <1>5, <1>6 DEF LastLine

(***************************************************************************)
(* What is written says of each line where it stands, however long the     *)
(* document: the numbers of tags of open and close, and what lies between  *)
(* them, follow the flags of textToHTML.                                   *)
(***************************************************************************)
THEOREM TagsFollowFlags == Spec => []TagInv
<1>1. Init => TagInv
  BY EmptyTags DEF Init, TagInv, Standing
<1>2. Typed /\ TagInv /\ [Next]_vars => TagInv'
  <2> SUFFICES ASSUME Typed, TagInv, [Next]_vars PROVE TagInv'
    OBVIOUS
  <2>1. CASE NextPage
    <3>1. text' = <<>> /\ flags' = {} /\ out' = <<>> /\ done' = FALSE
      BY <2>1 DEF NextPage
    <3>2. Standing' = {}
      BY <3>1 DEF Standing
    <3> QED BY <3>1, <3>2, EmptyTags DEF TagInv
  <2>2. CASE UNCHANGED vars
    BY <2>2 DEF vars, TagInv, Standing
  <2> QED BY <2>1, <2>2, ReadLineTags, FinishTags DEF Next
<1>3. IInv => Typed
  BY DEF IInv
<1> QED BY <1>1, <1>2, <1>3, Invariance, PTL DEF Spec

\* The numbers and the places, as the invariants of the model have them.
LEMMA TagNames ==
    /\ \A tag, k : Count(tag, k) = Cardinality(Occurrences(out, tag, k))
    /\ \A tag : Count(tag, Len(out)) = Times(out, tag)
    /\ \A k : OpenAt(k) = OpenIn(out, k)
    /\ Contents = ContentsOf(out)
    /\ \A l : Runs(l) = RunsOf(text, l)
BY DEF Count, Occurrences, Times, OpenAt, OpenIn, Contents, ContentsOf, Runs, RunsOf

(***************************************************************************)
(* However long the document, each of its lines is written once, in its    *)
(* place and inside the element of its kind (the flags of textToHTML).     *)
(***************************************************************************)
THEOREM EveryLineInPlace == Spec => []LinesAreInPlace
<1>1. TagInv => LinesAreInPlace
  BY TagNames DEF TagInv, InPlace, LinesAreInPlace
<1> QED BY <1>1, TagsFollowFlags, PTL

(***************************************************************************)
(* However long the document, there are as many quotes and lists as runs   *)
(* of lines of the kind (textToHTML).                                      *)
(***************************************************************************)
THEOREM OneElementForEachRun == Spec => []OneElementPerRun
<1>1. TagInv => OneElementPerRun
  BY TagNames DEF TagInv, PerRun, OneElementPerRun
<1> QED BY <1>1, TagsFollowFlags, PTL

(***************************************************************************)
(* Whatever was open at the end of a document of any length is closed, and *)
(* each element before the next is opened, but for a quote right after a   *)
(* list item (textToHTML).                                                 *)
(***************************************************************************)
THEOREM EveryElementClosed == Spec => []WellNested
<1>1. IInv /\ TagInv => WellNested
  <2> SUFFICES ASSUME IInv, TagInv, done PROVE WellNested
    BY DEF WellNested
  <2>1. Standing = {}
    BY DEF Standing
  <2>2. \A e \in Elements : Count(Open(e), Len(out)) = Count(Close(e), Len(out))
    <3>1. \A tag : Times(out, tag) \in Nat
      BY OccurrencesFinite DEF IInv, Typed, Times
    <3>2. \A e \in Elements : Times(out, Open(e)) = Times(out, Close(e))
      BY <2>1, <3>1 DEF TagInv, Balanced
    <3> QED BY <3>2, TagNames
  <2>3. ASSUME ~QuoteAfterItem, NEW e \in Elements, NEW j \in DOMAIN out, out[j] = Open(e)
        PROVE  \E k \in j + 1 .. Len(out) :
                   out[k] = Close(e) /\ \A i \in j + 1 .. k - 1 : i \in Contents
    <3>1. Nested({}, out)
      BY <2>1, <2>3 DEF TagInv, QuoteAfterItem, ItemThenQuote
    <3>2. ClosedAfter(out, e, j)
      BY <2>3, <3>1 DEF Nested
    <3> QED BY <3>2, TagNames DEF ClosedAfter
  <2> QED BY <2>2, <2>3 DEF WellNested
<1> QED BY <1>1, Invariance, TagsFollowFlags, PTL

-------------------------------------------------------------------------------
(***************************************************************************)
(* What an answer over HTTP rests on: for each call of userFile a site     *)
(* there was while the request ran, which had that call go this way.  p is *)
(* the path and S the sites there were.                                    *)
(***************************************************************************)
Dirs(S) == {s \in S : s.node = "dir"}

\* The first os.Stat went on, and found what is at s.
Passed(p, ask, s) ==
    /\ p \notin {"index", "hidden"}
    /\ ~(p = "atom" /\ ~ask.slash /\ s.node = "absent")

Found(p, S, ask, found) == \E s \in S : Passed(p, ask, s) /\ found = s.node

\* A directory whose index was not there when it was looked for.
Listed(p, S, ask) ==
    /\ Found(p, S, ask, "dir")
    /\ \E t \in S : StatIndex(t) = "absent"

\* Such a directory, and files that were in it.
Described(p, S, ask, listed) ==
    p # "gemlog" /\ Listed(p, S, ask) /\ \E t \in S : listed \subseteq ReadDir(t)

\* A file, or the index of a directory, or when raw the directory itself is going to be read.
Read(p, S, ask, found, target) ==
    \/ /\ Found(p, S, ask, found)
       /\ \E t \in S : StatIndex(t) # "absent"
       /\ target = IF found = "dir" THEN "index" ELSE "self"
    \/ ask.raw /\ Listed(p, S, ask) /\ found = "dir" /\ target = "self"

What(target, s) ==
    IF target = "self"
    THEN IF s.node = "file" THEN "file" ELSE IF s.node = "dir" THEN "listing" ELSE "notfound"
    ELSE IF s.index THEN "index" ELSE "notfound"

Served(p, ask, found, target, s) ==
    IF ~(~ask.raw /\ (p = "page" \/ target # "self")) THEN What(target, s)
    ELSE IF found \in {"absent", "below"} THEN "panic"
    ELSE IF What(target, s) \in {"file", "index"} THEN What(target, s) ELSE "empty"

\* The ways to answer a.
HttpAnswer(p, S, ask, a) ==
    \/ p = "index" /\ a = "redirect"
    \/ p = "hidden" /\ a = "forbidden"
    \/ p = "atom" /\ ~ask.slash /\ a = "atom" /\ \E s \in S : s.node = "absent"
    \/ /\ a = "notfound"
       /\ \E s, t \in S : Passed(p, ask, s) /\ s.node # "dir" /\ StatIndex(t) = "absent"
    \/ ~ask.raw /\ Listed(p, S, ask) /\ a = IF p = "gemlog" THEN "feed" ELSE "folder"
    \/ /\ a = "panic"
       /\ \E u \in S : \E e \in Entries \ ReadDir(u) : Described(p, S, ask, {e})
    \/ \E found \in {"absent", "below", "file", "dir"}, target \in {"self", "index"}, u \in S :
          Read(p, S, ask, found, target) /\ a = Served(p, ask, found, target, u)

\* The same of gmiPage and gmi.ServeFile.
GeminiFile(p, s) ==
    IF s.node = "file" /\ p # "root" THEN "file" ELSE IF s.index THEN "index" ELSE "notfound"

GeminiRead(p, S) ==
    /\ p # "hidden"
    /\ p = "gemlog" => \E s \in S : s.index
    /\ p = "atom" => \E s \in S : s.node \in {"file", "dir"}

GeminiAnswer(p, S, a) ==
    \/ p = "hidden" /\ a = "notfound"
    \/ p = "gemlog" /\ a = "feed" /\ \E s \in S : ~s.index
    \/ p = "atom" /\ a = "atom" /\ \E s \in S : s.node \notin {"file", "dir"}
    \/ GeminiRead(p, S) /\ \E u \in S : a = GeminiFile(p, u)

-------------------------------------------------------------------------------
Steps == {"idle", "stat", "statIndex", "list", "describe", "read", "done"}

Running == Steps \ {"idle", "done"}

Answers == {"redirect", "forbidden", "notfound", "atom", "feed", "folder",
            "file", "index", "listing", "empty", "panic"}

Request ==
    [at : Steps, ask : Asks, found : {"absent", "below", "file", "dir"},
     target : {"self", "index"}, listed : SUBSET Entries, seen : SUBSET Sites, out : Seq(Answers)]

\* What is at the path is of another kind only after there was nothing.
Connected(S) == \A s, t \in S : s.node # t.node => \E u \in S : u.node = "absent"

Redirected(q) == IF q.found = "dir" /\ ~q.ask.slash THEN <<"redirect">> ELSE <<>>

\* How far a request q over HTTP has come.
HttpProgress(p, q) ==
    /\ q.at \in {"stat", "statIndex", "list", "describe"} => q.target = "self"
    /\ q.at = "stat" => q.out = <<>>
    /\ q.at = "statIndex" => q.out = <<>> /\ Found(p, q.seen, q.ask, q.found)
    /\ q.at = "list" =>
          q.found = "dir" /\ Listed(p, q.seen, q.ask) /\ q.out = Redirected(q)
    /\ q.at = "describe" =>
          q.found = "dir" /\ Described(p, q.seen, q.ask, q.listed) /\ q.out = Redirected(q)
    /\ q.at = "read" => Read(p, q.seen, q.ask, q.found, q.target) /\ q.out = Redirected(q)
    /\ q.at = "done" =>
          \E a \in Answers :
             /\ HttpAnswer(p, q.seen, q.ask, a)
             /\ \/ q.out = <<a>>
                \/ q.out = Append(<<"redirect">>, a) /\ ~q.ask.slash /\ Dirs(q.seen) # {}

GeminiProgress(p, q) ==
    /\ q.at \in Steps \ {"statIndex", "list", "describe"}
    /\ q.at = "stat" => q.out = <<>>
    /\ q.at = "read" => q.out = <<>> /\ GeminiRead(p, q.seen)
    /\ q.at = "done" => \E a \in Answers : GeminiAnswer(p, q.seen, a) /\ q.out = <<a>>

\* path keeps its first value, which only its kind says anything of.
LookupTyped == site \in Sites /\ req \in [Requests -> Request]

\* A request that runs has seen what is there now.
Witnessed(q) == (q.at \in Running => site \in q.seen) /\ Connected(q.seen)

LookupInv ==
    /\ LookupTyped
    /\ \A r \in Requests : Witnessed(req[r])
    /\ \A r \in HttpRequests : HttpProgress(path, req[r])
    /\ \A r \in GeminiRequests : GeminiProgress(path, req[r])

\* What was seen of fewer sites was seen of more.
LEMMA SeenMore ==
    ASSUME NEW p, NEW S, NEW T, S \subseteq T, NEW ask
    PROVE  /\ \A found : Found(p, S, ask, found) => Found(p, T, ask, found)
           /\ Listed(p, S, ask) => Listed(p, T, ask)
           /\ \A listed : Described(p, S, ask, listed) => Described(p, T, ask, listed)
           /\ \A found, target : Read(p, S, ask, found, target) => Read(p, T, ask, found, target)
           /\ GeminiRead(p, S) => GeminiRead(p, T)
<1>1. \A found : Found(p, S, ask, found) => Found(p, T, ask, found)
  BY DEF Found
<1>2. Listed(p, S, ask) => Listed(p, T, ask)
  BY <1>1 DEF Listed
<1>3. \A listed : Described(p, S, ask, listed) => Described(p, T, ask, listed)
  BY <1>2 DEF Described
<1>4. \A found, target : Read(p, S, ask, found, target) => Read(p, T, ask, found, target)
  BY <1>1, <1>2 DEF Read
<1>5. GeminiRead(p, S) => GeminiRead(p, T)
  BY DEF GeminiRead
<1> QED BY <1>1, <1>2, <1>3, <1>4, <1>5

LEMMA InitLookup == LookupInit => LookupInv
<1> SUFFICES ASSUME LookupInit PROVE LookupInv
  OBVIOUS
<1> USE DEF LookupInit
<1>1. Idle \in Request /\ Idle.at = "idle" /\ Idle.seen = {}
  BY DEF Idle, Request, Steps, Asks
<1>2. \A r \in Requests : req[r] = Idle
  OBVIOUS
<1>3. LookupTyped
  BY <1>1 DEF LookupTyped
<1>4. \A r \in Requests : Witnessed(req[r])
  BY <1>1, <1>2 DEF Witnessed, Connected, Running
<1>5. \A r \in Requests : HttpProgress(path, req[r]) /\ GeminiProgress(path, req[r])
  BY <1>1, <1>2 DEF HttpProgress, GeminiProgress, Steps
<1> QED BY <1>3, <1>4, <1>5 DEF LookupInv, Requests

\* A step of one request, in which the site stays as it is.
LEMMA OneMoves ==
    ASSUME LookupInv, NEW r \in Requests, NEW q \in Request,
           req' = [req EXCEPT ![r] = q], UNCHANGED <<path, site>>,
           Witnessed(q),
           r \in HttpRequests => HttpProgress(path, q),
           r \in GeminiRequests => GeminiProgress(path, q)
    PROVE  LookupInv'
<1>1. /\ req' \in [Requests -> Request] /\ req'[r] = q
      /\ \A s \in Requests : s # r => req'[s] = req[s]
  BY DEF LookupInv, LookupTyped
<1>2. LookupTyped'
  BY <1>1 DEF LookupInv, LookupTyped
<1>3. ASSUME NEW s \in Requests
      PROVE  /\ Witnessed(req[s])'
             /\ s \in HttpRequests => HttpProgress(path, req[s])'
             /\ s \in GeminiRequests => GeminiProgress(path, req[s])'
  <2>1. CASE s = r
    BY <1>1, <2>1 DEF Witnessed, HttpProgress, GeminiProgress
  <2>2. CASE s # r
    BY <1>1, <2>2 DEF LookupInv, Witnessed, HttpProgress, GeminiProgress
  <2> QED BY <2>1, <2>2
<1> QED BY <1>2, <1>3 DEF LookupInv, Requests

\* The output of a request with one answer, or two.
LEMMA Appended ==
    ASSUME NEW a \in Answers, NEW b \in Answers
    PROVE  /\ <<a>> \in Seq(Answers) /\ Append(<<>>, a) = <<a>> /\ Len(<<a>>) = 1 /\ <<a>>[1] = a
           /\ Len(Append(<<b>>, a)) = 2 /\ Append(<<b>>, a)[2] = a
           /\ Head(Append(<<b>>, a)) = b
<1>1. Append(<<>>, a) = <<a>> /\ Len(<<a>>) = 1 /\ <<a>>[1] = a
  OBVIOUS
<1>2. <<a>> \in Seq(Answers) /\ <<b>> \in Seq(Answers) /\ Len(<<b>>) = 1
  <2>1. <<>> \in Seq(Answers) /\ Append(<<>>, b) = <<b>> /\ Append(<<>>, a) = <<a>>
    OBVIOUS
  <2> QED BY <2>1, AppendProperties
<1>3. /\ Len(Append(<<b>>, a)) = Len(<<b>>) + 1
      /\ Append(<<b>>, a)[Len(<<b>>) + 1] = a
  BY <1>2, AppendProperties
<1>4. Head(Append(<<b>>, a)) = b
  OBVIOUS
<1> QED BY <1>1, <1>2, <1>3, <1>4

\* A request that runs ends, with an answer it has witnesses for.
LEMMA OneIsAnswered ==
    ASSUME LookupInv, NEW r \in Requests, NEW a \in Answers,
           AnswerWith(r, a), req[r].at \in Running,
           r \in HttpRequests =>
              /\ HttpAnswer(path, req[r].seen, req[r].ask, a)
              /\ \/ req[r].out = <<>>
                 \/ req[r].out = <<"redirect">> /\ ~req[r].ask.slash /\ Dirs(req[r].seen) # {},
           r \in GeminiRequests => req[r].out = <<>> /\ GeminiAnswer(path, req[r].seen, a)
    PROVE  LookupInv'
<1> DEFINE old == req[r]
           q == [old EXCEPT !.at = "done", !.out = Append(@, a), !.found = "absent", !.target = "self",
                     !.listed = {}]
<1>1. old \in Request /\ Witnessed(old)
  BY DEF LookupInv, LookupTyped
<1>2. /\ q.at = "done" /\ q.out = Append(old.out, a) /\ q.seen = old.seen /\ q.ask = old.ask
      /\ q \in Request
  <2>1. Append(old.out, a) \in Seq(Answers)
    BY <1>1 DEF Request
  <2>2. /\ q.at = "done" /\ q.out = Append(old.out, a) /\ q.seen = old.seen /\ q.ask = old.ask
    BY <1>1 DEF Request
  <2>3. q \in Request
    BY <1>1, <2>1 DEF Request, Steps
  <2> QED BY <2>2, <2>3
<1>3. req' = [req EXCEPT ![r] = q]
  BY DEF AnswerWith, Idle
<1>4. UNCHANGED <<path, site>>
  BY DEF AnswerWith
<1> HIDE DEF q
<1>5. Witnessed(q)
  BY <1>1, <1>2 DEF Witnessed, Running
<1>6. ASSUME r \in HttpRequests PROVE HttpProgress(path, q)
  <2>1. CASE old.out = <<>>
    <3>1. q.out = <<a>>
      BY <1>2, <2>1, Appended
    <3> QED BY <1>2, <1>6, <3>1 DEF HttpProgress
  <2>2. CASE old.out = <<"redirect">> /\ ~old.ask.slash /\ Dirs(old.seen) # {}
    <3>1. q.out = Append(<<"redirect">>, a)
      BY <1>2, <2>2, Appended
    <3> QED BY <1>2, <1>6, <2>2, <3>1 DEF HttpProgress
  <2> QED BY <1>6, <2>1, <2>2
<1>7. ASSUME r \in GeminiRequests PROVE GeminiProgress(path, q)
  <2>1. q.out = <<a>>
    BY <1>2, <1>7, Appended
  <2> QED BY <1>2, <1>7, <2>1 DEF GeminiProgress, Steps
<1> QED BY <1>2, <1>3, <1>4, <1>5, <1>6, <1>7, OneMoves

\* A request that runs goes on: it has seen the same sites, and asks the same.
LEMMA OneGoesOn ==
    ASSUME LookupInv, NEW r \in Requests, NEW q \in Request,
           req' = [req EXCEPT ![r] = q], UNCHANGED <<path, site>>,
           req[r].at \in Running, q.seen = req[r].seen,
           r \in HttpRequests => HttpProgress(path, q),
           r \in GeminiRequests => GeminiProgress(path, q)
    PROVE  LookupInv'
<1>1. Witnessed(req[r])
  BY DEF LookupInv
<1>2. Witnessed(q)
  BY <1>1 DEF Witnessed
<1> QED BY <1>2, OneMoves

\* A request begins with what is there.
LEMMA BeginKeeps ==
    ASSUME LookupInv, NEW r \in Requests, NEW ask \in Asks,
           Begin(r, ask)
    PROVE  LookupInv'
<1> DEFINE q == [Idle EXCEPT !.at = "stat", !.ask = ask, !.seen = {site}]
<1>1. /\ q.at = "stat" /\ q.seen = {site} /\ q.out = <<>> /\ q.target = "self"
      /\ q \in Request
  <2>1. Idle \in Request
    BY DEF Idle, Request, Steps, Asks
  <2>2. Idle.out = <<>> /\ Idle.target = "self"
    BY DEF Idle
  <2>3. site \in Sites
    BY DEF LookupInv, LookupTyped
  <2>4. q.at = "stat" /\ q.seen = {site} /\ q.out = <<>> /\ q.target = "self"
    BY <2>1, <2>2 DEF Request
  <2>5. q \in Request
    BY <2>1, <2>3 DEF Request, Steps
  <2> QED BY <2>4, <2>5
<1>2. req' = [req EXCEPT ![r] = q] /\ UNCHANGED <<path, site>>
  BY DEF Begin
<1> HIDE DEF q
<1>3. Witnessed(q)
  BY <1>1 DEF Witnessed, Connected
<1>4. HttpProgress(path, q) /\ GeminiProgress(path, q)
  BY <1>1 DEF HttpProgress, GeminiProgress, Steps
<1> QED BY <1>1, <1>2, <1>3, <1>4, OneMoves

\* What a request has come to stays true when it sees one more site.
LEMMA ProgressSeesMore ==
    ASSUME NEW p, NEW q \in Request, NEW s \in Sites, NEW m \in Request,
           m = [q EXCEPT !.seen = @ \cup {s}], q.at \in Running
    PROVE  /\ HttpProgress(p, q) => HttpProgress(p, m)
           /\ GeminiProgress(p, q) => GeminiProgress(p, m)
<1>1. /\ m.at = q.at /\ m.ask = q.ask /\ m.found = q.found /\ m.target = q.target
      /\ m.listed = q.listed /\ m.out = q.out /\ m.seen = q.seen \cup {s}
  BY DEF Request
<1>2. Redirected(m) = Redirected(q)
  BY <1>1 DEF Redirected
<1>3. /\ Found(p, q.seen, q.ask, q.found) => Found(p, m.seen, q.ask, q.found)
      /\ Listed(p, q.seen, q.ask) => Listed(p, m.seen, q.ask)
      /\ Described(p, q.seen, q.ask, q.listed) => Described(p, m.seen, q.ask, q.listed)
      /\ Read(p, q.seen, q.ask, q.found, q.target) => Read(p, m.seen, q.ask, q.found, q.target)
      /\ GeminiRead(p, q.seen) => GeminiRead(p, m.seen)
  BY <1>1, SeenMore
<1>4. q.at # "done"
  BY DEF Running
<1> QED BY <1>1, <1>2, <1>3, <1>4 DEF HttpProgress, GeminiProgress

\* Somebody else changes the site: the requests that run see one more.
LEMMA ChangeKeeps ==
    ASSUME LookupInv, NEW s \in Sites, Change(s)
    PROVE  LookupInv'
<1>1. /\ site' = s /\ path' = path
      /\ req' = [r \in Requests |->
                   IF req[r].at \in {"idle", "done"} THEN req[r]
                   ELSE [req[r] EXCEPT !.seen = @ \cup {s}]]
  BY DEF Change
<1>2. ASSUME NEW r \in Requests
      PROVE  /\ req'[r] \in Request
             /\ Witnessed(req[r])'
             /\ r \in HttpRequests => HttpProgress(path, req[r])'
             /\ r \in GeminiRequests => GeminiProgress(path, req[r])'
  <2>1. /\ req[r] \in Request /\ Witnessed(req[r])
        /\ r \in HttpRequests => HttpProgress(path, req[r])
        /\ r \in GeminiRequests => GeminiProgress(path, req[r])
    BY DEF LookupInv, LookupTyped
  <2>2. CASE req[r].at \in {"idle", "done"}
    <3>1. req'[r] = req[r]
      BY <1>1, <2>2
    <3> QED BY <1>1, <2>1, <2>2, <3>1 DEF Witnessed, Running, HttpProgress, GeminiProgress
  <2>3. CASE req[r].at \notin {"idle", "done"}
    <3> DEFINE q == [req[r] EXCEPT !.seen = @ \cup {s}]
    <3>1. req'[r] = q
      BY <1>1, <2>3
    <3>2. q \in Request /\ q.seen = req[r].seen \cup {s} /\ q.at = req[r].at
      BY <2>1 DEF Request
    <3>3. req[r].at \in Running /\ site \in req[r].seen
      BY <2>1, <2>3 DEF Running, Request, Witnessed
    <3>4. Connected(q.seen)
      <4>1. \A t \in req[r].seen : s.node # t.node => \E u \in q.seen : u.node = "absent"
        <5> SUFFICES ASSUME NEW t \in req[r].seen, s.node # t.node
                     PROVE  \E u \in q.seen : u.node = "absent"
          OBVIOUS
        <5>1. CASE s.node = site.node
          BY <2>1, <3>2, <3>3, <5>1 DEF Witnessed, Connected
        <5>2. CASE s.node # site.node
          BY <3>2, <3>3, <5>2 DEF Change
        <5> QED BY <5>1, <5>2
      <4> QED BY <2>1, <3>2, <4>1 DEF Witnessed, Connected
    <3>5. /\ HttpProgress(path, req[r]) => HttpProgress(path, q)
          /\ GeminiProgress(path, req[r]) => GeminiProgress(path, q)
      BY <2>1, <3>2, <3>3, ProgressSeesMore
    <3> HIDE DEF q
    <3>6. Witnessed(req[r])'
      BY <1>1, <3>1, <3>2, <3>4 DEF Witnessed
    <3>7. /\ HttpProgress(path, q) => HttpProgress(path, req[r])'
          /\ GeminiProgress(path, q) => GeminiProgress(path, req[r])'
      BY <1>1, <3>1 DEF HttpProgress, GeminiProgress
    <3> QED BY <2>1, <3>1, <3>2, <3>5, <3>6, <3>7
  <2> QED BY <2>2, <2>3
<1>3. LookupTyped'
  BY <1>1, <1>2 DEF LookupTyped
<1> QED BY <1>2, <1>3 DEF LookupInv, Requests

\* What a request over HTTP has of the invariant, and then one over Gemini.
LEMMA HttpFacts ==
    ASSUME LookupInv, NEW r \in HttpRequests
    PROVE  /\ r \in Requests /\ r \notin GeminiRequests
           /\ req[r] \in Request /\ HttpProgress(path, req[r])
           /\ req[r].at \in Running => site \in req[r].seen
           /\ site \in Sites
BY PageLookupAssumption DEF LookupInv, LookupTyped, Requests, Witnessed

LEMMA GeminiFacts ==
    ASSUME LookupInv, NEW r \in GeminiRequests
    PROVE  /\ r \in Requests /\ r \notin HttpRequests
           /\ req[r] \in Request /\ GeminiProgress(path, req[r])
           /\ req[r].at \in Running => site \in req[r].seen
           /\ site \in Sites
BY PageLookupAssumption DEF LookupInv, LookupTyped, Requests, Witnessed

\* Each action keeps the invariant; the first os.Stat.
LEMMA HttpStatKeeps ==
    ASSUME LookupInv, NEW r \in HttpRequests, HttpStat(r)
    PROVE  LookupInv'
<1> DEFINE old == req[r]
<1>1. /\ r \in Requests /\ r \notin GeminiRequests /\ old \in Request
      /\ site \in Sites
      /\ old.at = "stat" /\ old.at \in Running /\ old.out = <<>> /\ old.target = "self" /\ site \in old.seen
  BY HttpFacts DEF HttpStat, At, HttpProgress, Running, Steps
<1>2. ASSUME NEW a \in Answers, HttpAnswer(path, old.seen, old.ask, a), AnswerWith(r, a)
      PROVE  LookupInv'
  BY <1>1, <1>2, OneIsAnswered
<1>3. CASE path = "index" /\ AnswerWith(r, "redirect")
  <2>1. HttpAnswer(path, old.seen, old.ask, "redirect")
    BY <1>3 DEF HttpAnswer
  <2> QED BY <1>2, <1>3, <2>1 DEF Answers
<1>4. CASE path = "hidden" /\ AnswerWith(r, "forbidden")
  <2>1. HttpAnswer(path, old.seen, old.ask, "forbidden")
    BY <1>4 DEF HttpAnswer
  <2> QED BY <1>2, <1>4, <2>1 DEF Answers
<1>5. CASE path = "atom" /\ ~old.ask.slash /\ site.node = "absent" /\ AnswerWith(r, "atom")
  <2>1. HttpAnswer(path, old.seen, old.ask, "atom")
    BY <1>1, <1>5 DEF HttpAnswer
  <2> QED BY <1>2, <1>5, <2>1 DEF Answers
<1>6. CASE /\ path \notin {"index", "hidden"}
           /\ ~(path = "atom" /\ ~old.ask.slash /\ site.node = "absent")
           /\ req' = [req EXCEPT ![r].at = "statIndex", ![r].found = site.node]
           /\ UNCHANGED <<path, site>>
  <2> DEFINE q == [old EXCEPT !.at = "statIndex", !.found = site.node]
  <2>1. /\ q.at = "statIndex" /\ q.found = site.node /\ q.out = <<>> /\ q.target = "self"
        /\ q.seen = old.seen /\ q.ask = old.ask
    BY <1>1 DEF Request
  <2>2. q \in Request
    BY <1>1 DEF Request, Steps, Sites
  <2>3. req' = [req EXCEPT ![r] = q]
    BY <1>6
  <2> HIDE DEF q
  <2>4. Found(path, q.seen, q.ask, q.found)
    BY <1>1, <1>6, <2>1 DEF Found, Passed
  <2>5. HttpProgress(path, q)
    BY <2>1, <2>4 DEF HttpProgress
  <2> QED BY <1>1, <1>6, <2>1, <2>2, <2>3, <2>5, OneGoesOn
<1> QED BY <1>3, <1>4, <1>5, <1>6 DEF HttpStat

\* Only a request that found a directory was sent a redirect.
LEMMA RedirectedFromDir ==
    ASSUME NEW p, NEW q \in Request, q.out = Redirected(q),
           q.found = "dir" => Found(p, q.seen, q.ask, "dir")
    PROVE  \/ q.out = <<>>
           \/ q.out = <<"redirect">> /\ ~q.ask.slash /\ Dirs(q.seen) # {}
BY DEF Redirected, Found, Dirs

\* The second os.Stat.
LEMMA HttpStatIndexKeeps ==
    ASSUME LookupInv, NEW r \in HttpRequests, HttpStatIndex(r)
    PROVE  LookupInv'
<1> DEFINE old == req[r]
           isDir == old.found = "dir"
           missing == StatIndex(site) = "absent"
           sent == IF isDir /\ ~old.ask.slash THEN <<"redirect">> ELSE <<>>
<1>1. /\ r \in Requests /\ r \notin GeminiRequests /\ old \in Request
      /\ site \in Sites
      /\ old.at = "statIndex" /\ old.at \in Running /\ old.out = <<>> /\ old.target = "self" /\ site \in old.seen
      /\ Found(path, old.seen, old.ask, old.found)
  BY HttpFacts DEF HttpStatIndex, At, HttpProgress, Running, Steps
<1>2. sent \in Seq(Answers)
  <2>1. "redirect" \in Answers
    BY DEF Answers
  <2>2. <<>> \in Seq(Answers) /\ <<"redirect">> \in Seq(Answers)
    BY <2>1, Appended
  <2> QED BY <2>2
<1>3. CASE ~isDir /\ missing /\ AnswerWith(r, "notfound")
  <2>1. HttpAnswer(path, old.seen, old.ask, "notfound")
    <3>1. PICK s \in old.seen : Passed(path, old.ask, s) /\ old.found = s.node
      BY <1>1 DEF Found
    <3> QED BY <1>1, <1>3, <3>1 DEF HttpAnswer
  <2> QED BY <1>1, <1>3, <2>1, OneIsAnswered DEF Answers
<1>4. CASE /\ isDir /\ missing
           /\ req' = [req EXCEPT ![r].at = "list", ![r].out = sent]
           /\ UNCHANGED <<path, site>>
  <2> DEFINE q == [old EXCEPT !.at = "list", !.out = sent]
  <2>1. /\ q.at = "list" /\ q.found = "dir" /\ q.out = sent /\ q.target = "self"
        /\ q.seen = old.seen /\ q.ask = old.ask
    BY <1>1, <1>4 DEF Request
  <2>2. q \in Request
    BY <1>1, <1>2 DEF Request, Steps
  <2>3. req' = [req EXCEPT ![r] = q]
    BY <1>4
  <2> HIDE DEF q
  <2>4. q.out = Redirected(q)
    BY <1>4, <2>1 DEF Redirected
  <2>5. Listed(path, q.seen, q.ask)
    BY <1>1, <1>4, <2>1 DEF Listed
  <2>6. HttpProgress(path, q)
    BY <2>1, <2>4, <2>5 DEF HttpProgress
  <2> QED BY <1>1, <1>4, <2>1, <2>2, <2>3, <2>6, OneGoesOn
<1>5. CASE /\ ~missing
           /\ req' = [req EXCEPT ![r].at = "read", ![r].out = sent,
                                 ![r].target = IF isDir THEN "index" ELSE "self"]
           /\ UNCHANGED <<path, site>>
  <2> DEFINE target == IF isDir THEN "index" ELSE "self"
             q == [old EXCEPT !.at = "read", !.out = sent, !.target = target]
  <2>1. /\ q.at = "read" /\ q.found = old.found /\ q.out = sent /\ q.target = target
        /\ q.seen = old.seen /\ q.ask = old.ask
    BY <1>1 DEF Request
  <2>2. q \in Request
    BY <1>1, <1>2 DEF Request, Steps
  <2>3. req' = [req EXCEPT ![r] = q]
    BY <1>5
  <2> HIDE DEF q
  <2>4. q.out = Redirected(q)
    BY <2>1 DEF Redirected
  <2>5. Read(path, q.seen, q.ask, q.found, q.target)
    BY <1>1, <1>5, <2>1 DEF Read
  <2>6. HttpProgress(path, q)
    BY <2>1, <2>4, <2>5 DEF HttpProgress
  <2> QED BY <1>1, <1>5, <2>1, <2>2, <2>3, <2>6, OneGoesOn
<1> QED BY <1>3, <1>4, <1>5 DEF HttpStatIndex

\* Once the directory or its index is what will be answered with.
LEMMA GeneratedKeeps ==
    ASSUME LookupInv, NEW r \in HttpRequests, NEW a \in Answers,
           req[r].at \in {"list", "describe"}, Generated(r, a),
           a = IF path = "gemlog" THEN "feed" ELSE "folder"
    PROVE  LookupInv'
<1> DEFINE old == req[r]
<1>1. /\ r \in Requests /\ r \notin GeminiRequests /\ old \in Request
      /\ old.at \in Running /\ old.out = Redirected(old) /\ old.found = "dir" /\ old.target = "self"
      /\ Listed(path, old.seen, old.ask)
  BY HttpFacts DEF HttpProgress, Running, Steps, Described
<1>2. CASE old.ask.raw
  <2> DEFINE q == [old EXCEPT !.at = "read"]
  <2>1. /\ q.at = "read" /\ q.found = "dir" /\ q.out = old.out /\ q.target = old.target
        /\ q.seen = old.seen /\ q.ask = old.ask
    BY <1>1 DEF Request
  <2>2. q \in Request
    BY <1>1 DEF Request, Steps
  <2>3. req' = [req EXCEPT ![r] = q] /\ UNCHANGED <<path, site>>
    BY <1>2 DEF Generated, Goto
  <2> HIDE DEF q
  <2>4. q.out = Redirected(q)
    BY <1>1, <2>1 DEF Redirected
  <2>5. Read(path, q.seen, q.ask, q.found, q.target)
    <3>1. Listed(path, q.seen, q.ask) /\ q.target = "self" /\ q.ask.raw
      BY <1>1, <1>2, <2>1
    <3> QED BY <2>1, <3>1 DEF Read
  <2>6. HttpProgress(path, q)
    BY <2>1, <2>4, <2>5 DEF HttpProgress
  <2> QED BY <1>1, <2>1, <2>2, <2>3, <2>6, OneGoesOn
<1>3. CASE ~old.ask.raw
  <2>1. AnswerWith(r, a)
    BY <1>3 DEF Generated
  <2>2. HttpAnswer(path, old.seen, old.ask, a)
    BY <1>1, <1>3 DEF HttpAnswer
  <2>3. Found(path, old.seen, old.ask, "dir")
    BY <1>1 DEF Listed
  <2> QED BY <1>1, <2>1, <2>2, <2>3, RedirectedFromDir, OneIsAnswered
<1> QED BY <1>2, <1>3

LEMMA EntriesRead == ASSUME NEW s \in Sites PROVE ReadDir(s) \subseteq Entries
BY DEF ReadDir, Sites, Entries

LEMMA ListingIsRequest ==
    ASSUME NEW q \in Request, NEW entries, entries \subseteq Entries
    PROVE  [q EXCEPT !.at = "describe", !.listed = entries] \in Request
<1> PICK m : m = [q EXCEPT !.at = "describe", !.listed = entries]
  OBVIOUS
<1>1. /\ m = [at |-> "describe", ask |-> q.ask, found |-> q.found, target |-> q.target,
              listed |-> entries, seen |-> q.seen, out |-> q.out]
  BY DEF Request
<1>2. m \in Request
  BY <1>1 DEF Request, Steps
<1> QED BY <1>2

\* generateGemfeedPage and generateFolderPage.
LEMMA HttpListKeeps ==
    ASSUME LookupInv, NEW r \in HttpRequests, HttpList(r)
    PROVE  LookupInv'
<1> DEFINE old == req[r]
<1>1. /\ r \in Requests /\ r \notin GeminiRequests /\ old \in Request
      /\ old.at = "list" /\ old.at \in Running /\ site \in old.seen
      /\ old.out = Redirected(old) /\ old.found = "dir" /\ old.target = "self"
      /\ Listed(path, old.seen, old.ask)
  BY HttpFacts DEF HttpList, At, HttpProgress, Running, Steps
<1>2. CASE path = "gemlog" /\ Generated(r, "feed")
  BY <1>1, <1>2, GeneratedKeeps DEF Answers
<1>3. CASE /\ path # "gemlog"
           /\ req' = [req EXCEPT ![r].at = "describe", ![r].listed = ReadDir(site)]
           /\ UNCHANGED <<path, site>>
  <2> DEFINE q == [old EXCEPT !.at = "describe", !.listed = ReadDir(site)]
  <2>1. /\ q.at = "describe" /\ q.found = "dir" /\ q.out = old.out /\ q.target = "self"
        /\ q.listed = ReadDir(site) /\ q.seen = old.seen /\ q.ask = old.ask
    BY <1>1 DEF Request
  <2>2. q \in Request
    <3>1. old \in Request
      BY <1>1
    <3>2. ReadDir(site) \subseteq Entries
      BY HttpFacts, EntriesRead
    <3> HIDE DEF old
    <3> QED BY <3>1, <3>2, ListingIsRequest
  <2>3. req' = [req EXCEPT ![r] = q] /\ UNCHANGED <<path, site>>
    BY <1>3
  <2> HIDE DEF q
  <2>4. q.out = Redirected(q)
    BY <1>1, <2>1 DEF Redirected
  <2>5. Described(path, q.seen, q.ask, q.listed)
    BY <1>1, <1>3, <2>1 DEF Described
  <2>6. HttpProgress(path, q)
    BY <2>1, <2>4, <2>5 DEF HttpProgress
  <2> QED BY <1>1, <2>1, <2>2, <2>3, <2>6, OneGoesOn
<1> QED BY <1>2, <1>3 DEF HttpList

LEMMA HttpDescribeKeeps ==
    ASSUME LookupInv, NEW r \in HttpRequests, HttpDescribe(r)
    PROVE  LookupInv'
<1> DEFINE old == req[r]
<1>1. /\ r \in Requests /\ r \notin GeminiRequests /\ old \in Request
      /\ old.at = "describe" /\ old.at \in Running /\ site \in old.seen
      /\ old.out = Redirected(old) /\ old.found = "dir" /\ old.target = "self"
      /\ Described(path, old.seen, old.ask, old.listed)
  BY HttpFacts DEF HttpDescribe, At, HttpProgress, Running, Steps
<1>2. CASE old.listed = {} /\ Generated(r, "folder")
  <2>1. path # "gemlog"
    BY <1>1 DEF Described
  <2> QED BY <1>1, <1>2, <2>1, GeneratedKeeps DEF Answers
<1>3. ASSUME NEW e \in old.listed, e \notin ReadDir(site), AnswerWith(r, "panic")
      PROVE  LookupInv'
  <2>1. HttpAnswer(path, old.seen, old.ask, "panic")
    <3>1. e \in Entries
      BY <1>1 DEF Request
    <3>2. Described(path, old.seen, old.ask, {e})
      BY <1>1 DEF Described
    <3> HIDE DEF old
    <3> QED BY <1>1, <1>3, <3>1, <3>2 DEF HttpAnswer
  <2>2. Found(path, old.seen, old.ask, "dir")
    BY <1>1 DEF Described, Listed
  <2>3. \/ old.out = <<>>
        \/ old.out = <<"redirect">> /\ ~old.ask.slash /\ Dirs(old.seen) # {}
    BY <1>1, <2>2, RedirectedFromDir
  <2> QED BY <1>1, <1>3, <2>1, <2>3, OneIsAnswered DEF Answers
<1>4. ASSUME NEW e \in old.listed, UNCHANGED <<path, site>>,
             req' = [req EXCEPT ![r].listed = @ \ {e}]
      PROVE  LookupInv'
  <2> DEFINE q == [old EXCEPT !.listed = @ \ {e}]
  <2>1. /\ q.at = "describe" /\ q.found = "dir" /\ q.out = old.out /\ q.target = "self"
        /\ q.listed = old.listed \ {e} /\ q.seen = old.seen /\ q.ask = old.ask
    BY <1>1 DEF Request
  <2>2. q \in Request
    BY <1>1 DEF Request
  <2>3. req' = [req EXCEPT ![r] = q]
    BY <1>4
  <2> HIDE DEF q
  <2>4. q.out = Redirected(q)
    BY <1>1, <2>1 DEF Redirected
  <2>5. Described(path, q.seen, q.ask, q.listed)
    BY <1>1, <2>1 DEF Described
  <2>6. HttpProgress(path, q)
    BY <2>1, <2>4, <2>5 DEF HttpProgress
  <2> QED BY <1>1, <1>4, <2>1, <2>2, <2>3, <2>6, OneGoesOn
<1> QED BY <1>2, <1>3, <1>4 DEF HttpDescribe

\* The conversion of a page, or http.ServeFile.
LEMMA HttpReadKeeps ==
    ASSUME LookupInv, NEW r \in HttpRequests, HttpRead(r)
    PROVE  LookupInv'
<1> DEFINE old == req[r]
           a == Served(path, old.ask, old.found, old.target, site)
<1>1. /\ r \in Requests /\ r \notin GeminiRequests /\ old \in Request
      /\ old.at = "read" /\ old.at \in Running /\ site \in old.seen
      /\ old.out = Redirected(old)
      /\ Read(path, old.seen, old.ask, old.found, old.target)
  BY HttpFacts DEF HttpRead, At, HttpProgress, Running, Steps
<1>2. a \in Answers
  BY DEF Served, What, Answers
<1>3. AnswerWith(r, a)
  BY DEF HttpRead, Served, What
<1>4. HttpAnswer(path, old.seen, old.ask, a)
  <2>1. old.found \in {"absent", "below", "file", "dir"} /\ old.target \in {"self", "index"}
    BY <1>1 DEF Request
  <2> HIDE DEF old
  <2> QED BY <1>1, <2>1 DEF HttpAnswer
<1>5. old.found = "dir" => Found(path, old.seen, old.ask, "dir")
  BY <1>1 DEF Read, Listed
<1> HIDE DEF a
<1>6. \/ old.out = <<>>
      \/ old.out = <<"redirect">> /\ ~old.ask.slash /\ Dirs(old.seen) # {}
  BY <1>1, <1>5, RedirectedFromDir
<1> QED BY <1>1, <1>2, <1>3, <1>4, <1>6, OneIsAnswered

\* gmiPage up to gmi.ServeFile, and that.
LEMMA GeminiStatKeeps ==
    ASSUME LookupInv, NEW r \in GeminiRequests, GeminiStat(r)
    PROVE  LookupInv'
<1> DEFINE old == req[r]
<1>1. /\ r \in Requests /\ r \notin HttpRequests /\ old \in Request
      /\ site \in Sites
      /\ old.at = "stat" /\ old.at \in Running /\ old.out = <<>> /\ site \in old.seen
  BY GeminiFacts DEF GeminiStat, At, GeminiProgress, Running, Steps
<1>2. ASSUME NEW a \in Answers, GeminiAnswer(path, old.seen, a), AnswerWith(r, a)
      PROVE  LookupInv'
  BY <1>1, <1>2, OneIsAnswered
<1>3. CASE path = "hidden" /\ AnswerWith(r, "notfound")
  <2>1. GeminiAnswer(path, old.seen, "notfound")
    BY <1>3 DEF GeminiAnswer
  <2> QED BY <1>2, <1>3, <2>1 DEF Answers
<1>4. CASE path = "gemlog" /\ ~site.index /\ AnswerWith(r, "feed")
  <2>1. GeminiAnswer(path, old.seen, "feed")
    BY <1>1, <1>4 DEF GeminiAnswer
  <2> QED BY <1>2, <1>4, <2>1 DEF Answers
<1>5. CASE path = "atom" /\ site.node \notin {"file", "dir"} /\ AnswerWith(r, "atom")
  <2>1. GeminiAnswer(path, old.seen, "atom")
    BY <1>1, <1>5 DEF GeminiAnswer
  <2> QED BY <1>2, <1>5, <2>1 DEF Answers
<1>6. CASE /\ path # "hidden"
           /\ path = "gemlog" => site.index
           /\ path = "atom" => site.node \in {"file", "dir"}
           /\ Goto(r, "read")
  <2> DEFINE q == [old EXCEPT !.at = "read"]
  <2>1. q.at = "read" /\ q.out = <<>> /\ q.seen = old.seen
    BY <1>1 DEF Request
  <2>2. q \in Request
    BY <1>1 DEF Request, Steps
  <2>3. req' = [req EXCEPT ![r] = q] /\ UNCHANGED <<path, site>>
    BY <1>6 DEF Goto
  <2> HIDE DEF q
  <2>4. GeminiRead(path, q.seen)
    BY <1>1, <1>6, <2>1 DEF GeminiRead
  <2>5. GeminiProgress(path, q)
    BY <2>1, <2>4 DEF GeminiProgress, Steps
  <2> QED BY <1>1, <2>1, <2>2, <2>3, <2>5, OneGoesOn
<1> QED BY <1>3, <1>4, <1>5, <1>6 DEF GeminiStat

LEMMA GeminiServeFileKeeps ==
    ASSUME LookupInv, NEW r \in GeminiRequests, GeminiServeFile(r)
    PROVE  LookupInv'
<1> DEFINE old == req[r]
           a == GeminiFile(path, site)
<1>1. /\ r \in Requests /\ r \notin HttpRequests
      /\ old.at \in Running /\ old.out = <<>> /\ site \in old.seen
      /\ GeminiRead(path, old.seen)
  BY GeminiFacts DEF GeminiServeFile, At, GeminiProgress, Running, Steps
<1>2. a \in Answers
  BY DEF GeminiFile, Answers
<1>3. AnswerWith(r, a)
  BY DEF GeminiServeFile, GeminiFile
<1>4. GeminiAnswer(path, old.seen, a)
  BY <1>1 DEF GeminiAnswer
<1> HIDE DEF a
<1> QED BY <1>1, <1>2, <1>3, <1>4, OneIsAnswered

(***************************************************************************)
(* The inductive invariant: however many requests run, and whatever        *)
(* changes between the calls of userFile and of gmiPage, each decision a   *)
(* request has taken rests on a site there was since it began, and the     *)
(* sites it has seen are of two kinds only if nothing was there in         *)
(* between.                                                                *)
(***************************************************************************)
THEOREM EveryAnswerIsWitnessed == LookupSpec => []LookupInv
<1>1. LookupInv /\ [LookupNext]_lookupVars => LookupInv'
  <2> SUFFICES ASSUME LookupInv, [LookupNext]_lookupVars PROVE LookupInv'
    OBVIOUS
  <2>1. CASE \E r \in Requests, ask \in Asks : Begin(r, ask)
    BY <2>1, BeginKeeps
  <2>2. CASE \E s \in Sites : Change(s)
    BY <2>2, ChangeKeeps
  <2>3. CASE \E r \in HttpRequests : Http(r)
    BY <2>3, HttpStatKeeps, HttpStatIndexKeeps, HttpListKeeps, HttpDescribeKeeps, HttpReadKeeps
       DEF Http
  <2>4. CASE \E r \in GeminiRequests : Gemini(r)
    BY <2>4, GeminiStatKeeps, GeminiServeFileKeeps DEF Gemini
  <2>5. CASE UNCHANGED lookupVars
    BY <2>5 DEF lookupVars, LookupInv, LookupTyped, Witnessed, HttpProgress, GeminiProgress
  <2> QED BY <2>1, <2>2, <2>3, <2>4, <2>5 DEF LookupNext
<1> QED BY <1>1, InitLookup, PTL DEF LookupSpec

-------------------------------------------------------------------------------
\* The last answer of a request that is done has its witnesses.
LEMMA HttpIsDone ==
    ASSUME LookupInv, NEW r \in HttpRequests, Done(r)
    PROVE  /\ HttpAnswer(path, req[r].seen, req[r].ask, Last(r))
           /\ Connected(req[r].seen) /\ req[r].seen \in SUBSET Sites
           /\ \/ Len(req[r].out) = 1
              \/ /\ Len(req[r].out) = 2 /\ Head(req[r].out) = "redirect"
                 /\ ~req[r].ask.slash /\ Dirs(req[r].seen) # {}
<1>1. r \in Requests
  BY DEF Requests
<1>2. Connected(req[r].seen) /\ req[r].seen \in SUBSET Sites
  BY <1>1 DEF LookupInv, LookupTyped, Witnessed, Request
<1>3. PICK a \in Answers :
         /\ HttpAnswer(path, req[r].seen, req[r].ask, a)
         /\ \/ req[r].out = <<a>>
            \/ req[r].out = Append(<<"redirect">>, a) /\ ~req[r].ask.slash /\ Dirs(req[r].seen) # {}
  BY DEF LookupInv, HttpProgress, Done, At
<1>4. "redirect" \in Answers
  BY DEF Answers
<1>5. CASE req[r].out = <<a>>
  <2>1. Len(req[r].out) = 1 /\ req[r].out[1] = a
    BY <1>5, Appended
  <2> QED BY <1>2, <1>3, <2>1 DEF Last
<1>6. CASE req[r].out = Append(<<"redirect">>, a) /\ ~req[r].ask.slash /\ Dirs(req[r].seen) # {}
  <2>1. Len(req[r].out) = 2 /\ req[r].out[2] = a /\ Head(req[r].out) = "redirect"
    BY <1>4, <1>6, Appended
  <2> QED BY <1>2, <1>3, <1>6, <2>1 DEF Last
<1> QED BY <1>3, <1>5, <1>6

LEMMA GeminiIsDone ==
    ASSUME LookupInv, NEW r \in GeminiRequests, Done(r)
    PROVE  GeminiAnswer(path, req[r].seen, Last(r)) /\ Len(req[r].out) = 1
<1>1. PICK a \in Answers : GeminiAnswer(path, req[r].seen, a) /\ req[r].out = <<a>>
  BY DEF LookupInv, GeminiProgress, Done, At
<1>2. Len(req[r].out) = 1 /\ req[r].out[1] = a
  BY <1>1, Appended
<1> QED BY <1>1, <1>2 DEF Last

\* What the invariant says of the four properties.  First what an index is owed.
LEMMA IndexIsOwed ==
    ASSUME NEW s \in Sites, NEW ask, path \notin {"index", "hidden"}, s.index
    PROVE  Owed(s, ask) = "index"
<1>1. s.node = "dir"
  BY DEF Sites
<1> QED BY <1>1 DEF Owed

\* With one site seen, every way to answer leads to what that site owes.
LEMMA AnswerIsOwed ==
    ASSUME NEW s \in Sites, NEW ask \in Asks, NEW a,
           HttpAnswer(path, {s}, ask, a)
    PROVE  a = Owed(s, ask)
<1> USE DEF Sites, Passed, Found, Listed, StatIndex, Owed
<1>1. CASE path = "index" /\ a = "redirect"
  BY <1>1
<1>2. CASE path = "hidden" /\ a = "forbidden"
  BY <1>2
<1>3. CASE path = "atom" /\ ~ask.slash /\ a = "atom" /\ s.node = "absent"
  BY <1>3
<1>4. CASE /\ a = "notfound"
           /\ Passed(path, ask, s) /\ s.node # "dir" /\ StatIndex(s) = "absent"
  BY <1>4
<1>5. CASE ~ask.raw /\ Listed(path, {s}, ask) /\ a = IF path = "gemlog" THEN "feed" ELSE "folder"
  BY <1>5
<1>6. \A e \in Entries \ ReadDir(s) : ~Described(path, {s}, ask, {e})
  BY DEF Described
<1>7. ASSUME NEW found \in {"absent", "below", "file", "dir"}, NEW target \in {"self", "index"},
             Read(path, {s}, ask, found, target), a = Served(path, ask, found, target, s)
      PROVE  a = Owed(s, ask)
  <2>1. CASE ask.raw /\ Listed(path, {s}, ask) /\ found = "dir" /\ target = "self"
    BY <1>7, <2>1 DEF Served, What
  <2>2. CASE /\ Passed(path, ask, s) /\ found = s.node
             /\ StatIndex(s) # "absent"
             /\ target = IF found = "dir" THEN "index" ELSE "self"
    <3>1. CASE s.node = "dir"
      <4>1. s.index /\ target = "index" /\ found = "dir"
        BY <2>2, <3>1
      <4>2. a = "index"
        BY <1>7, <4>1 DEF Served, What
      <4>3. path \notin {"index", "hidden"} /\ s.node # "file"
        BY <2>2, <3>1
      <4>4. Owed(s, ask) = "index"
        BY <4>1, <4>3, IndexIsOwed
      <4> QED BY <4>2, <4>4
    <3>2. CASE s.node = "file"
      BY <1>7, <2>2, <3>2 DEF Served, What
    <3>3. CASE s.node = "below"
      BY <1>7, <2>2, <3>3 DEF Served, What
    <3> QED BY <2>2, <3>1, <3>2, <3>3
  <2> QED BY <1>7, <2>1, <2>2 DEF Read
<1> QED BY <1>1, <1>2, <1>3, <1>4, <1>5, <1>6, <1>7 DEF HttpAnswer

LEMMA UnchangedHolds == LookupInv => UnchangedIsServed
<1> SUFFICES ASSUME LookupInv, NEW r \in HttpRequests, NEW s \in Sites,
                    Done(r), req[r].seen = {s}
             PROVE  Last(r) = Owed(s, req[r].ask)
  BY DEF UnchangedIsServed
<1>1. HttpAnswer(path, {s}, req[r].ask, Last(r))
  BY HttpIsDone
<1>2. req[r].ask \in Asks
  BY DEF LookupInv, LookupTyped, Request, Requests
<1> QED BY <1>1, <1>2, AnswerIsOwed

LEMMA NotFoundHolds == LookupInv => NotFoundWasMissing
<1> SUFFICES ASSUME LookupInv, NEW r \in HttpRequests, Done(r), Last(r) = "notfound"
             PROVE  \/ \E s \in req[r].seen : s.node \in {"absent", "below"}
                    \/ req[r].ask.raw /\ \E s, t \in req[r].seen : s.index /\ ~t.index
  BY DEF NotFoundWasMissing
<1> DEFINE S == req[r].seen
           ask == req[r].ask
           Goal == \/ \E s \in S : s.node \in {"absent", "below"}
                   \/ ask.raw /\ \E s, t \in S : s.index /\ ~t.index
<1>1. HttpAnswer(path, S, ask, "notfound") /\ Connected(S) /\ S \in SUBSET Sites
  BY HttpIsDone
<1>2. ASSUME NEW s \in S, NEW t \in S, s.node # "dir", StatIndex(t) = "absent"
      PROVE  Goal
  BY <1>1, <1>2 DEF Connected, StatIndex, Sites
<1>3. ASSUME NEW found \in {"absent", "below", "file", "dir"}, NEW target \in {"self", "index"},
             NEW u \in S, Read(path, S, ask, found, target),
             Served(path, ask, found, target, u) = "notfound"
      PROVE  Goal
  <2>1. What(target, u) = "notfound" /\ (ask.raw \/ target = "self")
    BY <1>3 DEF Served, What
  <2>2. CASE target = "self"
    BY <1>1, <2>1, <2>2 DEF What, Sites
  <2>3. CASE target = "index"
    <3>1. ask.raw /\ ~u.index
      BY <2>1, <2>3 DEF What
    <3>2. PICK s \in S, t \in S : s.node = "dir" /\ StatIndex(t) # "absent"
      BY <1>3, <2>3 DEF Read, Found
    <3>3. CASE t.index
      BY <3>1, <3>3
    <3>4. CASE ~t.index
      <4>1. s.node # t.node
        BY <1>1, <3>2, <3>4 DEF StatIndex
      <4> QED BY <1>1, <4>1 DEF Connected
    <3> QED BY <3>3, <3>4
  <2> QED BY <2>2, <2>3
<1> HIDE DEF S, ask, Goal
<1>4. Goal
  BY <1>1, <1>2, <1>3 DEF HttpAnswer
<1> QED BY <1>4 DEF Goal, S, ask

LEMMA PanicHolds == LookupInv => PanicHasACause
<1> SUFFICES ASSUME LookupInv, NEW r \in HttpRequests, Done(r), Last(r) = "panic"
             PROVE  \/ \E s \in req[r].seen : s.node = "below"
                    \/ \E s, t \in req[r].seen : s.node = "absent" /\ t.node # "absent"
                    \/ /\ path # "gemlog"
                       /\ \E s \in req[r].seen : s.node \in {"absent", "dir"} /\ ~s.index
                       /\ \E s, t \in req[r].seen : ~(ReadDir(s) \subseteq ReadDir(t))
  BY DEF PanicHasACause
<1> DEFINE S == req[r].seen
           ask == req[r].ask
           Goal == \/ \E s \in S : s.node = "below"
                   \/ \E s, t \in S : s.node = "absent" /\ t.node # "absent"
                   \/ /\ path # "gemlog"
                      /\ \E s \in S : s.node \in {"absent", "dir"} /\ ~s.index
                      /\ \E s, t \in S : ~(ReadDir(s) \subseteq ReadDir(t))
<1>1. HttpAnswer(path, S, ask, "panic") /\ S \in SUBSET Sites
  BY HttpIsDone
<1>2. ASSUME NEW u \in S, NEW e \in Entries \ ReadDir(u), Described(path, S, ask, {e})
      PROVE  Goal
  <2>1. PICK t \in S : e \in ReadDir(t)
    BY <1>2 DEF Described
  <2>2. PICK s \in S : StatIndex(s) = "absent"
    BY <1>2 DEF Described, Listed
  <2>3. s.node \in {"absent", "dir"} /\ ~s.index
    BY <2>2 DEF StatIndex
  <2> QED BY <1>2, <2>1, <2>3 DEF Described
<1>3. ASSUME NEW found \in {"absent", "below", "file", "dir"}, NEW target \in {"self", "index"},
             NEW u \in S, Read(path, S, ask, found, target),
             Served(path, ask, found, target, u) = "panic"
      PROVE  Goal
  <2>1. found \in {"absent", "below"}
    BY <1>3 DEF Served, What
  <2>2. PICK s \in S, t \in S : found = s.node /\ StatIndex(t) # "absent"
    BY <1>3, <2>1 DEF Read, Found
  <2>3. t.node # "absent"
    BY <1>1, <2>2 DEF StatIndex, Sites
  <2> QED BY <2>1, <2>2, <2>3
<1> HIDE DEF S, ask, Goal
<1>4. Goal
  BY <1>1, <1>2, <1>3 DEF HttpAnswer
<1> QED BY <1>4 DEF Goal, S, ask

LEMMA SameFileHolds == LookupInv => SameFileOverBoth
<1> SUFFICES ASSUME LookupInv,
                    NEW h \in HttpRequests, NEW g \in GeminiRequests, NEW s \in Sites,
                    Done(h), req[h].seen = {s}, Done(g), req[g].seen = {s},
                    path \notin {"index", "hidden"},
                    s.node = "file" => path \notin {"gemlog", "root"},
                    {Last(h), Last(g)} \cap {"file", "index"} # {}
             PROVE  Last(h) = Last(g)
  BY DEF SameFileOverBoth
<1> DEFINE a == Last(h)
           b == Last(g)
           ask == req[h].ask
<1>1. a = Owed(s, ask)
  BY UnchangedHolds DEF UnchangedIsServed
<1>2. GeminiAnswer(path, {s}, b)
  BY GeminiIsDone
<1> HIDE DEF a, b, ask
<1>3. a \in {"file", "index"} \/ b \in {"file", "index"}
  BY DEF a, b
<1>4. CASE s.node = "file"
  <2>1. ~s.index /\ a = "file"
    BY <1>1, <1>4 DEF Owed, Sites
  <2>2. b = "file"
    BY <1>2, <1>4 DEF GeminiAnswer, GeminiFile
  <2> QED BY <2>1, <2>2 DEF a, b
<1>5. CASE s.index
  <2>1. s.node = "dir" /\ a = "index"
    BY <1>1, <1>5 DEF Owed, Sites
  <2>2. b = "index"
    BY <1>2, <1>5, <2>1 DEF GeminiAnswer, GeminiFile
  <2> QED BY <2>1, <2>2 DEF a, b
<1>6. CASE s.node # "file" /\ ~s.index
  <2>1. a \notin {"file", "index"}
    BY <1>1, <1>6 DEF Owed, Sites
  <2>2. b \notin {"file", "index"}
    BY <1>2, <1>6 DEF GeminiAnswer, GeminiFile
  <2> QED BY <1>3, <2>1, <2>2
<1> QED BY <1>4, <1>5, <1>6

(***************************************************************************)
(* A request over HTTP during which nothing changes at its path is given   *)
(* what the site owes it (userFile).                                       *)
(***************************************************************************)
THEOREM UnchangedSiteIsServed == LookupSpec => []UnchangedIsServed
BY EveryAnswerIsWitnessed, UnchangedHolds, PTL

(***************************************************************************)
(* Not found is the answer over HTTP only if there was nothing at some     *)
(* time in the request, or the index of a directory went away under a raw  *)
(* one (userFile).                                                         *)
(***************************************************************************)
THEOREM NotFoundHasACause == LookupSpec => []NotFoundWasMissing
BY EveryAnswerIsWitnessed, NotFoundHolds, PTL

(***************************************************************************)
(* userFile ends in a panic only below a regular file, when the page came  *)
(* between two calls, or when a file went from a directory that is listed. *)
(***************************************************************************)
THEOREM PanicOnlyUnderChange == LookupSpec => []PanicHasACause
BY EveryAnswerIsWitnessed, PanicHolds, PTL

(***************************************************************************)
(* For one unchanged site userFile and gmiPage answer with the same file   *)
(* or index wherever one of them does, but for the paths the property      *)
(* names.                                                                  *)
(***************************************************************************)
THEOREM ProtocolsServeOneFile == LookupSpec => []SameFileOverBoth
BY EveryAnswerIsWitnessed, SameFileHolds, PTL
===============================================================================
