-------------------------------- MODULE Vdf --------------------------------
(***************************************************************************)
(* vdf.Parse and vdf.ParseBinary (src/vdf): one document, read from its    *)
(* start.  The tree is the list of its nodes in document order, each with  *)
(* its depth; an action is one turn of the loop that reads children.       *)
(*                                                                         *)
(* A text is a sequence of characters.  A binary document is a sequence of *)
(* bytes, its letters bytes above the tags; a number has Half or Full      *)
(* bytes where the code has 4 and 8.                                       *)
(***************************************************************************)
EXTENDS Integers, Sequences, FiniteSets, FiniteSetsExt, SequencesExt

CONSTANTS
  TextListings, BinaryListings,  \* what Steam may mean, for each parser
  RawTexts, RawBytes,            \* other input
  Half, Full                     \* bytes of a 32 bit and of a 64 bit number

VARIABLES
  format,     \* which parser runs: "text" or "binary"
  src,        \* the document
  pos,        \* the next character
  nodes,      \* the nodes read
  depth,      \* how many blocks are open
  parsed,     \* how it ended, or "reading"
  meant       \* the listing it was made from, in a set, or none

vdfVars == <<format, src, pos, nodes, depth, parsed, meant>>

Block == [block |-> TRUE]
Text(token) == [text |-> token]
Node(key, value) == [depth |-> depth, key |-> key, value |-> value]
AtEnd(p) == p > Len(src)

----------------------------------------------------------------------------
\* Text: skipSpace and token, from position p.

NUL    == "nul"
Space  == " "
Quote  == "\""
LBrace == "{"
RBrace == "}"
Stops  == {Space, "\t", "\r", "\n", LBrace, RBrace}
Blanks == {Space, "\t", "\r", "\n", NUL}

Comment(p) == p < Len(src) /\ src[p] = "/" /\ src[p + 1] = "/"

\* The first position from p on with one of these characters, or the end.
NextOf(chars, p) == Min({k \in p .. Len(src) : src[k] \in chars} \cup {Len(src) + 1})

Skipping ==
  LET skip[k \in 1 .. Len(src) + 1] ==
        IF AtEnd(k) THEN k
        ELSE IF src[k] \in Blanks THEN skip[k + 1]
        ELSE IF Comment(k) THEN skip[NextOf({"\n"}, k)] ELSE k
  IN  skip

SkipSpace(p) == Skipping[p]

NoToken == [ok |-> FALSE, next |-> 0, token |-> <<>>]

Plain(p) ==
  LET end == NextOf(Stops, p)
  IN  [ok |-> TRUE, next |-> end, token |-> SubSeq(src, p, end - 1)]

\* Mutant: an escaped character is not looked at.
EscapedIgnored(c) == c

Escaped(c) == CASE c = "n" -> "\n" [] c = "t" -> "\t" [] c = "r" -> "\r" [] OTHER -> c

Prefixed(c, rest) == [rest EXCEPT !.token = <<c>> \o @]

\* The rest of a string in quotes, from each position.
Quoting ==
  LET read[k \in 2 .. Len(src) + 2] ==
        IF AtEnd(k) THEN NoToken
        ELSE CASE src[k] = Quote -> [ok |-> TRUE, next |-> k + 1, token |-> <<>>]
               [] src[k] = "\\" -> IF AtEnd(k + 1) THEN NoToken
                                   ELSE Prefixed(Escaped(src[k + 1]), read[k + 2])
               [] OTHER         -> Prefixed(src[k], read[k + 1])
  IN  read

Quoted(p) == Quoting[p + 1]

\* Mutant: a brace is an empty token.
EmptyToken(p) ==
  IF AtEnd(p) THEN NoToken
  ELSE IF src[p] = Quote THEN Quoted(p) ELSE Plain(p)

TokenAt(p) ==
  IF AtEnd(p) \/ src[p] \in {LBrace, RBrace} THEN NoToken
  ELSE IF src[p] = Quote THEN Quoted(p) ELSE Plain(p)

Token(p) == TokenAt(SkipSpace(p))

----------------------------------------------------------------------------
\* Both parsers.

Ends(how) == parsed' = how /\ UNCHANGED <<format, src, pos, nodes, depth, meant>>

Goes(node, open, next) ==
  /\ nodes' = Append(nodes, node) /\ depth' = depth + open /\ pos' = next
  /\ UNCHANGED <<format, src, parsed, meant>>

Closes(next) ==
  /\ depth' = depth - 1 /\ pos' = next
  /\ UNCHANGED <<format, src, nodes, parsed, meant>>

\* Parse, and pair for the node that comes next.

Reads(kind) == format = kind /\ parsed = "reading"

Here == SkipSpace(pos)
BlockEnds == depth > 0 /\ ~AtEnd(Here) /\ src[Here] = RBrace
Key    == Token(pos)
After  == SkipSpace(Key.next)
Opens  == src[After] = LBrace
Value  == Token(Key.next)

TextEnds == Reads("text") /\ AtEnd(Here) /\ Ends(IF depth = 0 THEN "ok" ELSE "error")

TextBlockEnds == Reads("text") /\ BlockEnds /\ Closes(Here + 1)

TextBlock ==
  /\ Reads("text") /\ ~AtEnd(Here) /\ ~BlockEnds
  /\ Key.ok /\ ~AtEnd(After) /\ Opens
  /\ Goes(Node(Key.token, Block), 1, After + 1)

TextLeaf ==
  /\ Reads("text") /\ ~AtEnd(Here) /\ ~BlockEnds
  /\ Key.ok /\ ~AtEnd(After) /\ ~Opens /\ Value.ok
  /\ Goes(Node(Key.token, Text(Value.token)), 0, Value.next)

TextBad ==
  /\ Reads("text") /\ ~AtEnd(Here) /\ ~BlockEnds
  /\ \/ ~Key.ok
     \/ Key.ok /\ AtEnd(After)
     \/ Key.ok /\ ~AtEnd(After) /\ ~Opens /\ ~Value.ok
  /\ Ends("error")

----------------------------------------------------------------------------
\* ParseBinary, and node for the node that comes next.

Zero == 0
Tags == [string |-> {1, 5}, int32 |-> {2, 4, 6}, float32 |-> {3},
         uint64 |-> {7}, int64 |-> {10}]
EndTags == {8, 11}

\* cstring: the bytes before the next zero.
Cstring(p) ==
  LET end == NextOf({Zero}, p)
  IN  IF AtEnd(end) THEN NoToken
      ELSE [ok |-> TRUE, next |-> end + 1, token |-> SubSeq(src, p, end - 1)]

\* take, and the little-endian number in the bytes taken.
Take(p, n) ==
  IF p + n - 1 > Len(src) THEN NoToken
  ELSE [ok |-> TRUE, next |-> p + n, token |-> SubSeq(src, p, p + n - 1)]

Unsigned(bytes) ==
  LET from[k \in 1 .. Len(bytes) + 1] ==
        IF k > Len(bytes) THEN 0 ELSE bytes[k] + 256 * from[k + 1]
  IN  from[1]

\* How many numbers so many bytes can hold.
Numbers(width) ==
  LET power[n \in 0 .. width] == IF n = 0 THEN 1 ELSE 256 * power[n - 1]
  IN  power[width]

Signed(bytes) ==
  IF Last(bytes) < 128 THEN Unsigned(bytes) ELSE Unsigned(bytes) - Numbers(Len(bytes))

UintOf(bytes)  == [number |-> Unsigned(bytes)]
IntOf(bytes)   == [number |-> Signed(bytes)]
FloatOf(bytes) == [float |-> bytes]

As(Form(_), taken) == IF taken.ok THEN [taken EXCEPT !.token = Form(@)] ELSE taken

BinaryKey == Cstring(pos + 1)
BinaryValue ==
  LET tag == src[pos]
      p   == BinaryKey.next
  IN  CASE tag \in Tags.string  -> As(Text, Cstring(p))
        [] tag \in Tags.int32   -> As(IntOf, Take(p, Half))
        [] tag \in Tags.float32 -> As(FloatOf, Take(p, Half))
        [] tag \in Tags.uint64  -> As(UintOf, Take(p, Full))
        [] tag \in Tags.int64   -> As(IntOf, Take(p, Full))
        [] OTHER                -> NoToken

EndTag == ~AtEnd(pos) /\ src[pos] \in EndTags

\* An end tag outside every block ends the document, whatever comes after it.
BinaryEnds ==
  /\ Reads("binary")
  /\ AtEnd(pos) \/ (EndTag /\ depth = 0)
  /\ Ends(IF depth = 0 THEN "ok" ELSE "error")

BinaryBlockEnds == Reads("binary") /\ EndTag /\ depth > 0 /\ Closes(pos + 1)

BinaryBlock ==
  /\ Reads("binary") /\ ~AtEnd(pos) /\ ~EndTag
  /\ src[pos] = Zero /\ BinaryKey.ok
  /\ Goes(Node(BinaryKey.token, Block), 1, BinaryKey.next)

BinaryLeaf ==
  /\ Reads("binary") /\ ~AtEnd(pos) /\ ~EndTag
  /\ src[pos] # Zero /\ BinaryKey.ok /\ BinaryValue.ok
  /\ Goes(Node(BinaryKey.token, BinaryValue.token), 0, BinaryValue.next)

BinaryBad ==
  /\ Reads("binary") /\ ~AtEnd(pos) /\ ~EndTag
  /\ \/ ~BinaryKey.ok
     \/ BinaryKey.ok /\ src[pos] # Zero /\ ~BinaryValue.ok
  /\ Ends("error")

VdfNext ==
  \/ TextEnds \/ TextBlockEnds \/ TextBlock \/ TextLeaf \/ TextBad
  \/ BinaryEnds \/ BinaryBlockEnds \/ BinaryBlock \/ BinaryLeaf \/ BinaryBad

----------------------------------------------------------------------------
\* What Steam writes: a text in one of several styles, or bytes.

IsBlock(node) == node.value = Block

\* How many blocks end before the k-th node, or after the last.
Ended(listing, k) ==
  LET was == IF k = 1 THEN 0
             ELSE listing[k - 1].depth + (IF IsBlock(listing[k - 1]) THEN 1 ELSE 0)
  IN  was - (IF k > Len(listing) THEN 0 ELSE listing[k].depth)

WellNested(listing) == \A k \in 1 .. Len(listing) : Ended(listing, k) >= 0

\* What a listing is made of; the code has 4 and 8 bytes in a number.
Octets == 0 .. 255
Letters == 1 .. 255
Listings(keys, values) == Seq([depth : Nat, key : keys, value : values \cup {Block}])

ASSUME VdfAssumption ==
  /\ RawTexts \subseteq Seq(STRING) /\ RawBytes \subseteq Seq(Octets)
  /\ Half \in Nat \ {0} /\ Full \in Nat \ {0}
  /\ TextListings \subseteq Listings(Seq(STRING), [text : Seq(STRING)])
  /\ BinaryListings \subseteq Listings(Seq(Letters), [text : Seq(Letters)] \cup [number : Int])
  /\ \A listing \in TextListings \cup BinaryListings : WellNested(listing)

Repeat(n, s) == FlattenSeq([k \in 1 .. n |-> s])

Written(listing, Open(_), Leaf(_), close) ==
  FlattenSeq([k \in 1 .. Len(listing) + 1 |->
    Repeat(Ended(listing, k), close) \o
      (IF k > Len(listing) THEN <<>>
       ELSE IF IsBlock(listing[k]) THEN Open(listing[k]) ELSE Leaf(listing[k]))])

InQuotes(token) ==
  <<Quote>> \o FlattenSeq([k \in 1 .. Len(token) |->
              CASE token[k] \in {Quote, "\\"} -> <<"\\", token[k]>>
                [] token[k] = "\n"           -> <<"\\", "n">>
                [] OTHER                     -> <<token[k]>>]) \o <<Quote>>

TextOf(listing, space) ==
  Written(listing,
          LAMBDA n : InQuotes(n.key) \o space \o <<LBrace>> \o space,
          LAMBDA n : InQuotes(n.key) \o space \o InQuotes(n.value.text) \o space,
          space \o <<RBrace>>)

Spaces == {<<>>, <<Space>>, <<"\n", "/", "/", Quote, "\n">>}

Bytes(n, width) ==
  [k \in 1 .. width |-> ((n % Numbers(width)) \div Numbers(k - 1)) % 256]

Fits(n, tag) ==
  CASE tag = 2  -> 2 * n \in -Numbers(Half) .. Numbers(Half) - 1
    [] tag = 7  -> n \in 0 .. Numbers(Full) - 1
    [] tag = 10 -> 2 * n \in -Numbers(Full) .. Numbers(Full) - 1

IsNumber(value) == DOMAIN value = {"number"}

Tagged(value, tag) == IF IsNumber(value) THEN tag ELSE 1

BytesOf(listing, tag) ==
  Written(listing,
          LAMBDA n : <<0>> \o n.key \o <<0>>,
          LAMBDA n : <<Tagged(n.value, tag)>> \o n.key \o <<0>> \o
                     (IF IsNumber(n.value)
                      THEN Bytes(n.value.number, IF tag = 2 THEN Half ELSE Full)
                      ELSE n.value.text \o <<0>>),
          <<8>>)

VdfInit ==
  /\ pos = 1 /\ nodes = <<>> /\ depth = 0 /\ parsed = "reading"
  /\ \/ /\ format = "text" /\ meant = {} /\ src \in RawTexts
     \/ /\ format = "binary" /\ meant = {} /\ src \in RawBytes
     \/ \E listing \in TextListings, space \in Spaces :
          format = "text" /\ meant = {listing} /\ src = TextOf(listing, space)
     \/ \E listing \in BinaryListings, tag \in {2, 7, 10}, end \in EndTags :
          /\ \A k \in 1 .. Len(listing) :
               ~IsBlock(listing[k]) /\ IsNumber(listing[k].value) =>
                 Fits(listing[k].value.number, tag)
          /\ format = "binary" /\ meant = {listing}
          /\ src = BytesOf(listing, tag) \o <<end>>

VdfSpec == VdfInit /\ [][VdfNext]_vdfVars

----------------------------------------------------------------------------
\* A document that means something is read as what it means, whatever its
\* values hold and however it is laid out, and a number comes back with its
\* sign; and no document is refused (vdf.go:74-194, binary.go:29-135).
ReadsBack ==
  meant # {} => /\ parsed # "error"
                /\ parsed = "ok" => nodes \in meant

\* What a text holds, read one character at a time: its braces and its tokens.
Between(s, text, k) ==
  CASE text[k] \in Blanks -> [s EXCEPT !.mode = "between"]
    [] text[k] = LBrace   -> [s EXCEPT !.mode = "between", !.opened = @ + 1]
    [] text[k] = RBrace   -> [s EXCEPT !.mode = "between", !.closed = @ + 1,
                                       !.stray = @ \/ s.closed >= s.opened]
    [] text[k] = Quote    -> [s EXCEPT !.mode = "quoted", !.tokens = @ + 1]
    [] text[k] = "/" /\ k < Len(text) /\ text[k + 1] = "/"
                          -> [s EXCEPT !.mode = "comment"]
    [] OTHER              -> [s EXCEPT !.mode = "plain", !.tokens = @ + 1]

Add(s, text, k) ==
  CASE s.mode = "between" \/ (s.mode = "plain" /\ text[k] \in Stops) -> Between(s, text, k)
    [] s.mode = "quoted" /\ text[k] = Quote  -> [s EXCEPT !.mode = "between"]
    [] s.mode = "quoted" /\ text[k] = "\\"  -> [s EXCEPT !.mode = "escape"]
    [] s.mode = "escape"                    -> [s EXCEPT !.mode = "quoted"]
    [] s.mode = "comment" /\ text[k] = "\n" -> [s EXCEPT !.mode = "between"]
    [] OTHER                                -> s

Scanning(text) ==
  LET scan[k \in 0 .. Len(text)] ==
        IF k = 0 THEN [mode |-> "between", opened |-> 0, closed |-> 0, tokens |-> 0, stray |-> FALSE]
        ELSE Add(scan[k - 1], text, k)
  IN  scan

Scan(text) == Scanning(text)[Len(text)]

\* A text that is accepted is accepted whole: every brace in it opens or ends a
\* block of the tree, every token is a key or a value of it.  A brace where there
\* is no block, or a block, a string or an escape that does not end, is an error;
\* and no node is made of nothing, for ever (vdf.go:112-150).
Accounted ==
  /\ Len(nodes) < pos
  /\ format = "text" /\ parsed = "ok" =>
       LET found  == Scan(src)
           blocks == Cardinality({k \in DOMAIN nodes : IsBlock(nodes[k])})
       IN  /\ found.mode \notin {"quoted", "escape"} /\ ~found.stray
           /\ found.opened = blocks /\ found.closed = blocks
           /\ found.tokens = 2 * Len(nodes) - blocks

\* The nodes read so far are a tree, and as many blocks of it are open as the
\* parser thinks.
VdfTypeOK ==
  /\ format \in {"text", "binary"} /\ parsed \in {"reading", "ok", "error"}
  /\ pos \in 1 .. Len(src) + 1
  /\ WellNested(nodes)
  /\ depth \in 0 .. Ended(nodes, Len(nodes) + 1)
  /\ parsed = "ok" => depth = 0
============================================================================
