------------------------------- MODULE RichText -------------------------------
(***************************************************************************)
(* The two conversions of formatted text: Slack's blocks to Matrix HTML    *)
(* (src/pkg/msgconv/blocks.go) and Matrix HTML to Slack's rich text        *)
(* (src/pkg/msgconv/matrixfmt/blocks.go), with the parser of HTML between  *)
(* them.  A behaviour is one text on its way: a Slack message is rendered, *)
(* and what came out, or the HTML of a Matrix user, is converted for Slack.*)
(*                                                                         *)
(* A text is a sequence of words; "url" and "host" stand for what the URL  *)
(* pattern matches with and without a protocol, "newline" for a line break.*)
(* HTML is the sequence of tokens that the code writes into its builder.   *)
(*                                                                         *)
(* Every mentioned user has a display name, and whoever the Discord bridge *)
(* knows has a Slack account too; there are no relayed messages.           *)
(***************************************************************************)
EXTENDS Integers, Sequences, FiniteSets, SequencesExt

CONSTANTS
  Messages,     \* the messages of Slack: [blocks, attachments]
  Documents,    \* the HTML of Matrix users: sequences of tokens
  Mentions,     \* what may be in m.mentions of a Matrix user's message
  Teams,        \* what governance may know of the channel
  GhostOf,      \* Slack user |-> Matrix user that stands for it
  SlackUserOf,  \* Matrix user |-> Slack user: SlackUserIDForMXID, or "none"
  LoginOf,      \* Matrix user |-> Slack user of a login in this team, or "none"
  RoomOf,       \* channel |-> the room of its portal, or "none"
  ChannelOf     \* room |-> the channel of its portal, or "none"

VARIABLES
  phase,        \* "slack", "matrix" or "done"
  message,      \* the message of Slack
  html,         \* the tokens of the Matrix event
  mentions,     \* m.mentions: [set, users, room]
  team,         \* what governance knows of the channel: [kind, members]
  rich          \* the elements of the rich text block sent to Slack

vars == <<phase, message, html, mentions, team, rich>>

-----------------------------------------------------------------------------
(***************************************************************************)
(* Slack's side.  Inline elements and elements are records of one shape.   *)
(***************************************************************************)
Inline(type, text, target, style) ==
  [type |-> type, text |-> text, target |-> target, style |-> style]
Words(text, style) == Inline("text", text, "", style)

Element(type, parts, border, indent, style, offset) ==
  [type |-> type, parts |-> parts, border |-> border, indent |-> indent,
   style |-> style, offset |-> offset]
Section(parts) == Element("section", parts, 0, 0, "", 0)
Quote(border, parts) == Element("quote", parts, border, 0, "", 0)
Preformatted(border, parts) == Element("preformatted", parts, border, 0, "", 0)
\* The parts of a list are its items, sequences of inline elements.
List(style, indent, offset, border, items) ==
  Element("list", items, border, indent, style, offset)

\* The part of HTML that the code writes.
Open(tag, attr) == [kind |-> "open", tag |-> tag, attr |-> attr, words |-> <<>>]
Close(tag) == [kind |-> "close", tag |-> tag, attr |-> "", words |-> <<>>]
Void(tag, attr) == [kind |-> "void", tag |-> tag, attr |-> attr, words |-> <<>>]
Text(words) == [kind |-> "text", tag |-> "#text", attr |-> "", words |-> words]
Wrap(tag, tokens) == <<Open(tag, "")>> \o tokens \o <<Close(tag)>>

-----------------------------------------------------------------------------
(***************************************************************************)
(* Slack to Matrix.                                                        *)
(***************************************************************************)

\* The tags of a style from the outside in.
StyleTags == <<[of |-> "bold", tag |-> "strong"], [of |-> "italic", tag |-> "em"],
               [of |-> "strike", tag |-> "del"], [of |-> "code", tag |-> "code"]>>
openingTags(style) ==
  LET used == SelectSeq(StyleTags, LAMBDA t: t.of \in style)
  IN  [i \in DOMAIN used |-> Open(used[i].tag, "")]
closingTags(style) ==
  LET used == Reverse(SelectSeq(StyleTags, LAMBDA t: t.of \in style))
  IN  [i \in DOMAIN used |-> Close(used[i].tag)]

\* TextToHTML turns line breaks into tags, html.EscapeString keeps them.
TextToHTML(text, plainNewlines) ==
  [i \in DOMAIN text |-> IF text[i] = "newline" /\ ~plainNewlines
                         THEN Void("br", "") ELSE Text(<<text[i]>>)]

InlineBody(e, plainNewlines) ==
  CASE e.type = "text" -> TextToHTML(e.text, plainNewlines)
    [] e.type = "user" -> <<Open("a", GhostOf[e.target]), Text(e.text), Close("a")>>
    [] e.type = "channel" -> IF RoomOf[e.target] = "none" THEN <<Text(e.text)>>
                             ELSE <<Open("a", RoomOf[e.target]), Text(e.text), Close("a")>>
    [] e.type = "link" -> <<Open("a", e.target)>>
         \o TextToHTML(IF e.text = <<>> THEN <<e.target>> ELSE e.text, plainNewlines)
         \o <<Close("a")>>
    [] e.type = "emoji" -> IF e.target = "image" THEN <<Void("img", e.text[1])>>
                           ELSE <<Text(e.text)>>
RenderInline(e, plainNewlines) ==
  CASE e.type = "broadcast" -> <<Text(<<"@room">>)>>
    [] e.type = "unsupported" -> <<>>
    [] OTHER -> openingTags(e.style) \o InlineBody(e, plainNewlines) \o closingTags(e.style)

renderRichTextSectionElements(parts, plainNewlines) ==
  FlattenSeq([i \in DOMAIN parts |-> RenderInline(parts[i], plainNewlines)])

getBlockquoteDepth(e) ==
  CASE e.type = "quote" -> e.border + 1
    [] e.type \in {"preformatted", "list"} -> e.border
    [] OTHER -> 0

acceptListNest(e, minDepth, typeAtMinDepth) ==
  /\ e.type = "list"
  /\ \/ e.indent > minDepth
     \/ e.indent = minDepth /\ e.style = typeAtMinDepth

\* The index behind the longest run from i whose elements all satisfy Fits.
RunEnd(s, i, Fits(_)) ==
  CHOOSE j \in i .. Len(s) + 1 :
    /\ \A k \in i .. j - 1 : Fits(s[k])
    /\ j <= Len(s) => ~Fits(s[j])

\* mutant: the first item is left open and not the last
LastItemOpenMutated(items, j) == j = 1
LastItemOpen(items, j) == j = Len(items)

\* The items of one list; only the first can restart the numbering, and the
\* last is left open for a list nested in it.
ListItems(list, offset) ==
  FlattenSeq([j \in DOMAIN list.parts |->
      <<Open("li", IF j = 1 /\ list.offset + 1 # offset THEN "value" ELSE "")>>
      \o renderRichTextSectionElements(list.parts[j], FALSE)
      \o IF LastItemOpen(list.parts, j) THEN <<>> ELSE <<Close("li")>>])

RECURSIVE renderSlackRichTextLists(_), RestOfLists(_, _, _)

ListTag(list) == IF list.style = "ordered" THEN "ol" ELSE "ul"

\* An ordered list that does not begin at 1 names its first number.
renderSlackRichTextLists(lists) ==
  LET first == lists[1]
      start == IF first.style = "ordered" /\ first.offset > 0
               THEN ToString(first.offset + 1) ELSE ""
  IN  <<Open(ListTag(first), start)>> \o RestOfLists(lists, 1, first.offset + 1)
      \o <<Close("li"), Close(ListTag(first))>>

RestOfLists(lists, i, offset) ==
  IF i > Len(lists) THEN <<>>
  ELSE IF lists[i].indent > lists[1].indent
  THEN LET next == RunEnd(lists, i, LAMBDA l: l.indent > lists[1].indent)
       IN  renderSlackRichTextLists(SubSeq(lists, i, next - 1))
           \o RestOfLists(lists, next, offset)
  ELSE (IF i = 1 THEN <<>> ELSE <<Close("li")>>)
       \o ListItems(lists[i], offset)
       \o RestOfLists(lists, i + 1, lists[i].offset + 1 + Len(lists[i].parts))

renderSlackRichTextElement(e, numElements) ==
  CASE e.type = "section" /\ numElements = 1 -> renderRichTextSectionElements(e.parts, FALSE)
    [] e.type = "section" /\ numElements # 1 ->
         Wrap("p", renderRichTextSectionElements(e.parts, FALSE))
    [] e.type = "preformatted" ->
         Wrap("pre", Wrap("code", renderRichTextSectionElements(e.parts, TRUE)))
    [] e.type = "quote" -> renderRichTextSectionElements(e.parts, FALSE)

RECURSIVE renderSlackRichTextElements(_, _), RestOfElements(_, _, _)

renderSlackRichTextElements(elements, depth) == RestOfElements(elements, depth, 1)

RestOfElements(elements, depth, i) ==
  IF i > Len(elements) THEN <<>>
  ELSE LET e == elements[i]
           quoted == getBlockquoteDepth(e)
           next == CASE quoted > depth ->
                          RunEnd(elements, i, LAMBDA x: getBlockquoteDepth(x) >= quoted)
                     [] quoted <= depth /\ e.type = "list" ->
                          RunEnd(elements, i, LAMBDA x: acceptListNest(x, e.indent, e.style))
                     [] OTHER -> i + 1
           group == SubSeq(elements, i, next - 1)
       IN  (CASE quoted > depth ->
                   Wrap("blockquote", renderSlackRichTextElements(group, quoted))
              [] quoted <= depth /\ e.type = "list" -> renderSlackRichTextLists(group)
              [] OTHER -> renderSlackRichTextElement(e, Len(elements)))
           \o RestOfElements(elements, depth, next)

\* format.UnwrapSingleParagraph
Unwrapped(tokens) ==
  LET paragraphs == {i \in DOMAIN tokens : tokens[i].tag = "p"}
  IN  IF Len(tokens) > 1 /\ paragraphs = {1, Len(tokens)}
      THEN SubSeq(tokens, 2, Len(tokens) - 1) ELSE tokens

renderSlackBlock(b) ==
  CASE b.type = "header" -> Wrap("h1", TextToHTML(b.parts, FALSE))
    [] b.type = "divider" -> <<Void("hr", "")>>
    [] b.type = "section" -> TextToHTML(b.parts, FALSE)
    [] b.type = "context" -> Wrap("sup", TextToHTML(b.parts, FALSE))
    [] b.type = "rich_text" -> Unwrapped(renderSlackRichTextElements(b.parts, 0))
    [] OTHER -> Wrap("i", <<Text(<<"unsupported">>)>>)

\* A block that is not supported is announced once in a row.
Supported == {"header", "divider", "section", "context", "rich_text"}
Announced(bs, i) ==
  bs[i].type \notin Supported /\ i > 1 /\ bs[i - 1].type \notin Supported
blocksToHTML(bs, alwaysWrap) ==
  IF Len(bs) = 1 /\ ~alwaysWrap THEN renderSlackBlock(bs[1])
  ELSE FlattenSeq([i \in DOMAIN bs |->
         IF Announced(bs, i) THEN <<>> ELSE Wrap("p", renderSlackBlock(bs[i]))])

\* An attachment has a title, a text, an author, a text before it, a footer
\* and the two URLs of a preview or not; blocks of its own, the messages it
\* quotes as sequences of blocks, and fields that are short or not.
isImageAttachment(att) ==
  /\ ~att.title /\ ~att.text /\ ~att.author /\ att.fields = <<>>
  /\ Len(att.blocks) = 1 /\ att.blocks[1].type = "image"
IsPreview(att) ==
  /\ att.from # "" /\ att.original # "" /\ att.title /\ att.fields = <<>>

Given(present, tokens) == IF present THEN tokens ELSE <<>>
Br == <<Void("br", "")>>
Linking(att, tokens) == <<Open("a", att.from)>> \o tokens \o <<Close("a")>>
QuoteOf(att, tokens) ==
  Wrap("blockquote", Wrap("b", <<Text(<<"author">>)>>) \o Br \o tokens
                     \o Linking(att, Wrap("i", <<Text(<<"footer">>)>>)) \o Br)
UnfurlToHTML(att, before) ==
  Given(att.from # "" /\ ~\E i \in DOMAIN before : before[i] = Open("a", att.from),
        Linking(att, <<Text(<<"author">>)>>))
  \o FlattenSeq([i \in DOMAIN att.messages |-> QuoteOf(att, blocksToHTML(att.messages[i], TRUE))])
  \o Given(att.messages = <<>> /\ att.text, QuoteOf(att, <<Text(<<"text">>)>>))

\* Two short fields share a row of the table.
RowEnds(short, field) == short \/ ~field
FieldsToHTML(fields) ==
  LET Cell == Wrap("td", Wrap("strong", <<Text(<<"field">>)>>) \o Br \o <<Text(<<"value">>)>>)
      Add(acc, field) ==
        [short |-> ~RowEnds(acc.short, field),
         html |-> acc.html \o Given(~acc.short, <<Open("tr", "")>>) \o Cell
                  \o Given(RowEnds(acc.short, field), <<Close("tr")>>)]
  IN  Wrap("table", FoldLeft(Add, [short |-> FALSE, html |-> <<>>], fields).html)

LegacyToHTML(att) ==
  LET heads == Given(att.author, <<Wrap("b", <<Text(<<"author">>)>>)>>)
               \o Given(att.title, <<Wrap("b", <<Text(<<"title">>)>>)>>)
               \o Given(att.text, <<<<Text(<<"text">>)>>>>)
  IN  Given(att.pretext, Wrap("p", <<Text(<<"pretext">>)>>))
      \o Wrap("blockquote",
           FlattenSeq([i \in DOMAIN heads |-> Given(i > 1, Br) \o heads[i]])
           \o (IF att.fields = <<>> THEN Br ELSE FieldsToHTML(att.fields))
           \o Given(att.footer, Wrap("sup", <<Text(<<"footer">>)>>)))

\* Images and link previews are not part of the text.
InText(att) == ~isImageAttachment(att) /\ ~IsPreview(att)
AttachmentToHTML(before, att) ==
  before \o
  CASE ~InText(att) -> <<>>
    [] InText(att) /\ att.unfurl -> UnfurlToHTML(att, before)
    [] InText(att) /\ ~att.unfurl /\ att.blocks # <<>> ->
         FlattenSeq([i \in DOMAIN att.blocks |->
                      Wrap("blockquote", renderSlackBlock(att.blocks[i]))])
    [] OTHER -> LegacyToHTML(att)

slackBlocksToMatrix(m) ==
  LET own == blocksToHTML(m.blocks, FALSE)
  IN  FoldLeft(AttachmentToHTML, own \o Given(m.attachments # <<>> /\ own # <<>>, Br),
               m.attachments)

\* All inline elements of an element, of blocks and of a message.
PartsOf(e) == IF e.type = "list" THEN FlattenSeq(e.parts) ELSE e.parts
InlineOf(bs) ==
  FlattenSeq([i \in DOMAIN bs |->
    IF bs[i].type # "rich_text" THEN <<>>
    ELSE FlattenSeq([j \in DOMAIN bs[i].parts |-> PartsOf(bs[i].parts[j])])])
BlocksRendered(m) ==
  m.blocks \o FlattenSeq([i \in DOMAIN m.attachments |->
    LET att == m.attachments[i]
    IN  CASE ~InText(att) -> <<>>
          [] InText(att) /\ att.unfurl -> FlattenSeq(att.messages)
          [] OTHER -> att.blocks])
MentionsOf(m) ==
  LET parts == Range(InlineOf(BlocksRendered(m)))
  IN  [set |-> TRUE, replyTo |-> "", room |-> \E e \in parts : e.type = "broadcast",
       users |-> {GhostOf[e.target] : e \in {x \in parts : x.type = "user"}}]

-----------------------------------------------------------------------------
(***************************************************************************)
(* The parser of HTML (golang.org/x/net/html): a stack of open nodes.      *)
(* Text next to text is one node, a block ends an open paragraph, and an   *)
(* end tag of a paragraph that is not open makes an empty one.             *)
(***************************************************************************)
Node(tag, attr, words, kids) == [tag |-> tag, attr |-> attr, words |-> words, kids |-> kids]
Blocks == {"p", "ul", "ol", "blockquote", "pre", "h1", "hr"}

AddKid(stack, node) ==
  LET top == Last(stack)
      merge == node.tag = "#text" /\ top.kids # <<>> /\ Last(top.kids).tag = "#text"
      kids == IF merge
              THEN Front(top.kids) \o <<[Last(top.kids) EXCEPT !.words = @ \o node.words]>>
              ELSE Append(top.kids, node)
  IN  Front(stack) \o <<[top EXCEPT !.kids = kids]>>
Pop(stack) == AddKid(Front(stack), Last(stack))
OpenTags(stack) == {stack[i].tag : i \in DOMAIN stack}

RECURSIVE PopTo(_, _)
PopTo(stack, tag) ==
  IF Last(stack).tag = tag THEN Pop(stack) ELSE PopTo(Pop(stack), tag)

Consume(stack, t) ==
  LET ready == IF t.kind \in {"open", "void"} /\ t.tag \in Blocks /\ "p" \in OpenTags(stack)
               THEN PopTo(stack, "p") ELSE stack
  IN  CASE t.kind = "text" -> AddKid(stack, Node("#text", "", t.words, <<>>))
        [] t.kind = "void" -> AddKid(ready, Node(t.tag, t.attr, <<>>, <<>>))
        [] t.kind = "open" -> Append(ready, Node(t.tag, t.attr, <<>>, <<>>))
        [] t.kind = "close" /\ t.tag \in OpenTags(stack) -> PopTo(stack, t.tag)
        [] t.kind = "close" /\ t.tag \notin OpenTags(stack) ->
             IF t.tag = "p" THEN AddKid(stack, Node("p", "", <<>>, <<>>)) ELSE stack

Document(tokens) ==
  PopTo(FoldLeft(Consume, <<Node("html", "", <<>>, <<>>), Node("body", "", <<>>, <<>>)>>,
                 tokens), "body")[1]

-----------------------------------------------------------------------------
(***************************************************************************)
(* Matrix to Slack.  The context of a node is the stack of its tags, its   *)
(* style, its link and whether line breaks count.                          *)
(***************************************************************************)
Linked(user) == SlackUserOf[user] # "none"
Bot == "@slack"

\* replaceMatrixMentionsWithLabels: a mentioned user without a Slack account
\* is named and not linked, unless the bridge stands for whom is answered.
Labelled(user) ==
  /\ user \in mentions.users
  /\ ~Linked(user)
  /\ ~(user = Bot /\ mentions.replyTo # "" /\ Linked(mentions.replyTo))
StartsLabel(tokens, i) ==
  /\ i \in DOMAIN tokens /\ i + 2 \in DOMAIN tokens
  /\ tokens[i].kind = "open" /\ tokens[i].tag = "a"
  /\ Labelled(tokens[i].attr)
  /\ tokens[i + 1].kind = "text" /\ tokens[i + 2] = Close("a")
replaceMatrixMentionsWithLabels(tokens) ==
  FlattenSeq([i \in DOMAIN tokens |->
    IF StartsLabel(tokens, i - 1) THEN <<Text(<<"label">>)>>
    ELSE IF StartsLabel(tokens, i) \/ StartsLabel(tokens, i - 2) THEN <<>>
    ELSE <<tokens[i]>>])

IsPlain(tokens) == \A i \in DOMAIN tokens : tokens[i].kind = "text"
PlainWords(tokens) == FlattenSeq([i \in DOMAIN tokens |-> tokens[i].words])

GetMentionedUserID(user) ==
  CASE Linked(user) -> SlackUserOf[user]
    [] ~Linked(user) /\ user = Bot ->
         IF mentions.replyTo # "" THEN SlackUserOf[mentions.replyTo] ELSE "none"
    [] ~Linked(user) /\ user # Bot /\ mentions.set /\ user \notin mentions.users -> "none"
    [] OTHER -> LoginOf[user]

\* The ping of a team's role: its members who have a Slack account.
teamRolePingMemberElements(style) ==
  IF team.kind # "team" \/ team.members = <<>> THEN <<>>
  ELSE <<Words(<<"ping">>, style)>>
       \o [i \in DOMAIN team.members |->
            Inline("user", <<team.members[i]>>, team.members[i], style)]

textToElement(text, ctx) ==
  CASE ctx.link = "" -> Words(text, ctx.style)
    [] ctx.link \in DOMAIN SlackUserOf ->
         LET user == GetMentionedUserID(ctx.link)
         IN  IF user = "none" THEN Words(text, ctx.style)
             ELSE Inline("user", text, user, ctx.style)
    [] ctx.link \in DOMAIN ChannelOf /\ ChannelOf[ctx.link] # "none" ->
         Inline("channel", text, ChannelOf[ctx.link], ctx.style)
    [] OTHER -> Inline("link", text, ctx.link, ctx.style)

\* mutant: any channel may be pinged
GovernedMutated == TRUE
Governed == team.kind # "none"
PingElements(style) ==
  IF Governed THEN <<Inline("broadcast", <<"@channel">>, "", {})>>
                   \o teamRolePingMemberElements(style)
  ELSE <<Words(<<"@channel">>, style)>>

\* What the pattern finds in a text, and what becomes of it.
Matched(word) == word \in {"url", "host"} \/ (mentions.room /\ word = "@room")
MatchElements(word, ctx) ==
  CASE word = "@room" -> PingElements(ctx.style)
    [] word = "url" -> <<Inline("link", <<word>>, word, ctx.style)>>
    [] word = "host" -> <<Inline("link", <<word>>, "url", ctx.style)>>

Raw(tags) == {"code", "pre", "a"} \cap Range(tags) # {}

\* The stretches between matches are texts of their own.
Split(text, ctx) ==
  LET AddWord(acc, word) ==
        IF Matched(word) THEN acc \o MatchElements(word, ctx) \o <<Words(<<>>, ctx.style)>>
        ELSE Front(acc) \o <<[Last(acc) EXCEPT !.text = Append(@, word)]>>
      pieces == FoldLeft(AddWord, <<Words(<<>>, ctx.style)>>, text)
      Kept(e) == e.text # <<>>
  IN  SelectSeq(pieces, Kept)

textToElements(text, ctx) ==
  LET shown == IF ctx.whitespace THEN text
               ELSE SelectSeq(text, LAMBDA w: w # "newline")
  IN  CASE shown = <<>> -> <<>>
        [] shown # <<>> /\ Raw(ctx.tags) -> <<textToElement(shown, ctx)>>
        [] OTHER -> Split(IF mentions.room /\ "@room" \notin Range(shown)
                          THEN <<"@room">> \o shown ELSE shown, ctx)

\* What a node gives: inline elements of the section around it, and elements.
Result(section, elems) == [section |-> section, elems |-> elems]

listDepth(tags) == Cardinality({i \in DOMAIN tags : tags[i] \in {"ol", "ul"}})
Quoted(tags) == "blockquote" \in Range(tags)
Border(tags) == IF Quoted(tags) THEN 1 ELSE 0

applyBasicFormat(node, ctx) ==
  CASE node.tag \in {"b", "strong"} -> [ctx EXCEPT !.style = @ \cup {"bold"}]
    [] node.tag \in {"i", "em"} -> [ctx EXCEPT !.style = @ \cup {"italic"}]
    [] node.tag \in {"s", "del", "strike"} -> [ctx EXCEPT !.style = @ \cup {"strike"}]
    [] node.tag \in {"tt", "code"} -> [ctx EXCEPT !.style = @ \cup {"code"}]
    [] node.tag = "a" -> [ctx EXCEPT !.link = node.attr]
    [] OTHER -> ctx
Formats == {"b", "strong", "i", "em", "s", "strike", "del", "u", "tt", "code", "a"}

RECURSIVE nodeToElement(_, _)

\* Once an element came, what follows it is collected in sections after it.
Flushed(acc) ==
  IF acc.late = <<>> THEN acc.elems ELSE Append(acc.elems, Section(acc.late))
AddResult(acc, r) ==
  LET taken == IF acc.elems = <<>> THEN [acc EXCEPT !.section = @ \o r.section]
               ELSE [acc EXCEPT !.late = @ \o r.section]
  IN  IF r.elems = <<>> THEN taken
      ELSE [taken EXCEPT !.elems = Flushed(taken) \o r.elems, !.late = <<>>]
nodeAndSiblingsToElement(nodes, ctx) ==
  LET acc == FoldLeft(LAMBDA a, n: AddResult(a, nodeToElement(n, ctx)),
                      [section |-> <<>>, elems |-> <<>>, late |-> <<>>], nodes)
  IN  Result(acc.section, Flushed(acc))

\* mutant: the first number is taken for the offset
StartOffsetMutated(node) ==
  IF node.tag = "ol" /\ \E n \in 1 .. 9 : ToString(n) = node.attr
  THEN (CHOOSE n \in 1 .. 9 : ToString(n) = node.attr) ELSE 0
\* The number an ordered list starts after.
StartOffset(node) ==
  IF node.tag = "ol" /\ \E n \in 1 .. 9 : ToString(n) = node.attr
  THEN (CHOOSE n \in 1 .. 9 : ToString(n) = node.attr) - 1 ELSE 0

\* A list nested in an item ends the elements collected so far; the numbers
\* go on behind it.
listToElement(node, ctx) ==
  LET Listed(acc) ==
        IF acc.items = <<>> THEN acc.out
        ELSE Append(acc.out, List(IF node.tag = "ol" THEN "ordered" ELSE "bullet",
                                  listDepth(ctx.tags) - 1, acc.offset,
                                  Border(ctx.tags), acc.items))
      AddItem(acc, li) ==
        LET r == nodeAndSiblingsToElement(li.kids, ctx)
            taken == IF r.section = <<>> THEN acc
                     ELSE [acc EXCEPT !.items = Append(@, r.section)]
        IN  IF r.elems = <<>> THEN taken
            ELSE [out |-> Listed(taken) \o r.elems, items |-> <<>>,
                  offset |-> taken.offset + Len(taken.items)]
  IN  Listed(FoldLeft(AddItem,
                      [out |-> <<>>, items |-> <<>>, offset |-> StartOffset(node)],
                      SelectSeq(node.kids, LAMBDA k: k.tag = "li")))

\* "p" and "blockquote": a quote or a section before the elements inside.
BlockToElement(node, ctx) ==
  LET r == nodeAndSiblingsToElement(node.kids, ctx)
      nested == node.tag = "blockquote" /\ Quoted(Front(ctx.tags))
      first == IF Quoted(ctx.tags) THEN Quote(IF nested THEN 1 ELSE 0, r.section)
               ELSE Section(r.section)
  IN  Result(<<>>, (IF r.section = <<>> THEN <<>> ELSE <<first>>) \o r.elems)

PreToElement(node, ctx) ==
  LET code == node.kids # <<>> /\ node.kids[1].tag = "code"
      r == nodeAndSiblingsToElement(IF code THEN node.kids[1].kids ELSE node.kids,
                                    [ctx EXCEPT !.whitespace = TRUE])
  IN  Result(<<>>, <<Preformatted(Border(ctx.tags), r.section)>> \o r.elems)

HeadingToElement(node, ctx) ==
  LET bold == [ctx EXCEPT !.style = @ \cup {"bold"}]
      r == nodeAndSiblingsToElement(node.kids, bold)
  IN  Result(<<>>, <<Section(<<Words(<<"#">>, bold.style)>> \o r.section)>> \o r.elems)

tagToElement(node, outer) ==
  LET ctx == [outer EXCEPT !.tags = Append(@, node.tag)]
  IN  CASE node.tag = "br" -> Result(<<Words(<<"newline">>, ctx.style)>>, <<>>)
        [] node.tag = "hr" -> Result(<<>>, <<Section(<<Words(<<"---">>, ctx.style)>>)>>)
        [] node.tag = "img" ->
             Result(<<Inline("emoji", <<node.attr>>, "image", ctx.style)>>, <<>>)
        [] node.tag = "h1" -> HeadingToElement(node, ctx)
        [] node.tag \in {"p", "blockquote"} -> BlockToElement(node, ctx)
        [] node.tag \in {"ol", "ul"} -> Result(<<>>, listToElement(node, ctx))
        [] node.tag = "pre" -> PreToElement(node, ctx)
        [] OTHER -> nodeAndSiblingsToElement(node.kids, applyBasicFormat(node, ctx))

nodeToElement(node, ctx) ==
  IF node.tag = "#text" THEN Result(textToElements(node.words, ctx), <<>>)
  ELSE tagToElement(node, ctx)

nodeToBlock(node, ctx) ==
  LET r == nodeToElement(node, ctx)
  IN  (IF r.section = <<>> THEN <<>> ELSE <<Section(r.section)>>) \o r.elems

TopContext(whitespace) == [tags |-> <<>>, style |-> {}, link |-> "", whitespace |-> whitespace]
ParseText(words) == <<Section(textToElements(words, TopContext(TRUE)))>>
Parse(tokens) == nodeToBlock(Document(tokens), TopContext(FALSE))

-----------------------------------------------------------------------------
(***************************************************************************)
(* A text on its way.                                                      *)
(***************************************************************************)
NoMessage == [blocks |-> <<>>, attachments |-> <<>>]
NoMentions == [set |-> FALSE, users |-> {}, room |-> FALSE, replyTo |-> ""]

Init ==
  /\ team \in Teams
  /\ rich = <<>>
  /\ \/ /\ phase = "slack" /\ message \in Messages
        /\ html = <<>> /\ mentions = NoMentions
     \/ /\ phase = "matrix" /\ message = NoMessage
        /\ html \in Documents /\ mentions \in Mentions

\* The text part of a message of Slack.
SlackToMatrix ==
  /\ phase = "slack"
  /\ html' = slackBlocksToMatrix(message)
  /\ mentions' = MentionsOf(message)
  /\ phase' = "matrix"
  /\ UNCHANGED <<message, team, rich>>

\* ToSlack for a text: with m.mentions it always has HTML.
MatrixToSlack ==
  /\ phase = "matrix"
  /\ rich' = IF mentions.set
             THEN Parse(replaceMatrixMentionsWithLabels(
                    IF IsPlain(html) THEN TextToHTML(PlainWords(html), FALSE) ELSE html))
             ELSE IF IsPlain(html) THEN ParseText(PlainWords(html)) ELSE Parse(html)
  /\ phase' = "done"
  /\ UNCHANGED <<message, html, mentions, team>>

Next == SlackToMatrix \/ MatrixToSlack

Spec == Init /\ [][Next]_vars

-----------------------------------------------------------------------------
(***************************************************************************)
(* What a text says, whatever markup carries it: its words with style and  *)
(* target, and its lines with their place in quotes and lists.             *)
(***************************************************************************)
Said(e) ==
  LET Say(word, target) == [word |-> word, style |-> e.style, target |-> target]
      Each(target) == [i \in DOMAIN e.text |-> Say(e.text[i], target)]
  IN  CASE e.type = "user" -> IF Linked(GhostOf[e.target]) THEN <<Say("user", e.target)>>
                              ELSE <<Say("label", "")>>
        [] e.type = "channel" -> Each(IF RoomOf[e.target] = "none" THEN "" ELSE e.target)
        [] e.type = "emoji" -> Each(e.target)
        [] e.type = "link" -> IF e.text = <<>> THEN <<Say(e.target, e.target)>>
                              ELSE Each(e.target)
        [] e.type = "unsupported" -> <<>>
        [] OTHER -> Each("")
AllSaid(parts) == FlattenSeq([i \in DOMAIN parts |-> Said(parts[i])])

Line(e, number, parts) ==
  [type |-> e.type, border |-> e.border, indent |-> e.indent, style |-> e.style,
   number |-> number, said |-> AllSaid(parts)]
LinesOf(elements) ==
  FlattenSeq([i \in DOMAIN elements |->
    LET e == elements[i] IN
    IF e.type # "list" THEN <<Line(e, 0, e.parts)>>
    ELSE [j \in DOMAIN e.parts |->
            Line(e, IF e.style = "ordered" THEN e.offset + j ELSE 0, e.parts[j])]])

\* A block of rich text says its words; the others are given with a mark or
\* a style.  A run of unsupported blocks says so once.
SaidByBlock(bs, i) ==
  LET b == bs[i]
      Say(word, style) == [word |-> word, style |-> style, target |-> ""]
  IN  CASE b.type = "rich_text" -> AllSaid(FlattenSeq([j \in DOMAIN b.parts |-> PartsOf(b.parts[j])]))
        [] b.type = "header" -> <<Say("#", {"bold"})>>
             \o [j \in DOMAIN b.parts |-> Say(b.parts[j], {"bold"})]
        [] b.type = "divider" -> <<Say("---", {})>>
        [] b.type \notin Supported -> IF Announced(bs, i) THEN <<>>
                                      ELSE <<Say("unsupported", {"italic"})>>
        [] OTHER -> [j \in DOMAIN b.parts |-> Say(b.parts[j], {})]

\* The lists and quotes that survive: a list begins at the margin and goes in
\* by one step; where it comes back to a level it keeps its style and its
\* numbers (at the margin another style begins another list); and a quote is one
\* level deeper than what it follows.
LastAtLevel(es, i) ==
  es[CHOOSE k \in 1 .. i - 1 :
       /\ es[k].indent <= es[i].indent
       /\ \A m \in k + 1 .. i - 1 : es[m].indent > es[i].indent]
BeginsRun(es, i) ==
  \/ i = 1 \/ es[i - 1].type # "list" \/ es[i - 1].border > es[i].border
  \/ es[i].indent = 0 /\ LastAtLevel(es, i).style # es[i].style
Continues(last, e) ==
  \/ last.indent < e.indent
  \/ /\ last.style = e.style
     /\ e.style = "ordered" => e.offset = last.offset + Len(last.parts)
Orderly(es) ==
  \A i \in DOMAIN es :
    LET e == es[i] IN
    /\ e.type = "quote" => e.border = IF i = 1 THEN 0 ELSE getBlockquoteDepth(es[i - 1])
    /\ e.type = "list" =>
         IF BeginsRun(es, i) THEN e.indent = 0
         ELSE /\ e.indent <= es[i - 1].indent + 1
              /\ e.border = es[i - 1].border
              /\ Continues(LastAtLevel(es, i), e)
NoneEmpty(es) == \A l \in Range(LinesOf(es)) : l.said # <<>>

-----------------------------------------------------------------------------
(***************************************************************************)
(* Properties.                                                             *)
(***************************************************************************)

\* The HTML made from a message of Slack is well formed: every tag is closed
\* in the reverse order, list items stand in lists and nothing else does.
NestedTokens(tokens) ==
  LET Step(acc, t) ==
        LET inside == Last(acc.stack)
            fits == IF inside \in {"ol", "ul"} THEN t.tag = "li" \/ t = Close(inside)
                    ELSE t.tag # "li" \/ t = Close("li")
        IN  CASE t.kind = "open" -> [ok |-> acc.ok /\ fits, stack |-> Append(acc.stack, t.tag)]
              [] t.kind = "close" -> [ok |-> acc.ok /\ fits /\ inside = t.tag,
                                      stack |-> IF Len(acc.stack) > 1 THEN Front(acc.stack)
                                                ELSE acc.stack]
              [] OTHER -> [ok |-> acc.ok /\ fits, stack |-> acc.stack]
      end == FoldLeft(Step, [ok |-> TRUE, stack |-> <<"body">>], tokens)
  IN  end.ok /\ end.stack = <<"body">>
\* (A short field without a partner at the end of an attachment leaves its row
\* open.)
RowsClosed(att) ==
  att.fields # <<>> /\ InText(att) =>
    ~FoldLeft(LAMBDA short, field: ~RowEnds(short, field), FALSE, att.fields)
Nested ==
  (\A i \in DOMAIN message.attachments : RowsClosed(message.attachments[i]))
    /\ message # NoMessage => NestedTokens(html)

\* A message of Slack that comes back from Matrix says the same words in the
\* same order with the same style, links, mentions and emoji; and the lines are
\* in the same lists and quotes exactly if it is orderly.
CameBack ==
  /\ phase = "done" /\ message # NoMessage
  /\ ~mentions.room /\ message.attachments = <<>>
WordsSurvive ==
  CameBack =>
    AllSaid(FlattenSeq([i \in DOMAIN rich |-> PartsOf(rich[i])]))
      = FlattenSeq([i \in DOMAIN message.blocks |-> SaidByBlock(message.blocks, i)])
LinesSurvive ==
  CameBack /\ Len(message.blocks) = 1 /\ message.blocks[1].type = "rich_text" =>
    LET es == message.blocks[1].parts
    IN  NoneEmpty(es) => (Orderly(es) <=> LinesOf(rich) = LinesOf(es))
RoundTrip == WordsSurvive /\ LinesSurvive

\* A room mention pings the channel only where governance knows it: once for
\* every @room in a text that is not code or a link, and once for a text that
\* says none (textToElements).
Pings ==
  SelectSeq(InlineOf(<<[type |-> "rich_text", parts |-> rich]>>),
            LAMBDA e: e.type = "broadcast")
RECURSIVE PingsIn(_)
PingsIn(node) ==
  CASE node.tag \in {"code", "pre", "a"} -> 0
    [] node.tag = "#text" ->
         LET named == Len(SelectSeq(node.words, LAMBDA w: w = "@room"))
         IN  IF Range(node.words) \subseteq {"newline"} THEN 0
             ELSE IF named = 0 THEN 1 ELSE named
    [] OTHER -> FoldLeft(LAMBDA sum, kid: sum + PingsIn(kid), 0, node.kids)
RoomPing ==
  phase = "done" =>
    Len(Pings) = IF mentions.room /\ team.kind # "none"
                 THEN PingsIn(Document(replaceMatrixMentionsWithLabels(html))) ELSE 0

===============================================================================
