----------------------------- MODULE MCConversion -----------------------------
(***************************************************************************)
(* Either a text is on its way (RichText), or a message of several parts   *)
(* is changed (MessageParts), or the governance files behind room pings    *)
(* are read (GovernanceData); the other machines are at rest.              *)
(***************************************************************************)
EXTENDS RichText, MessageParts, MCGovernance

\* Every element has words of its own, so that an order can be seen.
W(i) == [j \in 1 .. 3 |-> <<"a", "b", "c", "d", "e", "f", "g", "h", "i">>[3 * (i - 1) + j]]
Plain(i) == <<Words(<<W(i)[1]>>, {})>>
Items(i, n) == [j \in 1 .. n |-> <<Words(<<W(i)[j]>>, {})>>]
Rich(es) == <<[type |-> "rich_text", parts |-> es]>>

ListsAt(i, borders, n) ==
  {List(style, indent, offset, border, Items(i, k)) :
     style \in {"ordered", "bullet"}, indent \in 0 .. 2, offset \in {0, 1},
     border \in borders, k \in n}
Lists3 == {Rich(<<a, b, c>>) : a \in {l \in ListsAt(1, {0}, {1, 2}) : l.indent < 2},
                               b \in ListsAt(2, {0}, {1}), c \in ListsAt(3, {0, 1}, {1})}
ElementsAt(i) ==
  {Section(Plain(i))} \cup {Quote(b, Plain(i)) : b \in {0, 1}}
  \cup {Preformatted(b, <<Words(<<W(i)[1], "newline", W(i)[2]>>, {})>>) : b \in {0, 1}}
  \cup {List("ordered", 0, 1, b, Items(i, 2)) : b \in {0, 1}}
  \cup {List("bullet", 1, 0, 0, Items(i, 1))}
Elements3 == {Rich(<<a>>) : a \in ElementsAt(1)}
  \cup {Rich(<<a, b, c>>) : a \in ElementsAt(1), b \in ElementsAt(2), c \in ElementsAt(3)}

InlineAt(i) ==
  {Words(<<W(i)[1], "newline", W(i)[2]>>, s) : s \in {{}, {"code"}, {"bold", "strike"}}}
  \cup {Inline("user", <<"name">>, u, {"italic"}) : u \in {"U1", "U2"}}
  \cup {Inline("channel", <<"chan">>, c, {}) : c \in {"C1", "C2"}}
  \cup {Inline("link", t, "url", {"bold"}) : t \in {<<>>, <<W(i)[1]>>}}
  \cup {Inline("emoji", <<"smile">>, e, {}) : e \in {"image", ""}}
  \cup {Inline("broadcast", <<>>, "", {}), Inline("unsupported", <<>>, "", {})}
Inlines == {Rich(<<Section(<<a, b>>)>>) : a \in InlineAt(1), b \in InlineAt(2)}
  \cup {Rich(<<Section(<<a>>), List("bullet", 0, 0, 0, <<<<b>>>>)>>) :
          a \in InlineAt(1), b \in InlineAt(2)}

BlockAt(i) ==
  {[type |-> t, parts |-> <<W(i)[1]>>] : t \in {"header", "section", "context"}}
  \cup {[type |-> t, parts |-> <<>>] : t \in {"divider", "unsupported"}}
  \cup {Rich(<<Section(Plain(i)), List("bullet", 0, 0, 0, Items(i, 2))>>)[1],
        Rich(<<Section(Plain(i))>>)[1]}
BlockSets == {<<a, b>> : a \in BlockAt(1), b \in BlockAt(2)}
  \cup {<<a>> : a \in BlockAt(1)}

Attachment ==
  [title |-> FALSE, text |-> FALSE, author |-> FALSE, pretext |-> FALSE, footer |-> FALSE,
   from |-> "", original |-> "", unfurl |-> FALSE, fields |-> <<>>, blocks |-> <<>>,
   messages |-> <<>>]
Image == [type |-> "image", parts |-> <<>>]
Attachments ==
  {[Attachment EXCEPT !.blocks = <<Image>>, !.title = t] : t \in BOOLEAN}
  \cup {[Attachment EXCEPT !.from = "url", !.original = o, !.title = t, !.text = TRUE, !.unfurl = u] :
          o \in {"", "url"}, t \in BOOLEAN, u \in BOOLEAN}
  \cup {[Attachment EXCEPT !.unfurl = TRUE, !.from = "url", !.messages = ms] :
          ms \in {<<Rich(<<Section(Plain(3))>>)>>,
                  <<Rich(<<Section(<<Inline("broadcast", <<>>, "", {})>>)>>)>>}}
  \cup {[Attachment EXCEPT !.author = a, !.text = TRUE, !.pretext = ~a, !.footer = a, !.fields = f] :
          a \in BOOLEAN, f \in UNION {[1 .. n -> BOOLEAN] : n \in 0 .. 3}}
Attached ==
  {[blocks |-> bs, attachments |-> <<a>>] : bs \in {<<>>, Rich(<<Section(Plain(1))>>)}, a \in Attachments}
  \cup {[blocks |-> Rich(<<Section(<<Inline("link", <<>>, "url", {})>>)>>), attachments |-> <<a, b>>] :
          a \in Attachments, b \in {x \in Attachments : x.unfurl}}

MCMessages ==
  {[blocks |-> bs, attachments |-> <<>>] : bs \in Lists3 \cup Elements3 \cup Inlines \cup BlockSets}
  \cup Attached

Pieces == {<<>>, <<Text(<<"x">>)>>, <<Text(<<"x", "@room">>)>>,
           <<Open("b", ""), Text(<<"y", "url">>), Close("b")>>,
           Wrap("code", <<Text(<<"@room">>)>>),
           Wrap("p", <<Text(<<"newline", "z", "host">>)>>),
           <<Open("a", "url"), Text(<<"@room">>), Close("a")>>}
  \cup {<<Open("a", u), Text(<<"n">>), Close("a")>> : u \in {"@ann", "@lee", "@slack", "@other"}}
MCDocuments == {a \o b \o c : a \in Pieces, b \in Pieces, c \in {<<>>, <<Text(<<"w">>)>>}}
MCMentions ==
  {NoMentions} \cup
  {[set |-> TRUE, users |-> us, room |-> r, replyTo |-> to] :
     us \in {{}, {"@ann", "@lee"}, {"@slack", "@other"}}, r \in BOOLEAN, to \in {"", "@ann"}}
MCTeams == {[kind |-> "none", members |-> <<>>], [kind |-> "org", members |-> <<>>],
            [kind |-> "team", members |-> <<"U1">>]}
MCGhostOf == [u \in {"U1", "U2"} |-> IF u = "U1" THEN "@ann" ELSE "@lee"]
MCSlackUserOf == [m \in {"@ann", "@lee", "@slack", "@other"} |-> IF m = "@ann" THEN "U1" ELSE "none"]
MCLoginOf == [m \in {"@ann", "@lee", "@slack", "@other"} |-> IF m = "@lee" THEN "U2" ELSE "none"]
MCRoomOf == [c \in {"C1", "C2"} |-> IF c = "C1" THEN "!one" ELSE "none"]
MCChannelOf == [r \in {"!one"} |-> "C1"]

TextAtRest ==
  /\ phase = "done" /\ message = NoMessage /\ html = <<>> /\ mentions = NoMentions
  /\ rich = <<>> /\ team = [kind |-> "none", members |-> <<>>]
PartsAtRest ==
  /\ posted = [text |-> 0, files |-> <<>>, images |-> {}, bot |-> FALSE]
  /\ current = posted /\ parts = {} /\ changes = MaxChanges
  /\ pending = FALSE /\ silent = FALSE /\ orphaned = FALSE

ConversionSpec ==
  /\ \/ Init /\ PartsAtRest /\ GovernanceAtRest
     \/ PartsInit /\ TextAtRest /\ GovernanceAtRest
     \/ GovernanceStart /\ TextAtRest /\ PartsAtRest
  /\ [][\/ Next /\ UNCHANGED <<partsVars, dataVars>>
        \/ PartsNext /\ UNCHANGED <<vars, dataVars>>
        \/ /\ TextAtRest /\ PartsAtRest
           /\ GovernanceNext
           /\ UNCHANGED <<vars, partsVars>>]_<<vars, partsVars, dataVars>>

===============================================================================
