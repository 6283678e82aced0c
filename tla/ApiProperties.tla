--------------------------- MODULE ApiProperties ---------------------------
(***************************************************************************)
(* What a client may rely on, whichever surface it uses, in every state    *)
(* that the scanner leaves the tables in.  A request of Reader changes no  *)
(* table, so the states without one are all that there are to look at.     *)
(***************************************************************************)
EXTENDS Reader, Api

CONSTANT PageNumbers   \* the limits and offsets that a request may ask for

ASSUME PageAssumption == PageNumbers \subseteq Nat

\* A chain is shorter than 2^32 blocks, and fewer than 2^31 messages and keys occur in it.
ASSUME SizeAssumption ==
  /\ \A b \in Blocks : Height[b] < 2 * Half
  /\ IsFiniteSet(Items) /\ Cardinality(Items) < Half
  /\ IsFiniteSet(Authors) /\ Cardinality(Authors) < Half

\* The texts of a request, for a value and for none.
Text(v) == [form |-> "ok", val |-> v]
NoText == [form |-> "empty", val |-> 0]

\* The same request on both surfaces: one for stories, nsfw ones too.
Rest(limit, offset, topic, subtype, xpk) ==
  [limit |-> Text(limit), offset |-> Text(offset), topic |-> topic, subtype |-> subtype,
   xpk |-> xpk, nsfw |-> "1"]

Connect(limit, offset, topic, subtype, xpk) ==
  [json |-> TRUE, limit |-> limit, offset |-> offset, topic |-> topic, xpk |-> xpk,
   subtype |-> IF subtype.form = "ok" THEN {[form |-> "name", val |-> SubtypeName(subtype.val)]}
               ELSE {}]

\* What the Connect surface shows of a REST list of stories, or of topics.
AsConnectItem(i) ==
  [id |-> i.id, topic |-> i.topic, subtype |-> SubtypeName(i.subtype), nsfw |-> i.nsfw,
   author |-> i.author, height |-> i.height, points |-> i.points, comments |-> i.comments,
   score |-> i.score]

AsConnectTopic(t) == [topic |-> t.topic, height |-> t.height]

Same(rest, connect, Convert(_)) ==
  {[a EXCEPT !.list = Each(Convert, @)] : a \in rest} = connect

AgreeOnLists(limit, offset) ==
  LET filters == {NoText} \cup {Text(n) : n \in 0 .. Len(SubtypeNames) - 1}
      topics2 == {Text(t) : t \in Topics}
  IN  /\ \A topic \in topics2 \cup {NoText}, subtype \in filters :
           LET r == Rest(limit, offset, topic, subtype, NoText)
               c == Connect(limit, offset, topic, subtype, NoText)
           IN  /\ Same(HandleFrontPage(r), ConnectFrontPage(c), AsConnectItem)
               /\ Same(HandleNewFeed(r), ConnectNewFeed(c), AsConnectItem)
      /\ \A topic \in topics2 :
           Same(HandleByTopic(Rest(limit, offset, topic, NoText, NoText)),
                ConnectByTopic(Connect(limit, offset, topic, NoText, NoText)), AsConnectItem)
      /\ \A x \in Authors :
           Same(HandleAuthorItems(Rest(limit, offset, NoText, NoText, Text(x))),
                ConnectByAuthor(Connect(limit, offset, NoText, NoText, Text(x))), AsConnectItem)

AgreeOnItems ==
  \A id \in Items :
    LET r == [json |-> TRUE, id |-> Text(id)]
    IN  /\ Same(HandleGetItem(r), ConnectGetItem(r), AsConnectItem)
        /\ Same(HandleThread(r), ConnectThread(r), LAMBDA c : c)

\* README: "Two equivalent surfaces are served from the same store".  A well-formed request
\* that names a positive limit has the same answers on both, whatever its filters.
SurfacesAgree == req = "idle" =>
  /\ \A limit \in PageNumbers \ {0}, offset \in PageNumbers : AgreeOnLists(limit, offset)
  /\ AgreeOnItems
  /\ Same(HandleTopics, ConnectListTopics, AsConnectTopic)

\* The list of a handler that has one answer.
List(responses) == (CHOOSE a \in responses : a.status = 200).list

\* page, buildFilter and the SQL of ByAuthor: the pages that a client asks for one after
\* the other, with any limit, make up the whole list, in its order and without overlap.
PagesTile == req = "idle" =>
  LET Tile(Handle(_), topic, xpk) ==
        \A limit \in PageNumbers \ {0} :
          LET all == List(Handle(Rest(0, 0, topic, NoText, xpk)))
              PageAt(k) == List(Handle(Rest(limit, k * limit, topic, NoText, xpk)))
          IN  all = FlattenSeq([k \in 1 .. Len(all) + 1 |-> PageAt(k - 1)])
  IN  /\ Tile(HandleNewFeed, NoText, NoText)
      /\ \A t \in Topics : Tile(HandleByTopic, Text(t), NoText)
      /\ \A x \in Authors : /\ Tile(HandleAuthorItems, NoText, Text(x))
                           /\ Tile(HandleByAuthor, NoText, Text(x))
=============================================================================
