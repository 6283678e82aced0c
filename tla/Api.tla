-------------------------------- MODULE Api --------------------------------
(***************************************************************************)
(* The handlers of the HTTP server: the REST surface (api.go, dto.go) and  *)
(* the Connect surface (connect.go).                                       *)
(*                                                                         *)
(* The server keeps no state of its own.  A handler is an operator on the  *)
(* request that gives the set of the responses it may send, for the tables *)
(* as they are: more than one because the store may fail, and because the  *)
(* order of a feed may be open (see Queries).                              *)
(*                                                                         *)
(* A text in a request is [form, val]: "empty" if it is absent or empty,   *)
(* "bad" if its parser (Atoi, hex.DecodeString and the length test that    *)
(* follows it) rejects it, and "ok" if the parser returns val.  A parser's *)
(* result is a set: empty when it fails.                                   *)
(***************************************************************************)
EXTENDS Queries

CONSTANTS
  DefaultLimit,   \* the page size of a request that names none: 50
  Half            \* 2^31: half the values of a 32-bit integer

ASSUME ApiAssumption == DefaultLimit \in Nat \ {0} /\ Half \in Nat \ {0}
-----------------------------------------------------------------------------
\* api.go, request parsing.

AtoiDefault(p, def) == IF p.form = "ok" THEN p.val ELSE def

PageParams(r) == [limit  |-> Max({AtoiDefault(r.limit, DefaultLimit), 0}),
                  offset |-> Max({AtoiDefault(r.offset, 0), 0})]

BoolParam(p) == p \in {"1", "true", "yes"}

\* parseTopic, parseXOnly and codec.ParseItemID: hex of the right length.
ParseHex(p) == IF p.form = "ok" THEN {p.val} ELSE {}

\* strconv.Atoi and the range of a byte.
ParseSubtype(p) == IF p.form = "ok" /\ p.val \in 0 .. 255 THEN {p.val} ELSE {}

\* feedQuery: a filter that does not parse is an error.
RestQuery(r) ==
  LET page == PageParams(r)
      Invalid(p, parsed) == p.form # "empty" /\ parsed = {}
  IN  IF Invalid(r.topic, ParseHex(r.topic)) \/ Invalid(r.subtype, ParseSubtype(r.subtype))
      THEN {}
      ELSE {FeedQuery(ParseHex(r.topic), ParseSubtype(r.subtype), BoolParam(r.nsfw),
                      page.limit, page.offset)}

-----------------------------------------------------------------------------
\* Responses.  An error has a status and no list.

WriteErr(status) == [status |-> status, list |-> <<>>]

\* A 200 for each result that the store may return, or a 500 when it returns an error.
Served(results) == {[status |-> 200, list |-> s] : s \in results} \cup {WriteErr(500)}

\* The early return of a handler whose argument does not parse.
Checked(args, Serve(_)) == IF args = {} THEN {WriteErr(400)} ELSE UNION {Serve(a) : a \in args}

Each(Convert(_), s) == [i \in DOMAIN s |-> Convert(s[i])]

\* dto.go.  authorHex gives the empty string for the zero key.
AuthorHex(xpk) == {xpk} \ {ZeroKey}

ToItem(f) == [id |-> f.id, topic |-> f.topic, subtype |-> f.subtype, nsfw |-> f.nsfw,
              author |-> AuthorHex(f.author), vout |-> f.vout, height |-> f.height,
              points |-> f.points, comments |-> f.comments, score |-> f.score]

ToComment(c) == [id |-> c.id, parent |-> c.parent, author |-> {c.author},
                 height |-> c.height, points |-> c.points, score |-> c.score]

ToTopic(t) == [topic |-> t.topic, count |-> t.count, height |-> t.height]

FeedResponse(feeds) == Served({Each(ToItem, s) : s \in feeds})

-----------------------------------------------------------------------------
\* api.go, the handlers.

HandleFrontPage(r) == Checked(RestQuery(r), LAMBDA q : FeedResponse(FrontPage(q)))

HandleNewFeed(r) == Checked(RestQuery(r), LAMBDA q : FeedResponse(NewFeed(q)))

\* A GetItem that finds nothing is a 404.
Found(rows, Convert(_)) ==
  {WriteErr(500)} \cup IF rows = {} THEN {WriteErr(404)} ELSE Served({<<Convert(f)>> : f \in rows})

HandleGetItem(r) == Checked(ParseHex(r.id), LAMBDA id : Found(GetItem(id), ToItem))

HandleThread(r) == Checked(ParseHex(r.id), LAMBDA id : Served({Each(ToComment, Thread(id))}))

HandleByAuthor(r) ==
  LET page == PageParams(r)
  IN  Checked(ParseHex(r.xpk), LAMBDA xpk :
        Served({Each(ToComment, ByAuthor(xpk, page.limit, page.offset))}))

HandleAuthorItems(r) ==
  LET page == PageParams(r)
  IN  Checked(ParseHex(r.xpk), LAMBDA xpk :
        FeedResponse(ItemsByAuthor(xpk, page.limit, page.offset)))

HandleTopics == Served({Each(ToTopic, s) : s \in TopicList(TopicRows, StoryCounts)})

HandleByTopic(r) ==
  LET page == PageParams(r)
  IN  Checked(ParseHex(r.topic), LAMBDA topic :
        FeedResponse(ByTopic(topic, page.limit, page.offset)))

-----------------------------------------------------------------------------
\* connect.go.  A Connect request is the decoded JSON body; json is FALSE for a body that
\* decodeConnect rejects.  An empty body leaves every field zero.

SubtypeNames == <<"SUBTYPE_LINK", "SUBTYPE_TEXT", "SUBTYPE_ASK",
                  "SUBTYPE_SHOW", "SUBTYPE_POLL", "SUBTYPE_JOB">>

\* A subtype without a name is shown as a link.
SubtypeName(n) == SubtypeNames[IF n < Len(SubtypeNames) THEN n + 1 ELSE 1]

SubtypeFromName(name) ==
  IF name \in ToSet(SubtypeNames) THEN SelectInSeq(SubtypeNames, LAMBDA n : n = name) - 1 ELSE 0

\* connectSubtype.UnmarshalJSON: a number is cut to its low byte, a name is looked up, and
\* any other JSON value leaves the link subtype.
UnmarshalSubtype(p) == CASE p.form = "number" -> p.val % 256
                         [] p.form = "name"   -> SubtypeFromName(p.val)
                         [] OTHER             -> 0

LimitOrDefault(n) == IF n = 0 THEN DefaultLimit ELSE n

\* Faulty: a request without a filter leaves IncludeNSFW false, as REST does.
ToQueryDefault(r) ==
  FeedQuery(ParseHex(r.topic), {UnmarshalSubtype(p) : p \in r.subtype}, r.subtype # {},
            LimitOrDefault(r.limit), r.offset)

\* toQuery: a topic that does not parse is no filter; a null subtype is none.
ToQuery(r) ==
  FeedQuery(ParseHex(r.topic), {UnmarshalSubtype(p) : p \in r.subtype}, TRUE,
            LimitOrDefault(r.limit), r.offset)

DecodeConnect(r) == IF r.json THEN {r} ELSE {}

\* The conversions of an int keep its low 32 bits.
Uint32(n) == n % (2 * Half)
Int32(n) == ((n + Half) % (2 * Half)) - Half

ToConnectItem(f) == [id |-> f.id, topic |-> f.topic, subtype |-> SubtypeName(f.subtype),
                     nsfw |-> f.nsfw, author |-> AuthorHex(f.author),
                     height |-> Uint32(f.height), points |-> Int32(f.points),
                     comments |-> Int32(f.comments), score |-> f.score]

ToConnectComment(c) == [id |-> c.id, parent |-> c.parent, author |-> {c.author},
                        height |-> Uint32(c.height), points |-> Int32(c.points),
                        score |-> c.score]

ToConnectTopic(t) == [topic |-> t.topic, height |-> Uint32(t.height)]

ConnectItems(feeds) == Served({Each(ToConnectItem, s) : s \in feeds})

ConnectFrontPage(r) == Checked(DecodeConnect(r), LAMBDA b : ConnectItems(FrontPage(ToQuery(b))))

ConnectNewFeed(r) == Checked(DecodeConnect(r), LAMBDA b : ConnectItems(NewFeed(ToQuery(b))))

ConnectGetItem(r) ==
  Checked(DecodeConnect(r), LAMBDA b :
    Checked(ParseHex(b.id), LAMBDA id : Found(GetItem(id), ToConnectItem)))

ConnectThread(r) ==
  Checked(DecodeConnect(r), LAMBDA b :
    Checked(ParseHex(b.id), LAMBDA id : Served({Each(ToConnectComment, Thread(id))})))

ConnectByAuthor(r) ==
  Checked(DecodeConnect(r), LAMBDA b :
    Checked(ParseHex(b.xpk), LAMBDA xpk :
      ConnectItems(ItemsByAuthor(xpk, LimitOrDefault(b.limit), b.offset))))

ConnectByTopic(r) ==
  Checked(DecodeConnect(r), LAMBDA b :
    Checked(ParseHex(b.topic), LAMBDA topic :
      ConnectItems(ByTopic(topic, LimitOrDefault(b.limit), b.offset))))

\* connectListTopics reads no request body.
ConnectListTopics == Served({Each(ToConnectTopic, s) : s \in TopicList(TopicRows, StoryCounts)})
=============================================================================
