---------------------------- MODULE RequestFields ----------------------------
(* How a request builder of src/src/client/v2 is described: the method of the
   HTTP client that it calls, what its query holds from the start, what each of
   its setters puts into the query, what it posts, and how its prepare reads the
   answer.  The path, with the arguments of the constructor, is left out. *)
NoParameters == <<>>

\* Parameters of the query, each with what its setter makes of the argument.
Parameters(kind, keys) == keys \X {kind}

\* The argument as it is.
Numbers(keys) == Parameters("number", keys)
Texts(keys) == Parameters("text", keys)
Flags(keys) == Parameters("flag", keys)
Lists(keys) == Parameters("list", keys)

\* argument.toString(), of a number and of an address; include.join(',');
\* toISOString() of a Date, and base64StringFunnel.
Printed(keys) == Parameters("printed", keys)
Addresses(keys) == Parameters("address", keys)
Joined(keys) == Parameters("joined", keys)
Moments(keys) == Parameters("moment", keys)
Funnelled(keys) == Parameters("funnelled", keys)

Request(method, decodes, class) ==
  [method |-> method, decodes |-> decodes, class |-> class, fixed |-> NoParameters,
   parameters |-> NoParameters, contentType |-> "application/json", sendsQuery |-> TRUE]

\* executeRequest of JSONRequest, and the class that decodeJSON or decodeMsgpack
\* is called with; in msgpack the query has the format.
Get(class) == Request("get", "json", class)

GetMsgpack(class) ==
  [Request("get", "msgpack", class) EXCEPT !.fixed = [format |-> "msgpack"]]

\* prepare gives the text of the answer, or nothing.
GetText == Request("get", "text", "none")
GetNothing == Request("get", "nothing", "none")

\* The builders that post bytes with a content type of their own.
Post(class, contentType) == [Request("post", "json", class) EXCEPT !.contentType = contentType]

With(request, parameters) ==
  [request EXCEPT !.parameters =
     [key \in {p[1] : p \in parameters} |-> (CHOOSE p \in parameters : p[1] = key)[2]]]

\* executeRequest calls post, or delete, without the query.
WithoutQuery(request) == [request EXCEPT !.sendsQuery = FALSE]

\* Posts null.
PostNothing == WithoutQuery(Request("post", "nothing", "none"))
DeleteNothing == WithoutQuery(Request("delete", "nothing", "none"))
=============================================================================
