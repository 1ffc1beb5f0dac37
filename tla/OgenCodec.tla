------------------------------ MODULE OgenCodec ------------------------------
(***************************************************************************)
(* JSON bodies, requests and answers as the code generated by ogen writes  *)
(* and reads them.  A body is a function from field names to values; a     *)
(* value has a kind and holds what some reader looks at.                   *)
(***************************************************************************)
EXTENDS Integers, Sequences

Value(kind, is) == [kind |-> kind, is |-> is]
Text(is)        == Value("string", is)
Number          == Value("number", "")
Null            == Value("null", "")
Array(bodies)   == Value("array", bodies)
Object(body)    == Value("object", body)
Garbage         == Value("text", "")
Bytes(is)       == Value("bytes", is)

\* What the decoder of a field takes.
String    == {"string"}
OptString == {"string"}
Numeric   == {"number"}
Flag      == {"boolean"}
OrNull(kinds) == kinds \cup {"null"}

(***************************************************************************)
(* A schema: the fields whose bit is in the mask, the kinds every field's  *)
(* decoder takes, what is to be done with any other field, the texts that  *)
(* Validate allows, and the schemas of the objects in a field.             *)
(***************************************************************************)
Schema(extra, required, kinds) ==
    [extra |-> extra, required |-> required, kinds |-> kinds,
     allowed |-> <<>>, inner |-> <<>>]
Closed(required, kinds) == Schema("refused", required, kinds)
Open(required, kinds)   == Schema("skipped", required, kinds)

Bodies(value) ==
    CASE value.kind = "object" -> {value.is}
      [] value.kind = "array"  -> {value.is[i] : i \in DOMAIN value.is}
      [] OTHER -> {}

\* Decode: every required field is there, every field is of a kind its decoder
\* takes, and one without a decoder is only met where it is skipped or kept.
Decodes(schema, body, Inner(_, _)) ==
    /\ schema.required \subseteq DOMAIN body
    /\ \A f \in DOMAIN body :
          IF f \in DOMAIN schema.kinds THEN body[f].kind \in schema.kinds[f]
                                       ELSE schema.extra # "refused"
    /\ \A f \in DOMAIN body \cap DOMAIN schema.inner :
          \A b \in Bodies(body[f]) : Inner(schema.inner[f], b)

\* Validate: a text is one of the allowed ones, here and in the objects inside.
Valid(schema, body, Inner(_, _)) ==
    /\ \A f \in DOMAIN body \cap DOMAIN schema.allowed :
          body[f].kind = "string" => body[f].is \in schema.allowed[f]
    /\ \A f \in DOMAIN body \cap DOMAIN schema.inner :
          \A b \in Bodies(body[f]) : Inner(schema.inner[f], b)

\* The schemas of this repository nest at most five deep.
Decodes0(s, b) == Decodes(s, b, LAMBDA t, c : TRUE)
Decodes1(s, b) == Decodes(s, b, Decodes0)
Decodes2(s, b) == Decodes(s, b, Decodes1)
Decodes3(s, b) == Decodes(s, b, Decodes2)
Valid0(s, b) == Valid(s, b, LAMBDA t, c : TRUE)
Valid1(s, b) == Valid(s, b, Valid0)
Valid2(s, b) == Valid(s, b, Valid1)
Valid3(s, b) == Valid(s, b, Valid2)
Reads(s, b) == Decodes(s, b, Decodes3) /\ Valid(s, b, Valid3)

(***************************************************************************)
(* What an activity makes of an answer: it returns a value ("ok"), polls   *)
(* on, returns an error with which Temporal repeats it ("again"), or one   *)
(* with which it does not ("final").                                       *)
(***************************************************************************)
Verdict(end, value) == [end |-> end, value |-> value]
Ok(value) == Verdict("ok", value)
Again == Verdict("again", "")
Final == Verdict("final", "")
Poll  == Verdict("poll", "")

NoId   == 0 \* the empty string in the place of an ID

\* Faulty: a created thing without an ID is asked for again.
IdOrAgain(id) == IF id = NoId THEN Again ELSE Ok(id)

Id(id) == IF id = NoId THEN Final ELSE Ok(id)

(***************************************************************************)
(* Requests and answers.  A path is the sequence of its segments; what a   *)
(* form or JSON body of a request holds is a function like a body.         *)
(***************************************************************************)
Request(method, path, type, token, form) ==
    [method |-> method, path |-> path, type |-> type, token |-> token, form |-> form]

Answer(code, type, value) == [code |-> code, type |-> type, value |-> value]

\* What a response decoder has under one status code: the content types it
\* takes, and the form of the value it makes of a body of one of these.
Case(types, shape, schema) == [types |-> types, shape |-> shape, schema |-> schema]
NoSchema  == Schema("skipped", {}, <<>>)
NoContent == Case({}, "none", NoSchema)

\* A decoder returns a response or an error: of an answer it has no case for, of
\* another content type or with a body that does not fit the schema.
Understood(cases, answer) ==
    /\ answer.code \in DOMAIN cases
    /\ LET c == cases[answer.code] IN
       \/ c.shape = "none"
       \/ /\ answer.type \in c.types
          /\ \/ c.shape = "bytes"
             \/ /\ answer.value.kind = c.shape
                /\ \A b \in Bodies(answer.value) : Reads(c.schema, b)

\* Get of an optional field: its text, unless it is missing or null.
Has(body, field) == field \in DOMAIN body /\ body[field].kind # "null"
Get(body, field, otherwise) == IF Has(body, field) THEN body[field].is ELSE otherwise
==============================================================================
