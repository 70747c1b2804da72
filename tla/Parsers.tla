------------------------------ MODULE Parsers ------------------------------
(***************************************************************************)
(* The parsers of wsd and wscat, each next to what it is meant to compute: *)
(* parse_uri (uri.c), parse_request_line, http_header_tok,                 *)
(* parse_header_field and http_field_value_tok (parser.c) with the checks  *)
(* http_recv makes on their results (http.c), trim (common.c) and          *)
(* balanced_span (wscat.c).                                                *)
(*                                                                         *)
(* The input grows by one character or by one header field at a time, so   *)
(* that every input up to the bounds is a state.  Abstraction: a character *)
(* stands for all that its parser treats alike ("c" is any other one).     *)
(***************************************************************************)
EXTENDS Integers, Sequences, FiniteSets, FiniteSetsExt

CONSTANTS
    MaxText,    \* MaxText[g]: bound on the length of texts of the grammar g
    Lines,      \* header fields: see HeaderFields
    MaxLines    \* bound on their number

UriChars == {"colon", "slash", "hash", "query", "c"}    \* : / # ? (no IP literals)
ListChars == {"blank", "comma", "U", "c"}   \* "U": the word looked for begins here
JsonChars == {"open", "close", "quote", "c"}    \* { } and an unescaped "
UpperCase == {"G", "E", "T"}
RequestChars == UpperCase \cup {"blank", "star", "v"}   \* "v": HTTP/1.1

Alphabet == [uri |-> UriChars, list |-> ListChars, json |-> JsonChars,
             request |-> RequestChars]

\* A field whose name is, or (if more) only begins with, one that is looked for;
\* does a colon follow; is there a value, and if so, does it contain the word that
\* is looked for; and has it a character the tokeniser does not know?  Without a
\* colon the value is what follows the next one in the buffer: it may be anything.
HeaderFields == [name : {"Host", "Upgrade", "Connection", "other"},
                 more : BOOLEAN, colon : BOOLEAN, value : {"empty", "good", "bad"},
                 odd : BOOLEAN]

ASSUME ParsersAssumption ==
    /\ MaxText \in [DOMAIN Alphabet -> Nat]
    /\ Lines \subseteq HeaderFields
    /\ MaxLines \in Nat

VARIABLES
    grammar,    \* of the text
    text,
    fields      \* header fields of a request

vars == <<grammar, text, fields>>

Init == grammar \in DOMAIN Alphabet /\ text = <<>> /\ fields = <<>>

AddChar ==
    /\ fields = <<>>
    /\ Len(text) < MaxText[grammar]
    /\ \E c \in Alphabet[grammar] : text' = Append(text, c)
    /\ UNCHANGED <<grammar, fields>>

AddField ==
    /\ grammar = "request" /\ text = <<>>
    /\ Len(fields) < MaxLines
    /\ \E f \in Lines : fields' = Append(fields, f)
    /\ UNCHANGED <<grammar, text>>

Next == AddChar \/ AddField

Spec == Init /\ [][Next]_vars

-----------------------------------------------------------------------------
(* Texts                                                                   *)

\* The character at i, or the end of the text.
At(t, i) == IF i <= Len(t) THEN t[i] ELSE "end"

\* The first position from i on at a character of stop, or at the end.
Scan(t, i, stop) == Min({j \in i .. Len(t) : t[j] \in stop} \cup {Len(t) + 1})

\* The positions a, ..., b - 1.
Part(t, a, b) == IF a < b THEN [i \in 1 .. b - a |-> At(t, a + i - 1)] ELSE <<>>

Chars(t) == {t[i] : i \in 1 .. Len(t)}

-----------------------------------------------------------------------------
(* parse_uri                                                               *)

NoUri == [ok |-> FALSE]
Uri(s, h, p, q) == [ok |-> TRUE, scheme |-> s, host |-> h, port |-> p, path |-> q]

\* The path, which begins at i; it ends at "#".
uri_path(t, i, s, h, p) ==
    IF At(t, i) = "end" THEN Uri(s, h, p, <<"slash">>)
    ELSE IF At(t, i) # "slash" \/ At(t, i + 1) = "slash" THEN NoUri
    ELSE Uri(s, h, p, Part(t, i, Scan(t, i, {"hash"})))

\* Mutation of parse_uri: an empty port is a port.
M_parse_uri(t) ==
    LET a == Scan(t, 1, {"colon"})
        b == Scan(t, a + 3, {"colon", "slash"})
        c == Scan(t, b + 1, {"slash"})
    IN  IF \/ At(t, a) = "end" \/ a = 1
           \/ At(t, a + 1) # "slash" \/ At(t, a + 2) # "slash"
           \/ b = a + 3
        THEN NoUri
        ELSE IF At(t, b) = "colon"
        THEN uri_path(t, c, Part(t, 1, a), Part(t, a + 3, b), Part(t, b + 1, c))
        ELSE uri_path(t, b, Part(t, 1, a), Part(t, a + 3, b), <<>>)

\* a: the colon behind the scheme; b: the end of the host; c: that of the port.
parse_uri(t) ==
    LET a == Scan(t, 1, {"colon"})
        b == Scan(t, a + 3, {"colon", "slash"})
        c == Scan(t, b + 1, {"slash"})
    IN  IF \/ At(t, a) = "end" \/ a = 1
           \/ At(t, a + 1) # "slash" \/ At(t, a + 2) # "slash"
           \/ b = a + 3
        THEN NoUri
        ELSE IF At(t, b) = "colon"
        THEN IF c = b + 1 THEN NoUri
             ELSE uri_path(t, c, Part(t, 1, a), Part(t, a + 3, b), Part(t, b + 1, c))
        ELSE uri_path(t, b, Part(t, 1, a), Part(t, a + 3, b), <<>>)

-----------------------------------------------------------------------------
(* Values that are lists of words                                          *)

Blank(c) == c = "blank"

\* Mutation of trim: p stays where it is, only the length shrinks.
M_trim(t, a, n) == IF n > 0 /\ Blank(At(t, a)) THEN <<a, n - 1>> ELSE <<a, n>>

\* The chunk of t of length n at a, less blanks.  The first loop moves both p and
\* the index i into it, so that it looks at every other character.
trim(t, a, n) ==
    LET k == Min({j \in 0 .. n : j = n \/ ~Blank(At(t, a + 2 * j))})
        words == {j \in a + k .. a + n - 1 : ~Blank(At(t, j))}
    IN  <<a + k, IF words = {} THEN 0 ELSE Max(words) - (a + k) + 1>>

\* http_field_value_tok: the length of the element that begins at i.
http_field_value_tok(t, i) == Scan(t, i, {"comma"}) - i

\* strncasecmp compares as many characters as the word has, whatever the length
\* of the element.
has_upgrade(t, i, n) == At(t, trim(t, i, n)[1]) = "U"

\* tokenise_connection, and the loop of is_valid_upgrade_header_field: element by
\* element until one is found or one is empty.
tokenise_connection(t) ==
    LET found[i \in 1 .. Len(t) + 2] ==
            LET n == IF i > Len(t) THEN 0 ELSE http_field_value_tok(t, i)
            IN  n > 0 /\ (has_upgrade(t, i, n) \/ found[i + n + 1])
    IN  found[1]

-----------------------------------------------------------------------------
(* The request line                                                        *)

\* Method, target and version; the target may be empty, and so may the method.
parse_request_line(t) ==
    LET a == Min({j \in 1 .. Len(t) : t[j] \notin UpperCase} \cup {Len(t) + 1})
        b == Scan(t, a + 1, {"blank"})
    IN  IF \/ t = <<>> \/ At(t, a) # "blank" \/ At(t, b) # "blank"
           \/ Len(t) # b + 1 \/ At(t, b + 1) # "v"
        THEN [ok |-> FALSE]
        ELSE [ok |-> TRUE, method |-> Part(t, 1, a), target |-> Part(t, a + 1, b)]

\* Mutation of is_valid_req_line: an empty target is not refused.
M_is_valid_req_line(r) ==
    /\ Len(r.method) = 3 => r.method = <<"G", "E", "T">>
    /\ r.target # <<"star">>

\* Of the methods only those of three letters are looked at.  The target "*" is
\* refused, and an empty one, as a prefix of it.
is_valid_req_line(r) ==
    /\ Len(r.method) = 3 => r.method = <<"G", "E", "T">>
    /\ r.target \notin {<<>>, <<"star">>}

-----------------------------------------------------------------------------
(* Header fields                                                           *)

Absent == [present |-> FALSE, good |-> FALSE]

\* ASSIGN.  Without a colon the length is less than 0, which as an unsigned int is
\* not 0 either.
Value(f) == [present |-> ~f.colon \/ f.value # "empty", good |-> f.value = "good"]

\* Mutation of parse_header_field: the second Connection replaces the first.
M_parse_header_field(f, req) ==
    CASE f.name = "Host"       -> [req EXCEPT !.host = Value(f)]
      [] f.name = "Upgrade"    -> [req EXCEPT !.upgrade = Value(f)]
      [] f.name = "Connection" -> [req EXCEPT !.conn = Value(f)]
      [] OTHER -> req

\* Names are compared as prefixes; a later field replaces an earlier one, but of
\* Connection fields the first that is not empty and the last are kept.
parse_header_field(f, req) ==
    CASE f.name = "Host"       -> [req EXCEPT !.host = Value(f)]
      [] f.name = "Upgrade"    -> [req EXCEPT !.upgrade = Value(f)]
      [] f.name = "Connection" -> IF req.conn.present THEN [req EXCEPT !.conn2 = Value(f)]
                                  ELSE [req EXCEPT !.conn = Value(f)]
      [] OTHER -> req

\* http_header_tok fails at a character it does not know, and http_recv takes
\* this for the end of the fields.
Seen(fs) == {i \in 1 .. Len(fs) : \A j \in 1 .. i : ~fs[j].odd}

\* The loop of http_recv over the fields.
parsed(fs) ==
    LET req[i \in 0 .. Len(fs)] ==
            IF i = 0 THEN [host |-> Absent, upgrade |-> Absent, conn |-> Absent,
                           conn2 |-> Absent]
            ELSE IF i \in Seen(fs) THEN parse_header_field(fs[i], req[i - 1])
            ELSE req[i - 1]
    IN  req[Len(fs)]

\* is_valid_host_header_field, is_valid_upgrade_header_field and
\* is_valid_connection_header_field.
http_recv(fs) ==
    LET req == parsed(fs)
    IN  req.host.present /\ req.upgrade.good /\ (req.conn.good \/ req.conn2.good)

-----------------------------------------------------------------------------
(* JSON on standard input                                                  *)

\* Mutation of balanced_span: the count begins at 0.
M_balanced_span(t) ==
    LET num[i \in 0 .. Len(t)] ==
            IF i = 0 THEN 0
            ELSE IF t[i] = "open" THEN num[i - 1] + 1
            ELSE IF t[i] = "close" THEN num[i - 1] - 1 ELSE num[i - 1]
        ends == {i \in 1 .. Len(t) : num[i] = 0}
    IN  IF ends = {} THEN -1 ELSE Min(ends)

\* num is -1 before the first brace, and may be so again.
balanced_span(t) ==
    LET num[i \in 0 .. Len(t)] ==
            IF i = 0 THEN -1
            ELSE IF t[i] = "open" THEN (IF num[i - 1] = -1 THEN 1 ELSE num[i - 1] + 1)
            ELSE IF t[i] = "close" THEN num[i - 1] - 1 ELSE num[i - 1]
        ends == {i \in 1 .. Len(t) : t[i] = "close" /\ num[i] = 0}
    IN  IF ends = {} THEN -1 ELSE Min(ends)

-----------------------------------------------------------------------------
(* Properties                                                              *)

\* t is scheme "://" host [":" port] [path ["?" query] ["#" fragment]], cut at i, j
\* and k: neither port nor path is empty if there is one, and a path does not begin
\* with "//".  Path and query are one here, as they are for the code.
SchemeEnds(t) == {i \in 2 .. Len(t) : /\ "colon" \notin Chars(Part(t, 1, i))
                                      /\ Part(t, i, i + 3) = <<"colon", "slash", "slash">>}
UriCut(t, i, j, k) ==
    /\ j > i + 3 /\ Chars(Part(t, i + 3, j)) \cap {"colon", "slash", "query", "hash"} = {}
    /\ \/ k = j
       \/ /\ k > j + 1 /\ t[j] = "colon"
          /\ Chars(Part(t, j + 1, k)) \cap {"slash", "query", "hash"} = {}
    /\ k <= Len(t) => t[k] = "slash" /\ At(t, k + 1) # "slash"

\* The path that a URI cut at k denotes: "/" if there is none, and no fragment.
UriPath(t, k) ==
    IF k = Len(t) + 1 THEN <<"slash">>
    ELSE LET n == Cardinality({m \in k .. Len(t) : "hash" \notin Chars(Part(t, k, m + 1))})
         IN  Part(t, k, k + n)

\* "?" and "#" end an authority (RFC 3986, section 3.2), but not for parse_uri.
Unended(r) == (Chars(r.host) \cup Chars(r.port)) \cap {"query", "hash"} # {}

\* parse_uri accepts every text of that form and finds its parts.  Of others it
\* accepts only those whose authority it does not see the end of, as in ws://h#f,
\* which wscat.8 ("as defined in RFC 3986") would have as the host h.
UriParsed ==
    grammar = "uri" =>
        LET r == parse_uri(text)
            all == 1 .. Len(text) + 1
            cuts == {x \in SchemeEnds(text) \X all \X all : UriCut(text, x[1], x[2], x[3])}
        IN  /\ r.ok => cuts # {} \/ Unended(r)
            /\ \A x \in cuts : /\ r.ok /\ ~Unended(r)
                               /\ r.scheme = Part(text, 1, x[1])
                               /\ r.host = Part(text, x[1] + 3, x[2])
                               /\ r.port = Part(text, x[2] + 1, x[3])
                               /\ r.path = UriPath(text, x[3])

\* The elements of a list, as intervals a .. b - 1.
Elements(t) ==
    {x \in (1 .. Len(t) + 1) \X (1 .. Len(t) + 1) :
        /\ x[1] <= x[2]
        /\ x[1] = 1 \/ t[x[1] - 1] = "comma"
        /\ At(t, x[2]) \in {"comma", "end"}
        /\ "comma" \notin Chars(Part(t, x[1], x[2]))}

\* A list as browsers write it: no element is empty, at most one blank is in front
\* of a word, and a word has more than one letter.
WellFormed(t) ==
    /\ t # <<>> /\ t[Len(t)] # "comma"
    /\ \A x \in Elements(t) :
          /\ x[1] < x[2]
          /\ Blank(t[x[1]]) => /\ x[1] + 2 < x[2]
                               /\ ~Blank(t[x[1] + 1]) /\ ~Blank(t[x[1] + 2])

\* In such a list the word is found exactly if an element begins with it, although
\* trim does not look at every character.
ListSearched ==
    grammar = "list" /\ WellFormed(text) =>
        (tokenise_connection(text) <=>
            \E x \in Elements(text) :
                \E i \in x[1] .. x[2] - 1 :
                    text[i] = "U" /\ \A j \in x[1] .. i - 1 : Blank(text[j]))

\* A request line is accepted exactly if it is upper-case letters, which are GET if
\* they are three, a blank, a target without blanks that is neither empty nor "*", a
\* blank and HTTP/1.1.
RequestLineParsed ==
    grammar = "request" =>
        LET r == parse_request_line(text)
        IN  (r.ok /\ is_valid_req_line(r)) <=>
                \E m, n \in 0 .. Len(text) :
                    /\ Len(text) = m + n + 3
                    /\ \A i \in 1 .. m : text[i] \in UpperCase
                    /\ m = 3 => text[1] = "G" /\ text[2] = "E" /\ text[3] = "T"
                    /\ text[m + 1] = "blank" /\ text[m + n + 2] = "blank"
                    /\ text[m + n + 3] = "v"
                    /\ "blank" \notin Chars(SubSeq(text, m + 2, m + n + 1))
                    /\ SubSeq(text, m + 2, m + n + 1) \notin {<<>>, <<"star">>}

\* The fields an upgrade needs, in any order and among others, are all seen: a
\* request with one Host, one Upgrade and at most two Connection fields is accepted
\* if Host is not empty and the others have, once at least, the word they must,
\* provided that no other name begins like theirs (as Upgrade-Insecure-Requests
\* does), that every line has a colon, and that no character ends the fields early.
\* And none is accepted in which no field with a name that begins so has such a
\* value (or no colon): no word is taken from another field, and none is made up.
\* (A request with Hostname in place of Host is accepted, although RFC 7230, section
\* 5.4, which http.c takes for a "MUST", asks for Host.)
FieldsFound ==
    LET with(n) == {i \in 1 .. Len(fields) : fields[i].name = n}
        good(n) == {i \in with(n) : fields[i].value = "good"}
        plain == /\ \A i \in 1 .. Len(fields) : /\ ~fields[i].more /\ ~fields[i].odd
                                                /\ fields[i].colon
                 /\ Cardinality(with("Host")) = 1 /\ Cardinality(with("Upgrade")) = 1
                 /\ Cardinality(with("Connection")) <= 2
        needed == /\ \E i \in with("Host") : ~fields[i].colon \/ fields[i].value # "empty"
                  /\ good("Upgrade") # {} /\ good("Connection") # {}
    IN  /\ plain /\ needed => http_recv(fields)
        /\ http_recv(fields) => needed

\* Is the i-th character inside a string of the JSON text t?
InString(t, i) == Cardinality({j \in 1 .. i - 1 : t[j] = "quote"}) % 2 = 1

\* How often is the brace c among the first i characters, outside strings?
Outside(t, i, c) == Cardinality({j \in 1 .. i : t[j] = c /\ ~InString(t, j)})

\* No closing brace comes first, which nothing balances.
NoStray(t) == \A i \in 1 .. Len(t) : Outside(t, i, "open") > 0 \/ Outside(t, i, "close") = 0

\* Where the object in front of t ends, or -1.
ObjectEnd(t) ==
    LET ends == {i \in 1 .. Len(t) : /\ Outside(t, i, "open") > 0
                                     /\ Outside(t, i, "open") = Outside(t, i, "close")}
    IN  IF ends = {} THEN -1 ELSE Min(ends)

\* The object in front of standard input is as long as balanced_span says, unless
\* braces are in a string of it, which the code does not know from others: then an
\* object is not "sent in a single frame", as wscat.8 says of -j, but cut in two.
SpanFound ==
    /\ grammar = "json" /\ NoStray(text)
    /\ \A i \in 1 .. Len(text) : InString(text, i) => text[i] \notin {"open", "close"}
    => balanced_span(text) = ObjectEnd(text)

=============================================================================
