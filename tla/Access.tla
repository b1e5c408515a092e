------------------------------- MODULE Access -------------------------------
(***************************************************************************)
(* Who may use a server, and which bytes of a file it answers with: the    *)
(* middlewares of auth.rs, the cookie a browser keeps, and the ranges of   *)
(* GET /api/file (range.rs, download_file in transport.rs).                *)
(*                                                                         *)
(* A token lives as long as its server; a server that is started again has *)
(* a new one.  Browsers keep one cookie of this name per host whatever the *)
(* port, so all servers here share it.  Answers arrive in any order.  The  *)
(* page drops the token from its address once it is loaded (api.ts), so    *)
(* later requests have the cookie alone; other programs send the header.   *)
(***************************************************************************)
EXTENDS Integers

CONSTANTS
    Servers, Tokenless,  \* servers of one host, and those started without --token
    Writeless,      \* the read-only ones
    Lifetime,       \* --expire of each server, or Nil
    MaxStarts,      \* bound: how often each server is started
    MaxRequests,    \* bound: requests in a behaviour
    MaxTime,        \* bound: the clock
    U64,            \* u64::MAX, small
    Nil

VARIABLES
    now,
    starts,     \* how often each server was started
    expires,    \* expires_at of each server
    jar,        \* the browser's cookie: a token, and when it ends
    wire,       \* requests and answers under way
    sent,       \* how many requests were sent
    admitted,   \* history: servers whose link the browser has opened, and got its answer
    unsettled,  \* history: of these, those whose cookie another answer changed
    asked, got  \* the last range asked for, and the answer

doorVars == <<now, starts, expires, jar, wire, sent, admitted, unsettled, asked, got>>

AccessAssumption ==
    /\ Tokenless \subseteq Servers
    /\ Nil \notin Int /\ Nil \notin Servers \X Nat
    /\ Lifetime \in [Servers -> Nat \cup {Nil}]
    /\ U64 \in Nat

Token(s) == <<s, starts[s]>>
NoCookie == [value |-> Nil, until |-> Nil]

Expired(s) == expires[s] # Nil /\ now >= expires[s]

\* A cookie whose Max-Age is over is not sent, nor is it there.
Cookie == IF jar.until # Nil /\ now >= jar.until THEN Nil ELSE jar.value

-----------------------------------------------------------------------------
(* The middlewares *)

NoAnswer == [status |-> 0, cookie |-> "keep", age |-> Nil]

unauthorized_response(clear) ==
    [status |-> 401, cookie |-> IF clear THEN "clear" ELSE "keep", age |-> Nil]

read_only_middleware(q) ==
    [NoAnswer EXCEPT !.status = IF q.server \in Writeless /\ q.writes THEN 403 ELSE 200]

cookie_max_age_secs(s) == IF expires[s] = Nil THEN Nil ELSE expires[s] - now

\* Mutated: a browser that has a cookie gets no other.
middlewareKeeping(q) ==
    LET s == q.server
        provided == IF q.header # Nil THEN q.header
                    ELSE IF q.query # Nil THEN q.query ELSE q.cookie
    IN IF s \in Tokenless \/ q.public THEN read_only_middleware(q)
       ELSE IF provided = Nil THEN unauthorized_response(FALSE)
       ELSE IF provided # Token(s) \/ Expired(s) THEN unauthorized_response(q.cookie # Nil)
       ELSE IF q.query # Nil /\ q.cookie = Nil
            THEN [read_only_middleware(q) EXCEPT !.cookie = "set", !.age = cookie_max_age_secs(s)]
            ELSE read_only_middleware(q)

\* The header counts before the query and the query before the cookie; a query
\* token is stored whatever the cookie was.
middleware(q) ==
    LET s == q.server
        provided == IF q.header # Nil THEN q.header
                    ELSE IF q.query # Nil THEN q.query ELSE q.cookie
    IN IF s \in Tokenless \/ q.public THEN read_only_middleware(q)
       ELSE IF provided = Nil THEN unauthorized_response(FALSE)
       ELSE IF provided # Token(s) \/ Expired(s) THEN unauthorized_response(q.cookie # Nil)
       ELSE IF q.query # Nil
            THEN [read_only_middleware(q) EXCEPT !.cookie = "set", !.age = cookie_max_age_secs(s)]
            ELSE read_only_middleware(q)

-----------------------------------------------------------------------------
(* Ranges *)

Headers == [start : 0..U64 \cup {Nil}, end : 0..U64 \cup {Nil}]
Error == [from |-> Nil, to |-> Nil]

normalize_range(start, end, size) ==
    LET last == IF end <= size - 1 THEN end ELSE size - 1
    IN IF size = 0 \/ start >= size \/ last < start THEN Error ELSE [from |-> start, to |-> last]

\* The subtraction of one from an empty file's size wraps, or panics in a debug
\* build, which the client sees as an error too.
WrappedLast(size) == (size + U64) % (U64 + 1)

\* Mutated: the bytes before the suffix are counted from the last one.
parseFromLast(h, size) ==
    IF h.start = Nil
    THEN IF h.end \in {Nil, 0} THEN Error
         ELSE normalize_range(IF h.end >= size THEN 0 ELSE size - 1 - h.end, WrappedLast(size), size)
    ELSE normalize_range(h.start,
            IF h.end # Nil THEN h.end ELSE IF size = 0 THEN 0 ELSE size - 1, size)

parse_range_header(h, size) ==
    IF h.start = Nil
    THEN IF h.end \in {Nil, 0} THEN Error
         ELSE normalize_range(IF h.end >= size THEN 0 ELSE size - h.end, WrappedLast(size), size)
    ELSE normalize_range(h.start,
            IF h.end # Nil THEN h.end ELSE IF size = 0 THEN 0 ELSE size - 1, size)

\* Without the header the whole file is sent, also an empty one.  Nothing else
\* bears on it: to bound the states it is tried alone.
download_file(h, size) ==
    /\ sent = 0 /\ now = 0 /\ asked = Nil
    /\ asked' = [header |-> h, size |-> size]
    /\ got' = IF h = Nil THEN [status |-> 200, from |-> 0, length |-> size]
              ELSE LET r == parse_range_header(h, size)
                   IN IF r = Error THEN [status |-> 500, from |-> 0, length |-> 0]
                      ELSE [status |-> 206, from |-> r.from, length |-> r.to - r.from + 1]
    /\ UNCHANGED <<now, starts, expires, jar, wire, sent, admitted, unsettled>>

-----------------------------------------------------------------------------
(* Browsers, other programs and servers *)

SendRequest(s, query, header, cookie, writes, public) ==
    /\ asked = Nil /\ sent < MaxRequests /\ sent' = sent + 1
    /\ wire' = wire \cup {[server |-> s, query |-> query, header |-> header, cookie |-> cookie,
                           writes |-> writes, public |-> public, answer |-> NoAnswer]}
    /\ UNCHANGED <<now, starts, expires, jar, admitted, unsettled, asked, got>>

\* The link of the banner, or one of an earlier start.
OpenLink(s, n) == SendRequest(s, <<s, n>>, Nil, Cookie, FALSE, FALSE)

Fetch(s) == SendRequest(s, Nil, Nil, Cookie, TRUE, FALSE)

\* Assets need no token, and other programs have no cookie: neither answer
\* touches the jar, and to bound the states they are sent alone.
Asset(s) == wire = {} /\ SendRequest(s, Nil, Nil, Cookie, FALSE, TRUE)
OtherProgram(s, n) == wire = {} /\ SendRequest(s, Nil, <<s, n>>, Nil, TRUE, FALSE)

Respond(q) ==
    /\ q.answer.status = 0
    /\ wire' = (wire \ {q}) \cup {[q EXCEPT !.answer = middleware(q)]}
    /\ UNCHANGED <<now, starts, expires, jar, sent, admitted, unsettled, asked, got>>

\* The browser sees the answer: Max-Age counts from now.
Receive(q) ==
    LET a == q.answer
        link == q.query = Token(q.server) /\ a.status = 200 /\ q.server \notin Tokenless
    IN /\ a.status # 0
       /\ wire' = wire \ {q}
       /\ jar' = IF q.header # Nil \/ a.cookie = "keep" THEN jar
                 ELSE IF a.cookie = "clear" THEN NoCookie
                 ELSE [value |-> q.query, until |-> IF a.age = Nil THEN Nil ELSE now + a.age]
       /\ admitted' = IF link THEN admitted \cup {q.server} ELSE admitted
       /\ unsettled' =
             (IF jar' = jar THEN unsettled
              ELSE unsettled \cup {s \in admitted :
                       \/ s # q.server \/ q.query \notin {Nil, Token(s)}
                       \/ a.cookie = "clear" /\ q.cookie # Token(s)})
             \ (IF link THEN {q.server} ELSE {})
       /\ UNCHANGED <<now, starts, expires, sent, asked, got>>

Tick ==
    /\ now < MaxTime /\ now' = now + 1
    /\ UNCHANGED <<starts, expires, jar, wire, sent, admitted, unsettled, asked, got>>

\* Requests under way reach the new process, with the new token.
StartAgain(s) ==
    /\ starts[s] < MaxStarts[s]
    /\ starts' = [starts EXCEPT ![s] = @ + 1]
    /\ expires' = [expires EXCEPT ![s] = IF Lifetime[s] = Nil THEN Nil ELSE now + Lifetime[s]]
    /\ admitted' = admitted \ {s} /\ unsettled' = unsettled \ {s}
    /\ UNCHANGED <<now, jar, wire, sent, asked, got>>

DoorInit ==
    /\ now = 0 /\ starts = [s \in Servers |-> 1]
    /\ expires = Lifetime
    /\ jar = NoCookie /\ wire = {} /\ sent = 0
    /\ admitted = {} /\ unsettled = {}
    /\ asked = Nil /\ got = Nil

DoorNext ==
    \/ \E s \in Servers :
        \/ \E n \in 1..starts[s] : OpenLink(s, n) \/ OtherProgram(s, n)
        \/ Fetch(s) \/ Asset(s)
        \/ StartAgain(s)
    \/ \E q \in wire : Respond(q) \/ Receive(q)
    \/ Tick
    \/ \E h \in Headers \cup {Nil}, size \in 0..U64 : download_file(h, size)

DoorSpec == DoorInit /\ [][DoorNext]_doorVars

-----------------------------------------------------------------------------
(* Properties *)

\* A browser that opened a server's link keeps its access until the token
\* expires or the server is started again, whatever older cookie it had and
\* however its requests and their answers overlap.  Not so after an answer of
\* another server of the host, an answer to a request from before the link was
\* opened, or an outdated link: each of these replaces or clears the cookie.
AccessLasts ==
    \A s \in admitted \ unsettled : ~Expired(s) => Cookie = Token(s)

\* The positions a range header stands for.
Wants(h, size) ==
    {p \in 0..(size - 1) :
        IF h.start = Nil THEN p >= size - h.end
        ELSE p >= h.start /\ (h.end # Nil => p <= h.end)}

\* The bytes answered are those the header asks for, for every size up to the
\* width of a u64 and every combination of bounds; nothing to answer is an error.
RangesAreExact ==
    (asked # Nil /\ asked.header # Nil) =>
        LET h == asked.header
            wanted == IF h.start = Nil /\ h.end = Nil THEN {} ELSE Wants(h, asked.size)
        IN IF got.status = 206 THEN wanted = got.from..(got.from + got.length - 1)
           ELSE wanted = {}
=============================================================================
