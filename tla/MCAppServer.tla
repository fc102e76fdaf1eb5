------------------------------ MODULE MCAppServer ------------------------------
(***************************************************************************)
(* A small instance of AppServer for TLC.                                  *)
(***************************************************************************)
EXTENDS AppServer, TLC

CONSTANTS c1, c2, c3, s1, i1, i2, b1, b2

ThreeCalls == {c1, c2, c3}
OneSession == {s1}
TwoIds     == {i1, i2}
TwoBodies  == {b1, b2}

Create(id, body, via) == [kind |-> "create", id |-> id, body |-> body, via |-> via]
Start(thread, via)    == [kind |-> "start", thread |-> thread, via |-> via]
New(given, via)       == [kind |-> "thread", title |-> given, via |-> via]
Refer(thread, via)    == [kind |-> "refer", thread |-> thread, via |-> via]
Get(thread, via)      == [kind |-> "get", thread |-> thread, via |-> via]

\* A create-and-start and its retry, over two transports or one, beside one
\* with the same id for something else; a Thread and a session that reads it
\* twice; a Thread with two Turns; two create-and-starts of which the second
\* evicts the first; a Thread with a title of its own and one without, each with
\* a Turn while a reference is added.  A get of c3, which makes no Thread, is
\* never answered: the session is there for the events alone.
SmallScripts ==
  { (c1 :> Create(i1, b1, s1)) @@ (c2 :> Create(i1, b1, HTTP)) @@ (c3 :> Create(i1, b2, HTTP)),
    (c1 :> Create(i1, b1, s1)) @@ (c2 :> Create(i1, b1, s1)) @@ (c3 :> Create(i1, b2, HTTP)),
    (c1 :> Create(i1, b1, HTTP)) @@ (c2 :> Get(c1, s1)) @@ (c3 :> Get(c1, s1)),
    (c1 :> Create(i1, b1, s1)) @@ (c2 :> Start(c1, HTTP)) @@ (c3 :> Get(c3, s1)),
    (c1 :> Create(i1, b1, HTTP)) @@ (c2 :> Create(i2, b2, HTTP)) @@ (c3 :> Get(c3, s1)),
    (c1 :> New(Given, HTTP)) @@ (c2 :> Start(c1, s1)) @@ (c3 :> Refer(c1, HTTP)),
    (c1 :> New(Default, HTTP)) @@ (c2 :> Start(c1, HTTP)) @@ (c3 :> Refer(c1, s1)) }
===============================================================================
