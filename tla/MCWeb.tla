-------------------------------- MODULE MCWeb -------------------------------
(* The web door's ladder: one request of every shape on its way to the        *)
(* kernel, as the routes are swapped.  The paths are of notes, one of which   *)
(* holds an escaped delimiter.                                                *)
EXTENDS WebLadder, TLC

Letters == [a |-> <<"a">>, b |-> <<"b">>, ab |-> <<"a", ":", "b">>, note |-> <<"note">>, home |-> <<"home">>]
NoteA == <<Letters.note, Letters.a>>
Lit(s) == [var |-> FALSE, raw |-> FALSE, is |-> s, at |-> 0]
Var(i, raw) == [var |-> TRUE, raw |-> raw, is |-> << >>, at |-> i]
One(raw, pin, page) ==
    [pattern |-> <<Lit(Letters.note), Var(2, raw)>>, template |-> <<Lit(<<":", "note", ":">>), Var(2, raw)>>,
     spelledStrict |-> {}, pin |-> pin, redirect |-> page]
Two == [pattern |-> <<Lit(Letters.note), Var(2, FALSE), Var(3, FALSE)>>,
        template |-> <<Lit(<<":", "note", ":">>), Var(2, FALSE), Lit(<<":">>), Var(3, FALSE)>>,
        spelledStrict |-> {}, pin |-> None, redirect |-> None]
Home == <<Lit(<<":", "home">>)>>

Bound(v, n, l) == [verbs |-> v, needs |-> n, lists |-> l]
MCWorlds ==
    {<< >>,
     [i \in {<<":", "note", ":", "a">>} |->
         Bound({"Source", "Sink"}, {<<"Source", "reader">>, <<"Sink", "private">>}, {})],
     [i \in {<<":", "note", ":", "a">>, <<":", "home">>} |-> Bound({"Source"}, {}, {"x"})]}

Visitors == {None, "cookie", "token"}
MCDoors ==
    {[checks |-> TRUE, origins |-> {"own"}, ambient |-> {"cookie"}, names |-> d[1], person |-> [c \in Visitors |-> c],
      grants |-> [c \in Visitors |-> IF c = None THEN "public" ELSE "private"],
      routesOnly |-> d[2], ownPage |-> TRUE, redirected |-> {<<Letters.a>>}, push |-> <<Letters.b>>,
      uploads |-> {NoteA}, maySpill |-> {"private", "reader"}] :
       d \in {<<FALSE, FALSE>>, <<FALSE, TRUE>>, <<TRUE, FALSE>>}}

Get == [method |-> "GET", path |-> NoteA, query |-> << >>, by |-> "here", origin |-> None, site |-> None,
        twice |-> FALSE, creds |-> None, html |-> FALSE, browser |-> FALSE, htmx |-> FALSE, spent |-> FALSE,
        unreadable |-> FALSE, body |-> FALSE]
Paths ==
    {[Get EXCEPT !.path = p, !.method = m, !.creds = c] :
       p \in {NoteA, <<Letters.note, Letters.ab>>, <<Letters.note, Letters.a, Letters.b>>, <<Letters.a>>,
              <<Letters.b>>, << >>, <<Letters.home>>},
       m \in {"GET", "POST", "OPTIONS"}, c \in {None, "token"}}
Asking == <<<<"description", "">>>>
Described == {[Get EXCEPT !.method = m, !.query = Asking, !.creds = c] : m \in {"GET", "HEAD"}, c \in {None, "token"}}
Started ==
    {[Get EXCEPT !.method = m, !.creds = c, !.html = TRUE, !.browser = TRUE, !.body = TRUE,
                 !.by = s[1], !.origin = s[2], !.site = s[3], !.twice = s[4]] :
       m \in {"GET", "POST", "DELETE"}, c \in Visitors,
       s \in {<<"here", "own", "same-origin", FALSE>>, <<"elsewhere", "other", "cross-site", FALSE>>,
              <<"elsewhere", "null", None, FALSE>>, <<"elsewhere", None, "same-site", FALSE>>,
              <<"elsewhere", None, None, FALSE>>, <<"elsewhere", "own", None, TRUE>>}}
Queried ==
    {[Get EXCEPT !.method = m, !.query = q, !.creds = c] : m \in {"GET", "POST", "PUT", "BREW"}, c \in {None, "token"},
       q \in {<<<<"x", 1>>, <<"x", 2>>>>, <<<<"principal", "mallory">>>>, <<<<"as", 1>>, <<"as", 2>>>>,
              <<<<"client", 1>>, <<"client", 2>>>>}}
Odd == {[Get EXCEPT !.spent = TRUE], [Get EXCEPT !.unreadable = TRUE], [Get EXCEPT !.html = TRUE, !.spent = TRUE],
        [Get EXCEPT !.method = "POST", !.htmx = TRUE, !.html = TRUE, !.browser = TRUE]}

MCTables == {<< >>, <<One(FALSE, None, Home)>>, <<One(TRUE, "reader", None), Two>>, <<Two, One(FALSE, "reader", Home)>>}
MCRequests == Paths \union Described \union Started \union Queried \union Odd
=============================================================================
