------------------------------- MODULE MCTools -------------------------------
(* Bounded instances of Tools: answers over files and checks, the web's         *)
(* read-ledger, edits of short files, and spawns with their hooks.              *)
EXTENDS Tools

X == <<"d", "x.py">>
Y == <<"d", "y.py">>
Z == <<"dist", "z.js">>  \* below a directory that the walk skips
H == <<".h", "w.yml">>   \* below one whose name begins with a dot
File(p) == [path |-> p, form |-> "local", ext |-> "code", looks |-> "file"]
Folder(p) == [path |-> p, form |-> "local", ext |-> "none", looks |-> "file"]
Say(what) == [says |-> what, hedged |-> FALSE, negated |-> FALSE, own |-> TRUE, flat |-> TRUE,
              meta |-> FALSE, quotes |-> {}, links |-> {}]
Silent == [usable |-> FALSE, flags |-> {}]
Verdict(flags) == [usable |-> TRUE, flags |-> flags]
Flag(names, place, denies) == [names |-> names, place |-> place, denies |-> denies, affirms |-> ~denies]

Grounds == [absenceStrict |-> TRUE, runtimeDone |-> TRUE, web |-> FALSE, mutationClaims |-> TRUE,
            skipGreenfield |-> FALSE, greenfieldMax |-> 0, semantic |-> TRUE, paths |-> TRUE,
            antiCollapse |-> TRUE]
Posix == [windows |-> FALSE, sandbox |-> FALSE, required |-> FALSE]

Base == [calls |-> 1, turns |-> 1, hooks |-> 0, posts |-> 0, enableWeb |-> FALSE, netfence |-> TRUE,
         fuzzy |-> TRUE, fence |-> TRUE, roots |-> {"here"}, host |-> Posix, files |-> {X :> <<>>}, hollow |-> {},
         hidden |-> {}, servers |-> {}, tools |-> {}, elsewhere |-> {}, replies |-> {},
         provider |-> "generic", maxResults |-> 2, on |-> Grounds, depth |-> 0,
         answers |-> {}, verdicts |-> {Silent}, vast |-> FALSE, unwalked |-> {}, bare |-> <<>>,
         rank |-> <<>>, fits |-> {1}]

(* Answers: two turns of calls that change files or run a check or a probe. *)
Segment(verb, args, redirect) ==
  [text |-> verb, verb |-> verb, sub |-> "", args |-> args, dest |-> L!NoPlace, redirect |-> redirect,
   flags |-> {}, inner |-> L!NoLine, subs |-> {}]
Place(name, at) == [name |-> name, far |-> at # "here", at |-> at]
Command(check, probe, outside) ==
  [tool |-> "run_command", check |-> check, probe |-> probe,
   line |-> [segs |-> <<Segment("other", <<>>, Place("log", "here")),
                        [Segment("shell", <<>>, L!NoPlace) EXCEPT !.inner =
                           [segs |-> <<Segment("copies", <<Place("a", "here"),
                                                           Place("b", IF outside THEN "elsewhere" ELSE "here")>>,
                                               L!NoPlace)>>, ops |-> <<>>]]>>,
             ops |-> <<"&&">>]]
AnswerScenario ==
  [Base EXCEPT !.calls = 2, !.turns = 2, !.elsewhere = {Y}, !.hollow = {<<"d">>},
     !.files = {[p \in {X, Z, H} |-> <<>>]}, !.hidden = {Z, H}, !.unwalked = {Z}, !.bare = ".h" :> "h",
     !.tools = {[tool |-> "write_file", path |-> Y, text |-> <<>>],
                [tool |-> "delete_file", path |-> X],
                Command(TRUE, FALSE, FALSE), Command(FALSE, TRUE, FALSE), Command(TRUE, TRUE, TRUE)},
     !.answers = {{Say({"success"})}, {[Say({"success"}) EXCEPT !.hedged = TRUE]},
                  {Say({"runtime"})}, {[Say({"done"}) EXCEPT !.quotes = {File(X)}]},
                  {[Say({"absent"}) EXCEPT !.quotes = {Folder(<<"d">>), Folder(<<"d", "e">>)}]},
                  {[Say({"absent"}) EXCEPT !.quotes = {File(Y)}]},
                  {[Say({}) EXCEPT !.quotes = {File(Y)}]}},
     !.verdicts = {Silent} \cup
       {Verdict({f}) : f \in {Flag({Y}, {}, TRUE), Flag({X}, {X}, TRUE), Flag({Y}, {}, FALSE),
                              Flag({Z}, {}, TRUE), Flag({H}, {}, FALSE)}}]

(* The same answers under other settings: a workspace of one file is a new one. *)
LooseScenario ==
  [AnswerScenario EXCEPT !.calls = 1, !.turns = 1,
     !.on = [Grounds EXCEPT !.absenceStrict = FALSE, !.runtimeDone = FALSE, !.mutationClaims = FALSE,
                            !.skipGreenfield = TRUE, !.greenfieldMax = 1, !.antiCollapse = FALSE]]

(* The web: two spellings of a page and another one, fetched, found and served. *)
P1 == [page |-> "p", as |-> "plain"]
P2 == [page |-> "p", as |-> "slash"]
Q1 == [page |-> "q", as |-> "plain"]
Hop(public, redirects, status) ==
  [host |-> [scheme |-> "https", addrs |-> {public}], redirects |-> redirects, status |-> status]
Get(url, hops) == [tool |-> "web_fetch", url |-> url, hops |-> hops]
Reply(status, body, rows) == [configured |-> TRUE, status |-> status, body |-> body, rows |-> rows]
WebScenario ==
  [Base EXCEPT !.calls = 3, !.turns = 2, !.enableWeb = TRUE,
     !.servers = {[name |-> "browser", web |-> TRUE]},
     !.tools = {Get(P1, <<Hop(TRUE, FALSE, "200")>>), Get(P2, <<Hop(TRUE, TRUE, ""), Hop(TRUE, FALSE, "200")>>),
                Get(Q1, <<Hop(TRUE, TRUE, ""), Hop(FALSE, FALSE, "200")>>),
                Get(Q1, <<Hop(TRUE, FALSE, "404")>>),
                [tool |-> "web_search"],
                [tool |-> "mcp", server |-> [name |-> "browser", web |-> TRUE], urls |-> <<P2>>]},
     !.replies = {Reply("200", "json", <<P1, NoUrl, Q1>>), Reply("200", "json", <<Q1, P2>>),
                  Reply("200", "text", <<>>), Reply("500", "json", <<>>)},
     !.rank = "p" :> 2 @@ "q" :> 1, !.fits = {1, 2},
     !.answers = {{[Say({}) EXCEPT !.links = {P2}]}, {[Say({}) EXCEPT !.links = {P1, Q1}]}}]

(* Edits: every file of up to three lines over two bodies and two indentations. *)
Line(b, w, n) == [body |-> <<b>>, ws |-> w, nl |-> n]
Texts == UNION {[1 .. n -> {Line(b, w, TRUE) : b \in {"a", "b"}, w \in {"tab", "spaces"}}] : n \in 1 .. 3}
Olds == {E!NoText} \cup {<<Line(b, w, n)>> : b \in {"a", "c"}, w \in {"", "tab", "spaces"}, n \in BOOLEAN}
          \cup {<<Line("a", "tab", TRUE), Line(b, w, n)>> : b \in {"b", "c"}, w \in {"tab", "spaces"}, n \in BOOLEAN}
News == {<<[body |-> <<>>, ws |-> "", nl |-> FALSE]>>, <<Line("z", "tab", TRUE)>>, <<Line("z", "tab", FALSE)>>}
EditScenario ==
  [Base EXCEPT !.files = {X :> t : t \in Texts \cup {<<>>}},
     !.tools = {[tool |-> "edit_file", path |-> X, edit |-> [old |-> o, new |-> n, all |-> a]] :
                  o \in Olds, n \in News, a \in BOOLEAN}]

(* Spawns: every host, with hooks before and after a command. *)
SpawnScenario(hooks, host0) ==
  [Base EXCEPT !.calls = 2, !.hooks = hooks, !.posts = hooks, !.host = host0,
     !.tools = {Command(FALSE, FALSE, FALSE)}]
Host(w, s, r) == [windows |-> w, sandbox |-> s, required |-> r]
SpawnScenarios == <<SpawnScenario(0, Host(TRUE, TRUE, TRUE)), SpawnScenario(0, Host(TRUE, TRUE, FALSE)),
                    SpawnScenario(1, Host(FALSE, TRUE, TRUE)), SpawnScenario(0, Host(TRUE, FALSE, FALSE)),
                    [SpawnScenario(2, Posix) EXCEPT !.calls = 1,
                       !.tools = {[tool |-> "delete_file", path |-> X], [tool |-> "web_search"],
                                  [tool |-> "edit_file", path |-> Y]}]>>

MCScenarios == <<AnswerScenario, LooseScenario, WebScenario, EditScenario>> \o SpawnScenarios
MCNear == {{<<"a">>, <<"c">>}}
==============================================================================
