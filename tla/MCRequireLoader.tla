-------------------------- MODULE MCRequireLoader --------------------------
(***************************************************************************)
(* The main script of the page with the modules it names, cut down to one  *)
(* of each sort: the menu needs history and jquery-ui, which defines       *)
(* nothing; has and its features are asked for in order.  In the second    *)
(* graph the menu and history need each other.                             *)
(***************************************************************************)
EXTENDS RequireLoader, ModuleNames
CONSTANTS history, menu, has, features

Pages(ofMenu, ofHistory) ==
  [id \in {M(m) : m \in Module} \cup {Page} |->
     CASE id = Page -> <<M(domReady), M(menu), Ordered(has), Ordered(features)>>
       [] id = M(menu) -> ofMenu
       [] id = M(history) -> ofHistory
       [] OTHER -> <<>>]

Graphs == {Pages(<<M(history), M(ui)>>, <<>>),
           Pages(<<M(history), M(ui)>>, <<M(menu)>>)}

----------------------------------------------------------------------------
\* Configurations as main.js has them, one with packages on top, and the names
\* of up to three segments, asked for by modules of up to three.
Unconfigured == [baseUrl |-> <<>>, paths |-> [p \in {} |-> p], pkgs |-> [p \in {} |-> p]]
MainConfig ==
  Configure(Unconfigured,
            [baseUrl |-> <<"", "static">>, packagePaths |-> <<>>, packages |-> <<>>,
             paths |-> <<"a">> :> <<"lib", "a">> @@ <<"a", "b">> :> <<"", "b">>])
NameConfigs ==
  {MainConfig,
   Configure(MainConfig,
             [baseUrl |-> <<>>, paths |-> <<"c", "b">> :> <<"d">>,
              packages |-> <<[name |-> "b", location |-> <<"", "p">>, main |-> <<>>]>>,
              packagePaths |-> <<[dir |-> <<"dir">>, packages |->
                <<[name |-> "c", location |-> <<>>, main |-> <<".", "b">>]>>]>>])}

Names(S, n) == UNION {[1..k -> S] : k \in 1..n}
Bases == Names({"a", "b", "c"}, 3)
Asked == Names({"a", "b", ".", ".."}, 4)

\* A walk from a directory: how far it climbs above the root and what follows.
Walk(name) ==
  FoldLeft(LAMBDA w, s : IF s = "." THEN w
                         ELSE IF s # ".." THEN [w EXCEPT !.down = Append(@, s)]
                         ELSE IF w.down = <<>> THEN [w EXCEPT !.up = @ + 1]
                         ELSE [w EXCEPT !.down = Front(@)],
           [up |-> 0, down |-> <<>>], name)

\* Where a name leads that is asked for by the module base, and whether the way
\* there stays below the root.
Place(cfg, name, base) == Walk(Directory(cfg, base) \o name).down
StaysBelow(ary) == \A i \in 1..Len(ary) : Walk(SubSeq(ary, 1, i)).up = 0
Relatives(cfg, base) ==
  {name \in Asked : Relative(name) /\ StaysBelow(Directory(cfg, base) \o name)}

\* Trimming the dots of a name never changes the place it leads to.
TrimKeepsPlace ==
  \A name \in Asked \cup Names({"a", ".", ".."}, 5) :
    /\ Walk(TrimDots(name)) = Walk(name)
    /\ StaysBelow(name) => TrimDots(name) = Walk(name).down

\* However a module is asked for, by relative names from wherever, it is one
\* module with one address, although the address is that of the first way it
\* was asked for and the name is normalized again for it.  (The main module of a
\* package goes by the name of the package.)
OneModule ==
  \A cfg \in NameConfigs, base \in Bases : \A name \in Relatives(cfg, base) :
    LET at == Place(cfg, name, base)
        map == ModuleMap(cfg, [n \in {} |-> n], [prefix |-> <<>>, name |-> name], base)
    IN  at # <<>> => /\ map.name = Packaged(cfg, at)
                     /\ map.urlMap = map.name :> NameToUrl(cfg, map.name, <<>>)

\* Files that lie together stay together: unless the configuration names one of
\* them, a module and one it asks for by ./x have addresses side by side.
SiblingsTogether ==
  \A cfg \in NameConfigs, base \in Bases, x \in {"a", "b", "c"} :
    LET name == Normalize(cfg, <<".", x>>, base)
    IN  Mapped(cfg, base) \cup Mapped(cfg, name) \subseteq 1..(Len(base) - 1)
        => NameToUrl(cfg, name, base) = Append(Front(NameToUrl(cfg, base, <<>>)), x)

\* The names of the loader lead where they should, on every page: trimDots,
\* normalize, makeModuleMap and nameToUrl agree on what a relative name is.
NamesResolve == html = 0 => TrimKeepsPlace /\ OneModule /\ SiblingsTogether
=============================================================================
