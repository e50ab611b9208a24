---------------------------- MODULE ModuleNames ----------------------------
(***************************************************************************)
(* How RequireJS turns the name by which a module is asked for into the    *)
(* name of the module, and that into the address of its file.              *)
(*                                                                         *)
(* A name, a path and an address are sequences of segments, those that the *)
(* code splits at the slashes: an empty first segment is a leading slash.  *)
(* Left out: the normalize method of a plugin, which no plugin here has,   *)
(* urlArgs, and names that end in .js, which are addresses already.        *)
(***************************************************************************)
EXTENDS Naturals, SequencesExt, FiniteSetsExt

----------------------------------------------------------------------------
\* Mutant: only the segment after the .. is looked at.
EndOfTheLine_Ahead(ary, i) == i = 2 /\ Len(ary) > 2 /\ ary[3] = ".."

\* trimDots works in place: the segments from i on are still to be looked at.
\* "End of the line": the .. is left, so that the name keeps a first segment.
EndOfTheLine(ary, i) ==
  i = 2 /\ (ary[1] = ".." \/ (Len(ary) > 2 /\ ary[3] = ".."))

RECURSIVE TrimFrom(_, _)
TrimFrom(ary, i) ==
  IF i > Len(ary) THEN ary
  ELSE IF ary[i] = "" THEN ary
  ELSE IF ary[i] = "." THEN TrimFrom(RemoveAt(ary, i), i)
  ELSE IF ary[i] = ".." /\ EndOfTheLine(ary, i) THEN ary
  ELSE IF ary[i] = ".." /\ i > 1
       THEN TrimFrom(SubSeq(ary, 1, i - 2) \o SubSeq(ary, i + 1, Len(ary)), i - 1)
  ELSE TrimFrom(ary, i + 1)

TrimDots(ary) == TrimFrom(ary, 1)

Relative(name) == name # <<>> /\ Head(name) \in {".", ".."}
IsPackage(cfg, name) == name \in DOMAIN cfg.pkgs

\* The directory that names relative to the module baseName start from.
Directory(cfg, baseName) ==
  IF IsPackage(cfg, baseName) THEN baseName ELSE Front(baseName)

\* The main module of a package goes by the name of the package.
Packaged(cfg, name) ==
  IF \E pkg \in DOMAIN cfg.pkgs : name = pkg \o cfg.pkgs[pkg].main
  THEN SubSeq(name, 1, 1) ELSE name

\* normalize, with <<>> for no baseName
Normalize(cfg, name, baseName) ==
  IF ~Relative(name) THEN name
  ELSE IF baseName # <<>> THEN Packaged(cfg, TrimDots(Directory(cfg, baseName) \o name))
  ELSE IF Head(name) = "." /\ Len(name) > 1 THEN Tail(name)
  ELSE name

----------------------------------------------------------------------------
\* It starts with a slash or a protocol.
Absolute(location) == location # <<>> /\ (location[1] = "" \/ location[1] = "http:")

\* configurePackageDir
PackageOf(pkg, dir) ==
  LET name == <<pkg.name>>
  IN  [location |-> IF dir # <<>> /\ ~Absolute(pkg.location)
                    THEN dir \o (IF pkg.location = <<>> THEN name ELSE pkg.location)
                    ELSE IF pkg.location = <<>> THEN name ELSE pkg.location,
       main |-> IF pkg.main = <<>> THEN <<"main">>
                ELSE IF Head(pkg.main) = "." THEN Tail(pkg.main) ELSE pkg.main]

PackagesAdded(pkgs, list, dir) ==
  FoldLeft(LAMBDA ps, pkg : (<<pkg.name>> :> PackageOf(pkg, dir)) @@ ps, pkgs, list)

\* configure: the paths and the packages are additive, what is new wins.
Configure(cfg, new) ==
  LET dirs == FoldLeft(LAMBDA ps, d : PackagesAdded(ps, d.packages, d.dir),
                       cfg.pkgs, new.packagePaths)
  IN  [baseUrl |-> IF new.baseUrl = <<>> THEN cfg.baseUrl ELSE new.baseUrl,
       paths |-> new.paths @@ cfg.paths,
       pkgs |-> PackagesAdded(dirs, new.packages, <<>>)]

----------------------------------------------------------------------------
\* The prefixes of a name that the configuration has something to say about.
\* A path is looked for before a package of the same name.
Mapped(cfg, name) ==
  {i \in 1..Len(name) : SubSeq(name, 1, i) \in DOMAIN cfg.paths \cup DOMAIN cfg.pkgs}

LocationOf(cfg, name, i) ==
  LET parent == SubSeq(name, 1, i)
  IN  IF parent \in DOMAIN cfg.paths THEN cfg.paths[parent]
      ELSE IF parent = name THEN cfg.pkgs[parent].location \o cfg.pkgs[parent].main
      ELSE cfg.pkgs[parent].location

Located(cfg, name, mapped) ==
  IF mapped = {} THEN name
  ELSE LET i == Max(mapped) IN LocationOf(cfg, name, i) \o SubSeq(name, i + 1, Len(name))

Based(cfg, url) == IF Absolute(url) THEN url ELSE cfg.baseUrl \o url

UrlOf(cfg, name) ==
  IF Absolute(name) THEN name ELSE Based(cfg, Located(cfg, name, Mapped(cfg, name)))

\* nameToUrl, without the ending .js: "start with most specific name".
NameToUrl(cfg, moduleName, relative) == UrlOf(cfg, Normalize(cfg, moduleName, relative))

\* makeModuleMap: the map of a name that was asked for by the module parent,
\* <<>> for none, and the addresses that are known from then on.
ModuleMap(cfg, urlMap, asked, parent) ==
  LET prefix == Normalize(cfg, asked.prefix, parent)
      name == Normalize(cfg, asked.name, parent)
      urls == IF asked.prefix # <<>> \/ name \in DOMAIN urlMap THEN urlMap
              ELSE (name :> NameToUrl(cfg, name, parent)) @@ urlMap
  IN  [prefix |-> prefix, name |-> name, urlMap |-> urls]
=============================================================================
