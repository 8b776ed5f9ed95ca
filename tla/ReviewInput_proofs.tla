------------------------- MODULE ReviewInput_proofs -------------------------
(***************************************************************************)
(* The code index for any repository: what a call edge says of its owner   *)
(* and its target, that a file which failed has left nothing, that the     *)
(* index does not change once a review has begun, and that owners are the  *)
(* innermost definitions, as far as files are walked as trees.  Then the   *)
(* context pack and the tools for any pull request: what a section leaves  *)
(* out is counted, an answer is what was asked for or says that there is   *)
(* more, and limits are kept.                                              *)
(***************************************************************************)
EXTENDS ReviewInput, ChangeSet_proofs, FiniteSetTheorems, TLAPS

IsSequence(s) == \E S : s \in Seq(S)

LEMMA Appended ==
  ASSUME NEW s, IsSequence(s), NEW x
  PROVE  /\ IsSequence(Append(s, x))
         /\ \A i \in DOMAIN s : i \in DOMAIN Append(s, x) /\ Append(s, x)[i] = s[i]
         /\ \A i \in DOMAIN Append(s, x) : i \in DOMAIN s \/ Append(s, x)[i] = x
         /\ \E i \in DOMAIN Append(s, x) : Append(s, x)[i] = x
         /\ Append(s, x)[Len(Append(s, x))] = x
  <1>1. PICK S : s \in Seq(S)
    BY DEF IsSequence
  <1>2. s \in Seq(S \cup {x})
    BY <1>1
  <1>3. Append(s, x) \in Seq(S \cup {x}) /\ Len(Append(s, x)) = Len(s) + 1
        /\ DOMAIN s = 1..Len(s) /\ Len(s) \in Nat /\ DOMAIN Append(s, x) = 1..(Len(s) + 1)
        /\ Append(s, x)[Len(s) + 1] = x
        /\ \A i \in 1..Len(s) : Append(s, x)[i] = s[i]
    BY <1>2
  <1>4. IsSequence(Append(s, x))
    BY <1>3 DEF IsSequence
  <1> QED BY <1>3, <1>4

LEMMA Joined ==
  ASSUME NEW s, IsSequence(s), NEW t, IsSequence(t)
  PROVE  /\ IsSequence(s \o t)
         /\ \A i \in DOMAIN (s \o t) : \/ i \in DOMAIN s /\ (s \o t)[i] = s[i]
                                       \/ \E j \in DOMAIN t : (s \o t)[i] = t[j]
         /\ \A i \in DOMAIN s : i \in DOMAIN (s \o t) /\ (s \o t)[i] = s[i]
  <1>1. PICK S, T : s \in Seq(S) /\ t \in Seq(T)
    BY DEF IsSequence
  <1>2. s \in Seq(S \cup T) /\ t \in Seq(S \cup T)
    BY <1>1
  <1>3. /\ s \o t \in Seq(S \cup T)
        /\ Len(s \o t) = Len(s) + Len(t) /\ Len(s) \in Nat /\ Len(t) \in Nat
        /\ DOMAIN s = 1..Len(s) /\ DOMAIN t = 1..Len(t) /\ DOMAIN (s \o t) = 1..(Len(s) + Len(t))
        /\ \A i \in 1..Len(s) : (s \o t)[i] = s[i]
        /\ \A i \in (Len(s) + 1)..(Len(s) + Len(t)) : (s \o t)[i] = t[i - Len(s)]
    BY <1>2
  <1>4. IsSequence(s \o t)
    BY <1>3 DEF IsSequence
  <1>5. ASSUME NEW i \in DOMAIN (s \o t)
        PROVE  \/ i \in DOMAIN s /\ (s \o t)[i] = s[i]
               \/ \E j \in DOMAIN t : (s \o t)[i] = t[j]
    <2>1. CASE i <= Len(s)
      BY <1>3, <2>1
    <2>2. CASE i > Len(s)
      <3>1. i - Len(s) \in DOMAIN t /\ (s \o t)[i] = t[i - Len(s)]
        BY <1>3, <2>2
      <3> QED BY <3>1
    <2> QED BY <1>3, <2>1, <2>2
  <1> QED BY <1>3, <1>4, <1>5

LEMMA JoinedTail ==
  ASSUME NEW s, IsSequence(s), NEW t, IsSequence(t), NEW j \in DOMAIN t
  PROVE  \E i \in DOMAIN (s \o t) : (s \o t)[i] = t[j]
  <1>1. PICK S, T : s \in Seq(S) /\ t \in Seq(T)
    BY DEF IsSequence
  <1>2. s \in Seq(S \cup T) /\ t \in Seq(S \cup T)
    BY <1>1
  <1>3. /\ Len(s) \in Nat /\ Len(t) \in Nat /\ DOMAIN t = 1..Len(t)
        /\ DOMAIN (s \o t) = 1..(Len(s) + Len(t))
        /\ \A i \in (Len(s) + 1)..(Len(s) + Len(t)) : (s \o t)[i] = t[i - Len(s)]
    BY <1>2
  <1>4. Len(s) + j \in DOMAIN (s \o t) /\ (s \o t)[Len(s) + j] = t[j]
    BY <1>3
  <1> QED BY <1>4

LEMMA Emptied == IsSequence(<<>>) /\ DOMAIN <<>> = {}
  <1>1. <<>> \in Seq({})
    OBVIOUS
  <1> QED BY <1>1 DEF IsSequence

LEMMA Fronted ==
  ASSUME NEW s, IsSequence(s)
  PROVE  /\ IsSequence(Front(s))
         /\ \A i \in DOMAIN Front(s) : i \in DOMAIN s /\ Front(s)[i] = s[i]
  <1>1. PICK S : s \in Seq(S)
    BY DEF IsSequence
  <1>2. Front(s) = SubSeq(s, 1, Len(s) - 1) /\ Len(s) \in Nat /\ DOMAIN s = 1..Len(s)
    BY <1>1 DEF Front
  <1>3. CASE Len(s) = 0
    <2>1. Front(s) \in Seq(S) /\ Len(Front(s)) = 0
      BY <1>1, <1>2, <1>3
    <2>2. DOMAIN Front(s) = {}
      BY <2>1
    <2> QED BY <2>1, <2>2 DEF IsSequence
  <1>4. CASE Len(s) > 0
    <2>1. /\ Front(s) \in Seq(S) /\ Len(Front(s)) = Len(s) - 1
          /\ DOMAIN Front(s) = 1..(Len(s) - 1)
          /\ \A i \in 1..(Len(s) - 1) : Front(s)[i] = s[i]
      BY <1>1, <1>2, <1>4
    <2> QED BY <1>2, <2>1 DEF IsSequence
  <1> QED BY <1>2, <1>3, <1>4

-----------------------------------------------------------------------------
Sequences ==
    /\ IsSequence(symbols) /\ IsSequence(edges) /\ IsSequence(scope)
    /\ IsSequence(fileSymbols) /\ IsSequence(fileEdges)
IInv == IndexInv /\ Sequences

LEMMA InitIInv == Init => IInv
  <1> SUFFICES ASSUME Init PROVE IInv
    OBVIOUS
  <1>1. /\ symbols = <<>> /\ edges = <<>> /\ scope = <<>> /\ fileSymbols = <<>> /\ fileEdges = <<>>
        /\ filesIndexed = 0 /\ indexPc = "files" /\ section = "waiting"
    BY DEF Init, IndexInit, PackInit
  <1>2. Sequences
    BY <1>1, Emptied DEF Sequences
  <1>3. IndexInv
    BY <1>1, Emptied DEF IndexInv, SymbolsRight, OwnedBy, Unlinked, OfFile
  <1> QED BY <1>2, <1>3 DEF IInv

\* A step that leaves the lists of the index alone.
LEMMA ListsFrame ==
  ASSUME IInv, UNCHANGED <<symbols, edges, filesIndexed>>
  PROVE  /\ IsSequence(symbols)' /\ IsSequence(edges)'
         /\ SymbolsRight(symbols)' /\ OwnedBy(edges, symbols)' /\ filesIndexed' \in Nat
         /\ (Unlinked(edges)' <=> Unlinked(edges)) /\ (CallsLinked' <=> CallsLinked)
  <1>1. CallsLinked' <=> CallsLinked
    BY DEF CallsLinked, CallEdges, Candidates
  <1> QED BY <1>1 DEF IInv, IndexInv, Sequences, SymbolsRight, OwnedBy, Unlinked

\* Leaving a file forgets what it has given.
LEMMA NextFileClears ==
  ASSUME IInv, NextFile
  PROVE  /\ IsSequence(scope)' /\ IsSequence(fileSymbols)' /\ IsSequence(fileEdges)'
         /\ SymbolsRight(fileSymbols)' /\ OwnedBy(fileEdges, fileSymbols)' /\ Unlinked(fileEdges)'
         /\ OfFile' /\ indexPc' = indexPc
  BY Emptied DEF NextFile, SymbolsRight, OwnedBy, Unlinked, OfFile

LEMMA LeaveFileStep ==
  ASSUME IInv, PassOver \/ FileFails, UNCHANGED section
  PROVE  IInv'
  <1>1. NextFile /\ UNCHANGED <<symbols, edges, filesIndexed>>
    BY DEF PassOver, FileFails
  <1> QED BY <1>1, ListsFrame, NextFileClears DEF IInv, IndexInv, Sequences

\* A file that is done adds its lists.
LEMMA FileDoneStep ==
  ASSUME IInv, FileDone, UNCHANGED section
  PROVE  IInv'
  <1> USE DEF IInv
  <1>1. /\ NextFile /\ indexPc = "files"
        /\ symbols' = symbols \o fileSymbols /\ edges' = edges \o fileEdges
        /\ filesIndexed' = filesIndexed + 1
    BY DEF FileDone
  <1>0. /\ IsSequence(symbols) /\ IsSequence(fileSymbols) /\ IsSequence(edges) /\ IsSequence(fileEdges)
    BY DEF Sequences
  <1>a. /\ IsSequence(symbols')
        /\ \A i \in DOMAIN symbols' : \/ i \in DOMAIN symbols /\ symbols'[i] = symbols[i]
                                      \/ \E j \in DOMAIN fileSymbols : symbols'[i] = fileSymbols[j]
        /\ \A i \in DOMAIN symbols : i \in DOMAIN symbols' /\ symbols'[i] = symbols[i]
        /\ \A j \in DOMAIN fileSymbols : \E i \in DOMAIN symbols' : symbols'[i] = fileSymbols[j]
    <2> DEFINE all == symbols \o fileSymbols
    <2>1. /\ IsSequence(all)
          /\ \A i \in DOMAIN all : \/ i \in DOMAIN symbols /\ all[i] = symbols[i]
                                  \/ \E j \in DOMAIN fileSymbols : all[i] = fileSymbols[j]
      BY ONLY <1>0, Joined
    <2>2. \A i \in DOMAIN symbols : i \in DOMAIN all /\ all[i] = symbols[i]
      BY ONLY <1>0, Joined
    <2>4. \A j \in DOMAIN fileSymbols : \E i \in DOMAIN all : all[i] = fileSymbols[j]
      BY ONLY <1>0, JoinedTail
    <2>3. symbols' = all
      BY <1>1
    <2> HIDE DEF all
    <2> QED BY <2>1, <2>2, <2>3, <2>4
  <1>b. /\ IsSequence(edges')
        /\ \A i \in DOMAIN edges' : \/ i \in DOMAIN edges /\ edges'[i] = edges[i]
                                    \/ \E j \in DOMAIN fileEdges : edges'[i] = fileEdges[j]
    <2> DEFINE all == edges \o fileEdges
    <2>1. /\ IsSequence(all)
          /\ \A i \in DOMAIN all : \/ i \in DOMAIN edges /\ all[i] = edges[i]
                                  \/ \E j \in DOMAIN fileEdges : all[i] = fileEdges[j]
      BY ONLY <1>0, Joined
    <2>2. edges' = all
      BY <1>1
    <2> HIDE DEF all
    <2> QED BY <2>1, <2>2
  <1>2. Sequences'
    BY <1>1, <1>a, <1>b, NextFileClears DEF Sequences
  <1>3. SymbolsRight(symbols)'
    <2> SUFFICES ASSUME NEW i \in DOMAIN symbols'
                 PROVE  /\ symbols'[i].id = <<symbols'[i].path, symbols'[i].qualified>>
                        /\ symbols'[i].name = symbols'[i].qualified[Len(symbols'[i].qualified)]
      BY DEF SymbolsRight
    <2>1. \/ i \in DOMAIN symbols /\ symbols'[i] = symbols[i]
          \/ \E j \in DOMAIN fileSymbols : symbols'[i] = fileSymbols[j]
      BY <1>a
    <2> QED BY <2>1 DEF IndexInv, SymbolsRight
  <1>4. OwnedBy(edges, symbols)'
    <2> SUFFICES ASSUME NEW i \in DOMAIN edges'
                 PROVE  /\ DOMAIN edges'[i] = EdgeFields
                        /\ edges'[i].kind = "calls" =>
                              \E j \in DOMAIN symbols' : symbols'[j].id = edges'[i].source
      BY DEF OwnedBy
    <2>1. CASE i \in DOMAIN edges /\ edges'[i] = edges[i]
      <3>1. \A j \in DOMAIN symbols : j \in DOMAIN symbols' /\ symbols'[j] = symbols[j]
        BY <1>a
      <3> QED BY <2>1, <3>1 DEF IndexInv, OwnedBy
    <2>2. CASE \E k \in DOMAIN fileEdges : edges'[i] = fileEdges[k]
      <3>1. \A j \in DOMAIN fileSymbols : \E k \in DOMAIN symbols' : symbols'[k] = fileSymbols[j]
        BY <1>a
      <3>2. PICK k \in DOMAIN fileEdges : edges'[i] = fileEdges[k]
        BY <2>2
      <3>3. edges'[i].kind = "calls" => \E j \in DOMAIN fileSymbols : fileSymbols[j].id = edges'[i].source
        BY <3>2 DEF IndexInv, OwnedBy
      <3>4. DOMAIN edges'[i] = EdgeFields
        BY <3>2 DEF IndexInv, OwnedBy
      <3> QED BY <3>1, <3>3, <3>4
    <2> QED BY <1>b, <2>1, <2>2
  <1>5. Unlinked(edges)'
    <2> SUFFICES ASSUME NEW i \in DOMAIN edges' PROVE edges'[i].kind = "calls" => edges'[i].target = NoId
      BY DEF Unlinked
    <2>1. \/ i \in DOMAIN edges /\ edges'[i] = edges[i]
          \/ \E j \in DOMAIN fileEdges : edges'[i] = fileEdges[j]
      BY <1>b
    <2> QED BY <1>1, <2>1 DEF IndexInv, Unlinked
  <1> QED BY <1>1, <1>2, <1>3, <1>4, <1>5, NextFileClears DEF IndexInv

\* A step of the walk may add a symbol or an edge of the file.
LEMMA WalkFrame ==
  ASSUME IInv, UNCHANGED <<files, symbols, edges, filesIndexed, indexPc, section>>,
         IsSequence(scope)', IsSequence(fileSymbols)', IsSequence(fileEdges)',
         SymbolsRight(fileSymbols)', OwnedBy(fileEdges, fileSymbols)', Unlinked(fileEdges)', OfFile'
  PROVE  IInv'
  BY ListsFrame DEF IInv, IndexInv, Sequences

LEMMA DefineStep ==
  ASSUME IInv, Define, UNCHANGED section
  PROVE  IInv'
  <1> USE DEF IInv, Sequences
  <1> DEFINE symbol == SymbolFor(Node)
  <1>1. /\ fileSymbols' = Append(fileSymbols, symbol) /\ scope' = Append(scope, symbol)
        /\ UNCHANGED <<files, symbols, edges, filesIndexed, indexPc>> /\ files # <<>>
        /\ \/ fileEdges' = fileEdges
           \/ \E source : fileEdges' =
                 Append(fileEdges, EdgeOf("contains", source, symbol.name, symbol.id, symbol.start))
    BY DEF Define, Step, Walking
  <1>2. symbol.path = File.path /\ symbol.id = <<symbol.path, symbol.qualified>>
        /\ symbol.name = symbol.qualified[Len(symbol.qualified)]
    <2>1. IsSequence(Names(scope))
      <3>1. PICK S : scope \in Seq(S)
        BY DEF IsSequence
      <3>2. Names(scope) \in Seq({scope[i].name : i \in DOMAIN scope})
        BY <3>1 DEF Names
      <3> QED BY <3>2 DEF IsSequence
    <2>2. Append(Names(scope), Node.name)[Len(Append(Names(scope), Node.name))] = Node.name
      BY <2>1, Appended
    <2>3. /\ symbol.path = File.path /\ symbol.name = Node.name
          /\ symbol.qualified = Append(Names(scope), Node.name)
          /\ symbol.id = <<File.path, Append(Names(scope), Node.name)>>
      BY DEF SymbolFor
    <2> HIDE DEF symbol
    <2> QED BY <2>2, <2>3
  <1> HIDE DEF symbol
  <1>3. /\ IsSequence(scope)' /\ IsSequence(fileSymbols)'
        /\ \A i \in DOMAIN fileSymbols : i \in DOMAIN fileSymbols' /\ fileSymbols'[i] = fileSymbols[i]
        /\ \A i \in DOMAIN fileSymbols' : \/ i \in DOMAIN fileSymbols /\ fileSymbols'[i] = fileSymbols[i]
                                          \/ fileSymbols'[i] = symbol
        /\ \E i \in DOMAIN fileSymbols' : fileSymbols'[i] = symbol
        /\ \A i \in DOMAIN scope' : \/ i \in DOMAIN scope /\ scope'[i] = scope[i]
                                    \/ scope'[i] = symbol
    BY <1>1, Appended
  <1>4. SymbolsRight(fileSymbols)'
    BY <1>2, <1>3 DEF SymbolsRight, IndexInv
  <1>5. /\ IsSequence(fileEdges)'
        /\ \A i \in DOMAIN fileEdges' :
              \/ i \in DOMAIN fileEdges /\ fileEdges'[i] = fileEdges[i]
              \/ /\ DOMAIN fileEdges'[i] = EdgeFields /\ fileEdges'[i].kind = "contains"
                 /\ fileEdges'[i].path = File.path
    <2>1. CASE fileEdges' = fileEdges
      BY <2>1
    <2>2. CASE \E source : fileEdges' =
                 Append(fileEdges, EdgeOf("contains", source, symbol.name, symbol.id, symbol.start))
      <3>1. PICK edge : /\ fileEdges' = Append(fileEdges, edge) /\ DOMAIN edge = EdgeFields
                        /\ edge.kind = "contains" /\ edge.path = File.path
        BY <2>2 DEF EdgeOf, EdgeFields
      <3> QED BY <3>1, Appended
    <2> QED BY <1>1, <2>1, <2>2
  <1>6. OwnedBy(fileEdges, fileSymbols)'
    BY <1>3, <1>5 DEF OwnedBy, IndexInv
  <1>7. Unlinked(fileEdges)'
    BY <1>5 DEF Unlinked, IndexInv
  <1>8. OfFile'
    <2>1. File' = File /\ files' # <<>>
      BY <1>1 DEF File
    <2> QED BY <1>2, <1>3, <1>5, <2>1 DEF OfFile, IndexInv
  <1> QED BY <1>1, <1>3, <1>4, <1>5, <1>6, <1>7, <1>8, WalkFrame

LEMMA CallOrImportStep ==
  ASSUME IInv, Call \/ Import, UNCHANGED section
  PROVE  IInv'
  <1> USE DEF IInv, Sequences
  <1>1. UNCHANGED <<files, symbols, edges, filesIndexed, indexPc, scope, fileSymbols>> /\ files # <<>>
    BY DEF Call, Import, Step, Walking
  <1>2. \/ fileEdges' = fileEdges
        \/ \E edge : /\ fileEdges' = Append(fileEdges, edge) /\ DOMAIN edge = EdgeFields
                     /\ edge.path = File.path
                     /\ edge.kind = "calls" => /\ edge.target = NoId
                                               /\ \E j \in DOMAIN fileSymbols : fileSymbols[j].id = edge.source
    <2>1. CASE Call /\ scope # <<>> /\ Node.name # NoName
      <3> DEFINE edge == EdgeOf("calls", Last(scope).id, Node.name, NoId, Node.line)
      <3>1. /\ fileEdges' = Append(fileEdges, edge) /\ DOMAIN edge = EdgeFields
            /\ edge.path = File.path /\ edge.target = NoId /\ edge.source = Last(scope).id
        BY <2>1 DEF Call, EdgeOf, EdgeFields
      <3>2. \E j \in DOMAIN fileSymbols : fileSymbols[j] = Last(scope)
        <4>1. PICK S : scope \in Seq(S)
          BY DEF IsSequence
        <4>2. Len(scope) \in DOMAIN scope /\ Last(scope) = scope[Len(scope)]
          BY <2>1, <4>1 DEF Last
        <4> QED BY <4>2 DEF IndexInv, OfFile
      <3> HIDE DEF edge
      <3> QED BY <3>1, <3>2
    <2>2. CASE Call /\ ~(scope # <<>> /\ Node.name # NoName)
      BY <2>2 DEF Call
    <2>3. CASE Import
      BY <2>3 DEF Import, EdgeOf, EdgeFields
    <2> QED BY <2>1, <2>2, <2>3
  <1>3. /\ IsSequence(fileEdges)'
        /\ \A i \in DOMAIN fileEdges' :
              \/ i \in DOMAIN fileEdges /\ fileEdges'[i] = fileEdges[i]
              \/ /\ DOMAIN fileEdges'[i] = EdgeFields /\ fileEdges'[i].path = File.path
                 /\ fileEdges'[i].kind = "calls" =>
                       /\ fileEdges'[i].target = NoId
                       /\ \E j \in DOMAIN fileSymbols : fileSymbols[j].id = fileEdges'[i].source
    <2>1. CASE fileEdges' = fileEdges
      BY <2>1
    <2>2. CASE fileEdges' # fileEdges
      <3>1. PICK edge : /\ fileEdges' = Append(fileEdges, edge) /\ DOMAIN edge = EdgeFields
                        /\ edge.path = File.path
                        /\ edge.kind = "calls" =>
                              /\ edge.target = NoId
                              /\ \E j \in DOMAIN fileSymbols : fileSymbols[j].id = edge.source
        BY <1>2, <2>2
      <3> QED BY <3>1, Appended
    <2> QED BY <2>1, <2>2
  <1>4. SymbolsRight(fileSymbols)' /\ OwnedBy(fileEdges, fileSymbols)' /\ Unlinked(fileEdges)'
    BY <1>1, <1>3 DEF SymbolsRight, OwnedBy, Unlinked, IndexInv
  <1>5. OfFile'
    BY <1>1, <1>3 DEF OfFile, IndexInv, File
  <1> QED BY <1>1, <1>3, <1>4, <1>5, WalkFrame

LEMMA WalkOnStep ==
  ASSUME IInv, BeginFile \/ EndDefinition \/ PassNode, UNCHANGED section
  PROVE  IInv'
  <1> USE DEF IInv, Sequences
  <1>1. UNCHANGED <<files, symbols, edges, filesIndexed, indexPc, fileSymbols, fileEdges>>
    BY DEF BeginFile, EndDefinition, PassNode, Step
  <1>2. IsSequence(scope)' /\ \A i \in DOMAIN scope' : i \in DOMAIN scope /\ scope'[i] = scope[i]
    BY Fronted DEF BeginFile, EndDefinition, PassNode
  <1>3. SymbolsRight(fileSymbols)' /\ OwnedBy(fileEdges, fileSymbols)' /\ Unlinked(fileEdges)'
    BY <1>1 DEF SymbolsRight, OwnedBy, Unlinked, IndexInv
  <1>4. OfFile'
    BY <1>1, <1>2 DEF OfFile, IndexInv, File
  <1> QED BY <1>1, <1>2, <1>3, <1>4, WalkFrame

\* No file is left: what the walk has given is the files' alone.
LEMMA AllFilesStep ==
  ASSUME IInv, AllFiles, UNCHANGED section
  PROVE  IInv'
  <1>1. UNCHANGED <<files, scope, fileSymbols, fileEdges, symbols, edges, filesIndexed>>
        /\ indexPc = "files" /\ indexPc' = "resolve"
    BY DEF AllFiles
  <1>2. IsSequence(scope)' /\ IsSequence(fileSymbols)' /\ IsSequence(fileEdges)'
    BY <1>1 DEF IInv, Sequences
  <1>3. SymbolsRight(fileSymbols)' /\ OwnedBy(fileEdges, fileSymbols)' /\ Unlinked(fileEdges)'
    BY <1>1 DEF IInv, IndexInv, SymbolsRight, OwnedBy, Unlinked
  <1>4. OfFile'
    BY <1>1 DEF IInv, IndexInv, OfFile, File
  <1> QED BY <1>1, <1>2, <1>3, <1>4, ListsFrame DEF IInv, IndexInv, Sequences

\* Linking gives a call the id of the one symbol that has its name; two symbols with one
\* id have one name.
LEMMA LinkedRight ==
  ASSUME IInv, indexPc # "done", NEW i \in DOMAIN edges
  PROVE  LET e == Linked(edges[i])
         IN /\ DOMAIN e = EdgeFields
            /\ e.kind = edges[i].kind /\ e.source = edges[i].source /\ e.path = edges[i].path
            /\ e.kind = "calls" =>
                  IF \E s \in ToSet(symbols) : s.name = e.name /\ Cardinality(Candidates(e.name)) = 1
                  THEN \A s \in ToSet(symbols) : s.name = e.name <=> s.id = e.target
                  ELSE e.target = NoId
  <1> DEFINE old == edges[i]
             e == Linked(old)
  <1>1. DOMAIN old = EdgeFields /\ (old.kind = "calls" => old.target = NoId)
    BY DEF IInv, IndexInv, OwnedBy, Unlinked
  <1>2. CASE old.kind = "calls" /\ Unique(old.name)
    <2>1. PICK k \in DOMAIN symbols : Candidates(old.name) = {k}
      BY <1>2 DEF Unique
    <2>2. (CHOOSE j \in DOMAIN symbols : j \in Candidates(old.name)) = k
      BY <2>1
    <2>3. e = [old EXCEPT !.target = symbols[k].id]
      BY <1>2, <2>2 DEF Linked
    <2>4. /\ DOMAIN e = EdgeFields /\ e.kind = old.kind /\ e.source = old.source
          /\ e.path = old.path /\ e.name = old.name /\ e.target = symbols[k].id
      BY <1>1, <2>3 DEF EdgeFields
    <2>5. Cardinality(Candidates(e.name)) = 1 /\ symbols[k].name = e.name
      <3>1. Candidates(e.name) = {k}
        BY <2>1, <2>4
      <3>2. Cardinality({k}) = 1
        BY FS_Singleton
      <3> QED BY <3>1, <3>2 DEF Candidates
    <2>6. ASSUME NEW j \in DOMAIN symbols
          PROVE  symbols[j].name = e.name <=> symbols[j].id = e.target
      <3>1. symbols[j].name = e.name => j = k
        BY <2>1, <2>4 DEF Candidates
      <3>2. symbols[j].id = symbols[k].id => symbols[j].name = symbols[k].name
        BY DEF IInv, IndexInv, SymbolsRight
      <3> QED BY <2>4, <2>5, <3>1, <3>2
    <2> HIDE DEF e
    <2>7. symbols[k] \in ToSet(symbols)
      BY DEF ToSet
    <2>8. \A s \in ToSet(symbols) : s.name = e.name <=> s.id = e.target
      BY <2>6 DEF ToSet
    <2> QED BY <2>4, <2>5, <2>7, <2>8 DEF e
  <1>3. CASE ~(old.kind = "calls" /\ Unique(old.name))
    <2>1. e = old
      BY <1>3 DEF Linked
    <2>2. ASSUME e.kind = "calls"
          PROVE  Cardinality(Candidates(e.name)) # 1
      <3>1. IsFiniteSet(Candidates(e.name))
        <4>1. PICK S : symbols \in Seq(S)
          BY DEF IInv, Sequences, IsSequence
        <4>2. DOMAIN symbols = 1..Len(symbols) /\ Len(symbols) \in Nat
          BY <4>1
        <4>3. IsFiniteSet(1..Len(symbols))
          BY <4>2, FS_Interval
        <4> QED BY <4>2, <4>3, FS_Subset DEF Candidates
      <3>2. ASSUME Cardinality(Candidates(e.name)) = 1
            PROVE  Unique(e.name)
        <4>1. PICK k : Candidates(e.name) = {k}
          BY <3>1, <3>2, FS_Singleton
        <4> QED BY <4>1 DEF Unique, Candidates
      <3> QED BY <1>3, <2>1, <2>2, <3>2
    <2> HIDE DEF e
    <2> QED BY <1>1, <2>1, <2>2 DEF e
  <1> QED BY <1>2, <1>3

LEMMA ResolveStep ==
  ASSUME IInv, ResolveEdgeTargets, UNCHANGED section
  PROVE  IInv'
  <1>1. /\ UNCHANGED <<files, scope, fileSymbols, fileEdges, symbols, filesIndexed>>
        /\ indexPc = "resolve" /\ indexPc' = "done"
        /\ edges' = [i \in DOMAIN edges |-> Linked(edges[i])]
    BY DEF ResolveEdgeTargets
  <1>2. /\ DOMAIN edges' = DOMAIN edges
        /\ \A i \in DOMAIN edges : edges'[i] = Linked(edges[i])
    BY <1>1
  <1>3. \A i \in DOMAIN edges :
           /\ DOMAIN edges'[i] = EdgeFields
           /\ edges'[i].kind = edges[i].kind /\ edges'[i].source = edges[i].source
           /\ edges'[i].path = edges[i].path
    BY <1>1, <1>2, LinkedRight
  <1>4. Sequences'
    <2>1. PICK S : edges \in Seq(S)
      BY DEF IInv, Sequences, IsSequence
    <2>2. DOMAIN edges = 1..Len(edges) /\ Len(edges) \in Nat
      BY <2>1
    <2>3. edges' \in Seq({Linked(edges[i]) : i \in DOMAIN edges})
      BY <1>1, <2>2
    <2> QED BY <1>1, <2>3 DEF IInv, Sequences, IsSequence
  <1>5. OwnedBy(edges, symbols)'
    BY <1>1, <1>2, <1>3 DEF IInv, IndexInv, OwnedBy
  <1>6. CallsLinked'
    <2>1. \A name : Candidates(name)' = Candidates(name)
      BY <1>1 DEF Candidates
    <2>2. ASSUME NEW i \in DOMAIN edges, Linked(edges[i]).kind = "calls"
          PROVE  LET e == Linked(edges[i])
                 IN IF \E s \in ToSet(symbols) : s.name = e.name /\ Cardinality(Candidates(e.name)) = 1
                    THEN \A s \in ToSet(symbols) : s.name = e.name <=> s.id = e.target
                    ELSE e.target = NoId
      BY <1>1, <2>2, LinkedRight
    <2>3. ASSUME NEW e \in CallEdges'
          PROVE  \E i \in DOMAIN edges : e = Linked(edges[i]) /\ Linked(edges[i]).kind = "calls"
      BY <1>2, <2>3 DEF CallEdges, ToSet
    <2>4. ASSUME NEW e \in CallEdges'
          PROVE  IF \E s \in ToSet(symbols') : s.name = e.name /\ Cardinality(Candidates(e.name)') = 1
                 THEN \A s \in ToSet(symbols') : s.name = e.name <=> s.id = e.target
                 ELSE e.target = NoId
      <3>1. PICK i \in DOMAIN edges : e = Linked(edges[i]) /\ Linked(edges[i]).kind = "calls"
        BY <2>3, <2>4
      <3>2. symbols' = symbols
        BY <1>1
      <3> QED BY <2>1, <2>2, <3>1, <3>2
    <2> QED BY <2>4 DEF CallsLinked
  <1>7. SymbolsRight(fileSymbols)' /\ OwnedBy(fileEdges, fileSymbols)' /\ Unlinked(fileEdges)'
        /\ SymbolsRight(symbols)' /\ OfFile' /\ filesIndexed' \in Nat
    BY <1>1 DEF IInv, IndexInv, SymbolsRight, OwnedBy, Unlinked, OfFile, File
  <1> QED BY <1>1, <1>4, <1>5, <1>6, <1>7 DEF IInv, IndexInv

\* Nothing after the index changes it; a section begins only when it is done.
LEMMA IndexFrame ==
  ASSUME IInv, UNCHANGED indexVars, section' # "waiting" => indexPc = "done"
  PROVE  IInv'
  <1>1. UNCHANGED <<files, scope, fileSymbols, fileEdges, symbols, edges, filesIndexed, indexPc>>
    BY DEF indexVars
  <1>2. SymbolsRight(fileSymbols)' /\ OwnedBy(fileEdges, fileSymbols)' /\ Unlinked(fileEdges)' /\ OfFile'
    BY <1>1 DEF IInv, IndexInv, SymbolsRight, OwnedBy, Unlinked, OfFile, File
  <1>3. IsSequence(scope)' /\ IsSequence(fileSymbols)' /\ IsSequence(fileEdges)'
    BY <1>1 DEF IInv, Sequences
  <1> QED BY <1>1, <1>2, <1>3, ListsFrame DEF IInv, IndexInv, Sequences

LEMMA PackKeepsStarted ==
  ASSUME PackStep
  PROVE  section # "waiting"
  BY DEF PackStep, PullRequest, NoRules, NoDiff, Nothing, Show, PassBy, EndLoop, RepoMap, InLoop, Loops

LEMMA AskFrame ==
  ASSUME Ask
  PROVE  UNCHANGED <<indexVars, packVars>> /\ section = "done"
  <1>1. ASSUME NEW answer, Answers(answer) PROVE UNCHANGED <<indexVars, packVars>>
    BY <1>1 DEF Answers
  <1>2. ASSUME NEW path, NEW first, NEW last, ReadFile(path, first, last)
        PROVE  Ready /\ UNCHANGED <<indexVars, packVars>>
    BY <1>1, <1>2, Zenon DEF ReadFile
  <1>3. ASSUME NEW id, GetSymbolSource(id) PROVE Ready /\ UNCHANGED <<indexVars, packVars>>
    BY <1>1, <1>3, Zenon DEF GetSymbolSource
  <1>4. ASSUME NEW id, AskCallersOf(id) \/ AskCalleesOf(id) \/ ListTestsFor(id)
        PROVE  Ready /\ UNCHANGED <<indexVars, packVars>>
    BY <1>1, <1>4, Zenon DEF AskCallersOf, AskCalleesOf, ListTestsFor, OfSymbol
  <1>5. ASSUME NEW name, FindSymbol(name) \/ FindQualified(name)
        PROVE  Ready /\ UNCHANGED <<indexVars, packVars>>
    BY <1>1, <1>5, Zenon DEF FindSymbol, FindQualified
  <1>6. ASSUME NEW glob, SearchCode(glob) PROVE Ready /\ UNCHANGED <<indexVars, packVars>>
    BY <1>1, <1>6, Zenon DEF SearchCode
  <1>7. ASSUME NEW path, NEW changedOnly, GetLinterFindings(path, changedOnly)
        PROVE  Ready /\ UNCHANGED <<indexVars, packVars>>
    BY <1>1, <1>7, Zenon DEF GetLinterFindings
  <1>8. ASSUME NEW id, GetRule(id) PROVE Ready /\ UNCHANGED <<indexVars, packVars>>
    BY <1>1, <1>8, Zenon DEF GetRule
  <1>9. BadCall => Ready /\ UNCHANGED <<indexVars, packVars>>
    BY <1>1, Zenon DEF BadCall
  <1>10. Ready => section = "done"
    BY DEF Ready
  <1> QED BY <1>2, <1>3, <1>4, <1>5, <1>6, <1>7, <1>8, <1>9, <1>10, Zenon DEF Ask

LEMMA NextIInv == IInv /\ [Next]_vars => IInv'
  <1> SUFFICES ASSUME IInv, [Next]_vars PROVE IInv'
    OBVIOUS
  <1>1. CASE IndexStep /\ UNCHANGED <<packVars, reply>>
    <2>1. UNCHANGED section
      BY <1>1 DEF packVars
    <2> QED BY <1>1, <2>1, LeaveFileStep, FileDoneStep, DefineStep, CallOrImportStep, WalkOnStep,
               AllFilesStep, ResolveStep DEF IndexStep
  <1>2. CASE BeginReview
    <2>1. UNCHANGED indexVars /\ indexPc = "done"
      BY <1>2 DEF BeginReview
    <2> QED BY <2>1, IndexFrame
  <1>3. CASE PackStep /\ UNCHANGED <<indexVars, reply>>
    <2>1. indexPc = "done"
      BY <1>3, PackKeepsStarted DEF IInv, IndexInv
    <2> QED BY <1>3, <2>1, IndexFrame
  <1>4. CASE Ask
    <2>1. UNCHANGED indexVars /\ section # "waiting"
      BY <1>4, AskFrame
    <2> QED BY <2>1, IndexFrame DEF IInv, IndexInv
  <1>5. CASE UNCHANGED vars
    <2>1. UNCHANGED <<indexVars, section>>
      BY <1>5 DEF vars, packVars
    <2> QED BY <2>1, IndexFrame DEF IInv, IndexInv
  <1> QED BY <1>1, <1>2, <1>3, <1>4, <1>5 DEF Next

\* The strengthened invariant holds of every state: the lists are sequences whose edges
\* belong to symbols beside them (indexer.py:126-151), and calls stay unlinked until
\* _resolve_edge_targets.
THEOREM IndexInvariant == Spec => []IInv
  <1>1. Init => IInv
    BY InitIInv
  <1>2. IInv /\ [Next]_vars => IInv'
    BY NextIInv
  <1> QED BY <1>1, <1>2, PTL DEF Spec

\* In the finished index a call is linked to a symbol exactly if that symbol alone has the
\* name it calls, whatever files the repository has and whichever failed
\* (indexer.py:230-248).
THEOREM CallsAreLinked == Spec => [](indexPc = "done" => CallsLinked)
  <1>1. IInv => (indexPc = "done" => CallsLinked)
    BY DEF IInv, IndexInv
  <1> QED BY <1>1, IndexInvariant, PTL

\* Every call of the index is made by a symbol of the index: callers_of and list_tests_for
\* find the symbol of each call they list (code_index.py:129-148).
CallersKnown == \A i \in DOMAIN edges : edges[i].kind = "calls" => Known(edges[i].source)
THEOREM CallersAreKnown == Spec => []CallersKnown
  <1>1. IInv => CallersKnown
    BY DEF IInv, IndexInv, OwnedBy, CallersKnown, Known
  <1> QED BY <1>1, IndexInvariant, PTL

\* From the moment the review begins, no step changes the index: the context pack and
\* every answer of the tools are of one state of the code.
THEOREM IndexNeverChanges == Spec => IndexStands
  <1>1. IInv /\ [Next]_vars => [section # "waiting" => UNCHANGED indexVars]_vars
    <2> SUFFICES ASSUME IInv, [Next]_vars, section # "waiting" PROVE UNCHANGED indexVars \/ UNCHANGED vars
      OBVIOUS
    <2>1. indexPc = "done"
      BY DEF IInv, IndexInv
    <2>2. ~IndexStep
      BY <2>1 DEF IndexStep, PassOver, BeginFile, FileFails, FileDone, Define, EndDefinition, Call, Import,
                  PassNode, AllFiles, ResolveEdgeTargets, Walking
    <2>3. Ask => UNCHANGED indexVars
      BY AskFrame
    <2> QED BY <2>2, <2>3 DEF Next, BeginReview
  <1> QED BY <1>1, IndexInvariant, PTL DEF Spec, IndexStands

-----------------------------------------------------------------------------
(* The walk over one file, as a tree's.                                    *)

LEMMA CloseCloses ==
  ASSUME NEW file, IsWalk(file)
  PROVE  /\ Closes(file, Close(file)) /\ Close(file) \in [Definitions(file) -> Ends(file)]
         /\ Definitions(file) \subseteq DOMAIN file.nodes \ Ends(file)
         /\ file.nodes \in Seq(ToSet(file.nodes)) /\ DOMAIN file.nodes \subseteq Nat
  <1>1. \E close \in [Definitions(file) -> Ends(file)] : Closes(file, close)
    BY DEF IsWalk
  <1>2. Closes(file, Close(file)) /\ Close(file) \in [Definitions(file) -> Ends(file)]
    BY <1>1 DEF Close
  <1>3. ASSUME NEW i \in Definitions(file) PROVE i \in DOMAIN file.nodes /\ i \notin Ends(file)
    <2>1. file.nodes[i].type \in DOMAIN SpecFor(file.language).definitions /\ i \in DOMAIN file.nodes
      BY DEF Definitions, Defining
    <2>2. "end" \notin DOMAIN SpecFor(file.language).definitions
      <3>1. "end" \notin DOMAIN PythonSpec.definitions
        BY DEF PythonSpec
      <3>2. "end" \notin DOMAIN ScriptSpec.definitions
        BY DEF ScriptSpec
      <3> QED BY <3>1, <3>2 DEF SpecFor
    <2> QED BY <2>1, <2>2 DEF Ends
  <1>4. file.nodes \in Seq(ToSet(file.nodes)) /\ DOMAIN file.nodes \subseteq Nat
    BY DEF IsWalk
  <1> QED BY <1>2, <1>3, <1>4

LEMMA NothingOpen ==
  ASSUME NEW file, IsWalk(file)
  PROVE  Open(file, 0) = {} /\ Open(file, 1) = {}
  <1>1. Definitions(file) \subseteq DOMAIN file.nodes /\ DOMAIN file.nodes = 1..Len(file.nodes)
        /\ Len(file.nodes) \in Nat
    BY CloseCloses
  <1> QED BY <1>1 DEF Open

\* A definition opens at its node.
LEMMA OpenDefinition ==
  ASSUME NEW file, IsWalk(file), NEW n \in Definitions(file)
  PROVE  Open(file, n + 1) = Open(file, n) \cup {n}
  <1> DEFINE close == Close(file)
  <1>1. /\ n \in DOMAIN file.nodes /\ n \notin Ends(file) /\ n < close[n]
        /\ Definitions(file) \subseteq Nat /\ n \in Nat
        /\ \A i \in Definitions(file) : close[i] \in Ends(file) /\ close[i] \in Nat
    BY CloseCloses DEF Closes, Ends
  <1>2. \A i \in Definitions(file) : close[i] # n
    BY <1>1
  <1> HIDE DEF close
  <1>3. \A i \in Definitions(file) : (i < n + 1 /\ n + 1 <= close[i]) <=> (i < n /\ n <= close[i]) \/ i = n
    BY <1>1, <1>2
  <1> QED BY <1>1, <1>3 DEF Open, close

\* An end closes the last definition opened.
LEMMA OpenEnd ==
  ASSUME NEW file, IsWalk(file), NEW n \in Ends(file)
  PROVE  \E i \in Open(file, n) :
            /\ \A j \in Open(file, n) : j <= i
            /\ Open(file, n + 1) = Open(file, n) \ {i}
  <1> DEFINE close == Close(file)
  <1>0. Closes(file, close) /\ close \in [Definitions(file) -> Ends(file)]
    BY CloseCloses
  <1>1. PICK i \in Definitions(file) : close[i] = n
    BY <1>0 DEF Closes
  <1>2. /\ Definitions(file) \subseteq Nat /\ n \in Nat
        /\ \A j \in Definitions(file) : close[j] \in Nat /\ j < close[j]
        /\ \A j, k \in Definitions(file) : j < k /\ k < close[j] => close[k] < close[j]
    BY <1>0, CloseCloses DEF Closes, Ends
  <1>3. i \in Open(file, n)
    BY <1>1, <1>2 DEF Open
  <1> HIDE DEF close
  <1>4. \A j \in Definitions(file) : j < n /\ n <= close[j] => j <= i
    BY <1>1, <1>2
  <1>5. \A j \in Definitions(file) : close[j] = n => j = i
    BY <1>1, <1>2
  <1>6. \A j \in Definitions(file) : (j < n + 1 /\ n + 1 <= close[j]) <=> (j < n /\ n <= close[j]) /\ j # i
    <2>1. n \notin Definitions(file)
      BY CloseCloses
    <2> QED BY <1>1, <1>2, <1>5, <2>1
  <1> QED BY <1>3, <1>4, <1>6 DEF Open, close

LEMMA OpenOther ==
  ASSUME NEW file, IsWalk(file), NEW n \in DOMAIN file.nodes, n \notin Ends(file), n \notin Definitions(file)
  PROVE  Open(file, n + 1) = Open(file, n)
  <1> DEFINE close == Close(file)
  <1>1. /\ Definitions(file) \subseteq Nat /\ n \in Nat
        /\ \A i \in Definitions(file) : close[i] \in Ends(file) /\ close[i] \in Nat
    BY CloseCloses DEF Ends
  <1>2. \A i \in Definitions(file) : close[i] # n /\ i # n
    BY <1>1
  <1> HIDE DEF close
  <1>3. \A i \in Definitions(file) : (i < n + 1 /\ n + 1 <= close[i]) <=> (i < n /\ n <= close[i])
    BY <1>1, <1>2
  <1> QED BY <1>3 DEF Open, close

\* The last definition opened around a node is the innermost: whichever other has the node's
\* line among its own contains it, or begins or ends on that line.
LEMMA InnermostByLines ==
  ASSUME NEW file, IsWalk(file), NEW n \in DOMAIN file.nodes \ Ends(file), NEW i \in Open(file, n),
         \A j \in Open(file, n) : j <= i
  PROVE  LET line == file.nodes[n].line
             first(k) == file.nodes[k].line
             last(k) == file.nodes[k].end
         IN /\ first(i) <= line /\ line <= last(i)
            /\ \A t \in Definitions(file) : first(t) <= line /\ line <= last(t) =>
                  (first(t) <= first(i) /\ last(i) <= last(t)) \/ line \in {first(t), last(t)}
  <1> DEFINE line == file.nodes[n].line
             first(k) == file.nodes[k].line
             last(k) == file.nodes[k].end
             close == Close(file)
  <1>0. Closes(file, close) /\ close \in [Definitions(file) -> Ends(file)]
    BY CloseCloses
  <1>1. /\ Definitions(file) \subseteq Nat /\ n \in Nat /\ i \in Definitions(file)
        /\ \A k \in Definitions(file) : k \in DOMAIN file.nodes \ Ends(file) /\ close[k] \in Nat /\ close[k] # n
        /\ line \in Nat /\ \A k \in Definitions(file) : first(k) \in Nat /\ last(k) \in Nat
    BY <1>0, CloseCloses DEF Ends, IsWalk, Open
  <1>2. i < n /\ n < close[i]
    BY <1>1 DEF Open
  <1>3. first(i) <= line /\ line <= last(i)
    BY <1>0, <1>1, <1>2 DEF Closes
  <1>4. ASSUME NEW t \in Definitions(file), first(t) <= line, line <= last(t)
        PROVE  (first(t) <= first(i) /\ last(i) <= last(t)) \/ line \in {first(t), last(t)}
    <2>1. CASE t < n /\ n < close[t]
      <3>1. t \in Open(file, n)
        BY <1>1, <2>1 DEF Open
      <3>2. CASE t = i
        BY <1>1, <3>2
      <3>3. CASE t < i
        <4>1. i < close[t]
          BY <1>1, <1>2, <2>1
        <4>2. first(t) <= first(i) /\ last(i) <= last(t)
          BY <1>0, <1>1, <3>3, <4>1 DEF Closes
        <4> QED BY <4>2
      <3> QED BY <1>1, <3>1, <3>2, <3>3
    <2>2. CASE t < n /\ close[t] < n
      <3>1. last(t) <= line
        BY <1>0, <1>1, <2>2 DEF Closes
      <3> QED BY <1>1, <1>4, <3>1
    <2>3. CASE t = n
      BY <2>3
    <2>4. CASE n < t
      <3>1. line <= first(t)
        BY <1>0, <1>1, <2>4 DEF Closes
      <3> QED BY <1>1, <1>4, <3>1
    <2> QED BY <1>1, <2>1, <2>2, <2>3, <2>4
  <1> QED BY <1>3, <1>4

-----------------------------------------------------------------------------
(* The walk over the files.                                                *)

LEMMA FirstFile ==
  ASSUME IsRepository(files), files # <<>>
  PROVE  /\ IsWalk(File) /\ 1 \in DOMAIN files /\ File = files[1]
         /\ IsRepository(Tail(files))
         /\ \A i \in DOMAIN Tail(files) : /\ Tail(files)[i].path # File.path
                                          /\ \E j \in DOMAIN files : Tail(files)[i] = files[j]
  <1>1. /\ files \in Seq(ToSet(files)) /\ DOMAIN files = 1..Len(files) /\ Len(files) \in Nat \ {0}
        /\ \A i, j \in DOMAIN files : files[i].path = files[j].path => i = j
        /\ \A i \in DOMAIN files : IsWalk(files[i])
    BY DEF IsRepository
  <1> DEFINE rest == Tail(files)
  <1>2. /\ rest \in Seq(ToSet(files)) /\ DOMAIN rest = 1..(Len(files) - 1) /\ Len(rest) = Len(files) - 1
        /\ \A i \in DOMAIN rest : rest[i] = files[i + 1]
    BY <1>1
  <1>3. File = files[1] /\ 1 \in DOMAIN files
    BY <1>1 DEF File
  <1> HIDE DEF rest
  <1>4. \A i \in DOMAIN rest : i + 1 \in DOMAIN files /\ i + 1 # 1 /\ i \in Nat
    BY <1>1, <1>2
  <1>5. rest \in Seq(ToSet(rest))
    <2>1. \A i \in 1..Len(rest) : rest[i] \in ToSet(rest)
      BY <1>2 DEF ToSet
    <2>2. rest = [i \in 1..Len(rest) |-> rest[i]] /\ Len(rest) \in Nat
      BY <1>1, <1>2
    <2> QED BY <2>1, <2>2
  <1>6. IsRepository(rest)
    BY <1>1, <1>2, <1>4, <1>5 DEF IsRepository
  <1>7. \A i \in DOMAIN rest : rest[i].path # File.path /\ \E j \in DOMAIN files : rest[i] = files[j]
    BY <1>1, <1>2, <1>3, <1>4
  <1> QED BY <1>1, <1>3, <1>6, <1>7 DEF rest

\* Before a file is begun nothing is open and nothing is known of it.
LEMMA NotBegun ==
  ASSUME IsRepository(files), at \in {0, 1}, scope = <<>>, fileSymbols = <<>>, fileEdges = <<>>
  PROVE  files # <<>> => WalkedSoFar
  <1> SUFFICES ASSUME files # <<>> PROVE WalkedSoFar
    OBVIOUS
  <1>1. Open(File, at) = {}
    BY FirstFile, NothingOpen
  <1>2. ScopeIsOpen
    <2> DEFINE open == [k \in {} |-> k]
    <2>1. open \in [DOMAIN scope -> Open(File, at)]
      BY Emptied
    <2> QED BY <1>1, <2>1, Emptied DEF ScopeIsOpen
  <1> QED BY <1>2, Emptied DEF WalkedSoFar, ToSet

LEMMA NotBegunNext ==
  IsRepository(files)' /\ (at \in {0, 1})' /\ (scope = <<>>)' /\ (fileSymbols = <<>>)' /\ (fileEdges = <<>>)'
     => (files # <<>> => WalkedSoFar)'
  BY NotBegun, PTL

LEMMA InitWalk == Init => WalkInv
  <1> SUFFICES ASSUME Init PROVE WalkInv
    OBVIOUS
  <1>1. /\ IsRepository(files) /\ at = 0 /\ scope = <<>> /\ fileSymbols = <<>> /\ fileEdges = <<>>
        /\ symbols = <<>> /\ edges = <<>> /\ leftOut = {}
    BY RepositoryAssumption DEF Init, IndexInit
  <1>2. files # <<>> => WalkedSoFar
    BY <1>1, NotBegun
  <1>3. ComesOnce /\ FailedLeaveNothing /\ OwnersInnermost
    BY <1>1, Emptied DEF ComesOnce, FailedLeaveNothing, OwnersInnermost, CallEdges, ToSet
  <1> QED BY <1>1, <1>2, <1>3 DEF WalkInv

\* A step that leaves the index's lists alone leaves what they say.
LEMMA WalkListsFrame ==
  ASSUME WalkInv, UNCHANGED <<symbols, edges>>
  PROVE  /\ OwnersInnermost'
         /\ UNCHANGED leftOut => FailedLeaveNothing' /\ (UNCHANGED files => ComesOnce')
  BY DEF WalkInv, ComesOnce, FailedLeaveNothing, OwnersInnermost, CallEdges, Enclosing

LEMMA LeaveFileWalk ==
  ASSUME WalkInv, PassOver \/ FileFails
  PROVE  WalkInv'
  <1>1. /\ NextFile /\ UNCHANGED <<symbols, edges>> /\ files # <<>>
        /\ leftOut' = leftOut \cup {File.path}
    BY DEF PassOver, FileFails
  <1>2. /\ files' = Tail(files) /\ at' = 0 /\ scope' = <<>> /\ fileSymbols' = <<>> /\ fileEdges' = <<>>
    BY <1>1 DEF NextFile
  <1>3. IsRepository(files')
    BY <1>1, <1>2, FirstFile DEF WalkInv
  <1>4. (files # <<>> => WalkedSoFar)'
    BY <1>2, <1>3, NotBegunNext
  <1>5. ComesOnce'
    BY <1>1, <1>2, FirstFile DEF WalkInv, ComesOnce
  <1>6. FailedLeaveNothing'
    BY <1>1, FirstFile DEF WalkInv, ComesOnce, FailedLeaveNothing
  <1> QED BY <1>1, <1>2, <1>3, <1>4, <1>5, <1>6, WalkListsFrame DEF WalkInv

LEMMA ToSetJoined ==
  ASSUME NEW s, IsSequence(s), NEW t, IsSequence(t)
  PROVE  ToSet(s \o t) = ToSet(s) \cup ToSet(t)
  <1> DEFINE all == s \o t
  <1>1. \A i \in DOMAIN all : (i \in DOMAIN s /\ all[i] = s[i]) \/ \E j \in DOMAIN t : all[i] = t[j]
    BY Joined
  <1>2. \A i \in DOMAIN s : i \in DOMAIN all /\ all[i] = s[i]
    BY Joined
  <1>3. \A j \in DOMAIN t : \E i \in DOMAIN all : all[i] = t[j]
    BY JoinedTail
  <1> HIDE DEF all
  <1>4. ToSet(all) = ToSet(s) \cup ToSet(t)
    BY <1>1, <1>2, <1>3 DEF ToSet
  <1> QED BY <1>4 DEF all

\* What the walk over a file says of its calls holds of the finished file's lines.
LEMMA CallInFile ==
  ASSUME IInv, WalkInv, files # <<>>, NEW e \in ToSet(fileEdges), e.kind = "calls"
  PROVE  \E s \in ToSet(fileSymbols) :
            /\ s.id = e.source /\ s.start <= e.line /\ e.line <= s.end
            /\ \A t \in ToSet(fileSymbols) : t.start <= e.line /\ e.line <= t.end =>
                  (t.start <= s.start /\ s.end <= t.end) \/ e.line \in {t.start, t.end}
  <1>1. WalkedSoFar /\ IsWalk(File)
    BY FirstFile DEF WalkInv
  <1>2. OwnedInFile(e)
    BY <1>1 DEF WalkedSoFar
  <1>3. PICK n \in DOMAIN File.nodes \ Ends(File) : \E i \in Open(File, n) :
               /\ e.line = File.nodes[n].line
               /\ \A j \in Open(File, n) : j <= i
               /\ \E s \in ToSet(fileSymbols) : s.id = e.source /\ OfNode(s, File.nodes[i])
    BY <1>2 DEF OwnedInFile
  <1>4. PICK i \in Open(File, n) :
               /\ e.line = File.nodes[n].line
               /\ \A j \in Open(File, n) : j <= i
               /\ \E s \in ToSet(fileSymbols) : s.id = e.source /\ OfNode(s, File.nodes[i])
    BY <1>3
  <1>5. PICK s \in ToSet(fileSymbols) : s.id = e.source /\ OfNode(s, File.nodes[i])
    BY <1>4
  <1>6. /\ s.start <= e.line /\ e.line <= s.end
        /\ \A t \in Definitions(File) :
              File.nodes[t].line <= e.line /\ e.line <= File.nodes[t].end =>
                 \/ File.nodes[t].line <= s.start /\ s.end <= File.nodes[t].end
                 \/ e.line \in {File.nodes[t].line, File.nodes[t].end}
    BY <1>1, <1>4, <1>5, InnermostByLines DEF OfNode
  <1>7. ASSUME NEW t \in ToSet(fileSymbols), t.start <= e.line, e.line <= t.end
        PROVE  (t.start <= s.start /\ s.end <= t.end) \/ e.line \in {t.start, t.end}
    <2>1. PICK k \in Definitions(File) : t.start = File.nodes[k].line /\ t.end = File.nodes[k].end
      BY <1>1 DEF WalkedSoFar, OfNode
    <2> QED BY <1>6, <1>7, <2>1
  <1> QED BY <1>5, <1>6, <1>7

\* A file that is done adds symbols and calls of its own path only.
LEMMA FileDoneWalk ==
  ASSUME IInv, WalkInv, FileDone
  PROVE  WalkInv'
  <1>1. /\ NextFile /\ files # <<>>
        /\ symbols' = symbols \o fileSymbols /\ edges' = edges \o fileEdges /\ leftOut' = leftOut
    BY DEF FileDone
  <1>2. /\ files' = Tail(files) /\ at' = 0 /\ scope' = <<>> /\ fileSymbols' = <<>> /\ fileEdges' = <<>>
    BY <1>1 DEF NextFile
  <1>3. IsRepository(files')
    BY <1>1, <1>2, FirstFile DEF WalkInv
  <1>4. (files # <<>> => WalkedSoFar)'
    BY <1>2, <1>3, NotBegunNext
  <1>5. /\ ToSet(symbols') = ToSet(symbols) \cup ToSet(fileSymbols)
        /\ ToSet(edges') = ToSet(edges) \cup ToSet(fileEdges)
    <2>1. IsSequence(symbols) /\ IsSequence(fileSymbols) /\ IsSequence(edges) /\ IsSequence(fileEdges)
      BY DEF IInv, Sequences
    <2> QED BY <1>1, <2>1, ToSetJoined
  <1>6. /\ \A x \in ToSet(fileSymbols) \cup ToSet(fileEdges) : x.path = File.path
        /\ \A x \in ToSet(symbols) \cup ToSet(edges) : x.path # File.path
        /\ File.path \notin leftOut
    <2>1. \A x \in ToSet(fileSymbols) \cup ToSet(fileEdges) : x.path = File.path
      BY DEF IInv, IndexInv, OfFile, ToSet
    <2>2. 1 \in DOMAIN files /\ File = files[1]
      BY <1>1, FirstFile DEF WalkInv
    <2> QED BY <2>1, <2>2 DEF WalkInv, ComesOnce
  <1>7. ComesOnce'
    <2> SUFFICES ASSUME NEW i \in DOMAIN files'
                 PROVE  /\ files'[i].path \notin leftOut
                        /\ \A x \in ToSet(symbols') \cup ToSet(edges') : files'[i].path # x.path
      BY <1>1 DEF ComesOnce
    <2>1. files'[i].path # File.path /\ \E j \in DOMAIN files : files'[i] = files[j]
      BY <1>1, <1>2, FirstFile DEF WalkInv
    <2> QED BY <1>5, <1>6, <2>1 DEF WalkInv, ComesOnce
  <1>8. OwnersInnermost'
    <2> SUFFICES ASSUME NEW e \in ToSet(edges'), e.kind = "calls"
                 PROVE  \E s \in Enclosing(e)' :
                           /\ s.id = e.source
                           /\ \A t \in Enclosing(e)' :
                                 (t.start <= s.start /\ s.end <= t.end) \/ e.line \in {t.start, t.end}
      BY DEF OwnersInnermost, CallEdges
    <2>1. CASE e \in ToSet(edges)
      <3>1. Enclosing(e)' = Enclosing(e)
        BY <1>5, <1>6, <2>1 DEF Enclosing
      <3>2. e \in CallEdges
        BY <2>1 DEF CallEdges
      <3> QED BY <3>1, <3>2 DEF WalkInv, OwnersInnermost
    <2>2. CASE e \in ToSet(fileEdges)
      <3>1. Enclosing(e)' = {s \in ToSet(fileSymbols) : s.start <= e.line /\ e.line <= s.end}
        BY <1>5, <1>6, <2>2 DEF Enclosing
      <3> QED BY <1>1, <2>2, <3>1, CallInFile
    <2> QED BY <1>5, <2>1, <2>2
  <1>9. FailedLeaveNothing'
    BY <1>1, <1>5, <1>6 DEF WalkInv, FailedLeaveNothing
  <1> QED BY <1>2, <1>3, <1>4, <1>7, <1>8, <1>9 DEF WalkInv

-----------------------------------------------------------------------------
\* Symbols that are added take nothing from the calls there are.
LEMMA OwnedStays ==
  ASSUME UNCHANGED files, ToSet(fileSymbols) \subseteq ToSet(fileSymbols'), NEW e, OwnedInFile(e)
  PROVE  OwnedInFile(e)'
  <1>1. File' = File
    BY DEF File
  <1> QED BY <1>1 DEF OwnedInFile

\* A step of the walk within a file, but for what it adds.
LEMMA WithinFile ==
  ASSUME IInv, WalkInv, Step, files # <<>>, ScopeIsOpen',
         ToSet(fileSymbols) \subseteq ToSet(fileSymbols'),
         \A s \in ToSet(fileSymbols') :
            s \in ToSet(fileSymbols) \/ \E i \in Definitions(File) : OfNode(s, File.nodes[i]),
         \A e \in ToSet(fileEdges') : e \in ToSet(fileEdges) \/ e.kind # "calls" \/ OwnedInFile(e)
  PROVE  WalkInv'
  <1>1. UNCHANGED <<files, symbols, edges, leftOut>> /\ at' = at + 1 /\ WalkedSoFar
    BY DEF Step, WalkInv
  <1>2. File' = File
    BY <1>1 DEF File
  <1>3. \A e \in ToSet(fileEdges') : e.kind = "calls" => OwnedInFile(e)'
    <2>1. \A e \in ToSet(fileEdges') : e.kind = "calls" => OwnedInFile(e)
      BY <1>1 DEF WalkedSoFar
    <2> QED BY <1>1, <2>1, OwnedStays
  <1>4. \A s \in ToSet(fileSymbols') : \E i \in Definitions(File) : OfNode(s, File.nodes[i])
    BY <1>1 DEF WalkedSoFar
  <1>5. WalkedSoFar'
    BY <1>2, <1>3, <1>4 DEF WalkedSoFar
  <1> QED BY <1>1, <1>5, WalkListsFrame DEF WalkInv

LEMMA SameScope ==
  ASSUME ScopeIsOpen, UNCHANGED <<files, scope>>, Open(File, at') = Open(File, at)
  PROVE  ScopeIsOpen'
  <1>1. File' = File
    BY DEF File
  <1> QED BY <1>1 DEF ScopeIsOpen

LEMMA NodeKinds ==
  ASSUME NEW file, NEW n \in DOMAIN file.nodes,
         file.nodes[n].type \in SpecFor(file.language).calls \cup SpecFor(file.language).imports
  PROVE  n \notin Ends(file) /\ n \notin Definitions(file)
  <1>1. PythonSpec.calls \cup PythonSpec.imports = {"call", "import_statement", "import_from_statement"}
        /\ DOMAIN PythonSpec.definitions = {"function_definition", "class_definition"}
    BY DEF PythonSpec
  <1>2. ScriptSpec.calls \cup ScriptSpec.imports = {"call_expression", "import_statement"}
        /\ DOMAIN ScriptSpec.definitions = {"function_declaration", "generator_function_declaration",
              "class_declaration", "method_definition", "variable_declarator"}
    BY DEF ScriptSpec
  <1>3. SpecFor(file.language) = PythonSpec \/ SpecFor(file.language) = ScriptSpec
    BY DEF SpecFor
  <1> HIDE DEF PythonSpec, ScriptSpec
  <1>4. file.nodes[n].type # "end" /\ file.nodes[n].type \notin DOMAIN SpecFor(file.language).definitions
    BY <1>1, <1>2, <1>3
  <1> QED BY <1>4 DEF Ends, Definitions, Defining

LEMMA PassWalk ==
  ASSUME IInv, WalkInv, BeginFile \/ Import \/ PassNode
  PROVE  WalkInv'
  <1>1. files # <<>> /\ UNCHANGED <<files, scope, fileSymbols>>
    BY DEF BeginFile, Import, PassNode, Walking, Step
  <1>2. IsWalk(File) /\ WalkedSoFar /\ at \in Nat
    BY <1>1, FirstFile DEF WalkInv
  <1>3. CASE BeginFile
    <2>1. at = 0 /\ at' = 1 /\ UNCHANGED <<symbols, edges, fileEdges, leftOut>>
      BY <1>3 DEF BeginFile
    <2>2. Open(File, at') = Open(File, at)
      BY <1>2, <2>1, NothingOpen
    <2>3. ScopeIsOpen'
      BY <1>1, <1>2, <2>2, SameScope DEF WalkedSoFar
    <2>4. File' = File
      BY <1>1 DEF File
    <2>5. \A e \in ToSet(fileEdges') : e.kind = "calls" => OwnedInFile(e)'
      <3>1. \A e \in ToSet(fileEdges') : e.kind = "calls" => OwnedInFile(e)
        BY <1>2, <2>1 DEF WalkedSoFar
      <3> QED BY <1>1, <3>1, OwnedStays
    <2>6. WalkedSoFar'
      BY <1>1, <1>2, <2>3, <2>4, <2>5 DEF WalkedSoFar
    <2> QED BY <1>1, <2>1, <2>6, WalkListsFrame DEF WalkInv
  <1>4. CASE Import \/ PassNode
    <2>1. /\ Step /\ at \in DOMAIN File.nodes /\ at' = at + 1
          /\ at \notin Ends(File) /\ at \notin Definitions(File)
      <3>1. Step /\ at \in DOMAIN File.nodes /\ at' = at + 1
        BY <1>4 DEF Import, PassNode, Walking, Step
      <3>2. CASE Import
        BY <3>1, <3>2, NodeKinds DEF Import, Grammar, Node
      <3>3. CASE PassNode
        BY <3>1, <3>3 DEF PassNode, Grammar, Node, Ends, Definitions
      <3> QED BY <1>4, <3>1, <3>2, <3>3
    <2>2. Open(File, at') = Open(File, at)
      BY <1>2, <2>1, OpenOther
    <2>3. ScopeIsOpen'
      BY <1>1, <1>2, <2>2, SameScope DEF WalkedSoFar
    <2>4. \A e \in ToSet(fileEdges') : e \in ToSet(fileEdges) \/ e.kind # "calls"
      <3>1. \/ fileEdges' = fileEdges
            \/ \E e : fileEdges' = Append(fileEdges, e) /\ e.kind = "imports"
        BY <1>4 DEF Import, PassNode, EdgeOf
      <3>2. IsSequence(fileEdges)
        BY DEF IInv, Sequences
      <3>3. CASE fileEdges' = fileEdges
        BY <3>3
      <3>4. CASE \E e : fileEdges' = Append(fileEdges, e) /\ e.kind = "imports"
        <4>1. PICK e : fileEdges' = Append(fileEdges, e) /\ e.kind = "imports"
          BY <3>4
        <4>2. \A i \in DOMAIN fileEdges' : i \in DOMAIN fileEdges \/ fileEdges'[i] = e
          BY <3>2, <4>1, Appended
        <4>3. \A i \in DOMAIN fileEdges : fileEdges'[i] = fileEdges[i]
          BY <3>2, <4>1, Appended
        <4> QED BY <4>1, <4>2, <4>3 DEF ToSet
      <3> QED BY <3>1, <3>3, <3>4
    <2> QED BY <1>1, <1>2, <2>1, <2>3, <2>4, WithinFile
  <1> QED BY <1>3, <1>4

LEMMA EndWalk ==
  ASSUME IInv, WalkInv, EndDefinition
  PROVE  WalkInv'
  <1>1. /\ files # <<>> /\ UNCHANGED <<files, fileSymbols, fileEdges>> /\ Step /\ at' = at + 1
        /\ scope' = Front(scope) /\ at \in Ends(File)
    BY DEF EndDefinition, Walking, Step, Ends, Node
  <1>2. IsWalk(File) /\ WalkedSoFar /\ at \in Nat /\ File' = File
    BY <1>1, FirstFile DEF WalkInv, File
  <1>3. PICK last \in Open(File, at) : /\ \A j \in Open(File, at) : j <= last
                                       /\ Open(File, at') = Open(File, at) \ {last}
    BY <1>1, <1>2, OpenEnd
  <1>4. PICK open \in [DOMAIN scope -> Open(File, at)] :
              /\ \A k \in DOMAIN scope : OfNode(scope[k], File.nodes[open[k]])
              /\ \A k, l \in DOMAIN scope : k < l => open[k] < open[l]
              /\ \A i \in Open(File, at) : \E k \in DOMAIN scope : open[k] = i
    BY <1>2 DEF WalkedSoFar, ScopeIsOpen
  <1>5. /\ DOMAIN scope = 1..Len(scope) /\ Len(scope) \in Nat
        /\ Open(File, at) \subseteq Nat
    <2>1. \E S : scope \in Seq(S)
      BY DEF IInv, Sequences, IsSequence
    <2>2. Open(File, at) \subseteq Nat
      BY <1>2, CloseCloses DEF Open
    <2> QED BY <2>1, <2>2
  <1>6. Len(scope) > 0 /\ open[Len(scope)] = last
    <2>1. PICK k \in DOMAIN scope : open[k] = last
      BY <1>3, <1>4
    <2>2. k = Len(scope)
      <3>1. Len(scope) \in DOMAIN scope
        BY <1>5, <2>1
      <3>2. open[Len(scope)] <= last /\ open[Len(scope)] \in Nat /\ last \in Nat
        BY <1>3, <1>4, <1>5, <3>1
      <3>3. k < Len(scope) => open[k] < open[Len(scope)]
        BY <1>4, <3>1
      <3> QED BY <1>5, <2>1, <3>1, <3>2, <3>3
    <2> QED BY <1>5, <2>1, <2>2
  <1>7. DOMAIN scope' = 1..(Len(scope) - 1) /\ \A k \in DOMAIN scope' : k \in DOMAIN scope /\ scope'[k] = scope[k]
    <2>1. PICK S : scope \in Seq(S)
      BY DEF IInv, Sequences, IsSequence
    <2>2. scope' = SubSeq(scope, 1, Len(scope) - 1)
      BY <1>1 DEF Front
    <2> QED BY <1>6, <2>1, <2>2
  <1>8. ScopeIsOpen'
    <2> DEFINE rest == [k \in DOMAIN scope' |-> open[k]]
    <2>1. \A k \in DOMAIN scope' : k \in DOMAIN scope /\ k < Len(scope) /\ Len(scope) \in DOMAIN scope
      BY <1>5, <1>6, <1>7
    <2>2. ASSUME NEW k \in DOMAIN scope' PROVE rest[k] \in Open(File, at')
      <3>1. open[k] < open[Len(scope)] /\ open[k] \in Open(File, at)
        BY <1>4, <2>1
      <3>2. open[k] # last
        BY <1>5, <1>6, <3>1, <1>3
      <3> QED BY <1>3, <3>1, <3>2
    <2>3. rest \in [DOMAIN scope' -> Open(File, at')]
      BY <2>2
    <2>4. \A k \in DOMAIN scope' : OfNode(scope'[k], File.nodes[rest[k]])
      BY <1>4, <1>7
    <2>5. \A k, l \in DOMAIN scope' : k < l => rest[k] < rest[l]
      BY <1>4, <1>7
    <2>6. ASSUME NEW i \in Open(File, at') PROVE \E k \in DOMAIN scope' : rest[k] = i
      <3>1. i \in Open(File, at) /\ i # last
        BY <1>3
      <3>2. PICK k \in DOMAIN scope : open[k] = i
        BY <1>4, <3>1
      <3>3. k # Len(scope)
        BY <1>6, <3>1, <3>2
      <3> QED BY <1>5, <1>7, <3>2, <3>3
    <2> HIDE DEF rest
    <2>7. \E f \in [DOMAIN scope' -> Open(File', at')] :
              /\ \A k \in DOMAIN scope' : OfNode(scope'[k], File'.nodes[f[k]])
              /\ \A k, l \in DOMAIN scope' : k < l => f[k] < f[l]
              /\ \A i \in Open(File', at') : \E k \in DOMAIN scope' : f[k] = i
      BY <1>2, <2>3, <2>4, <2>5, <2>6
    <2> QED BY <2>7 DEF ScopeIsOpen
  <1>9. ToSet(fileSymbols') = ToSet(fileSymbols) /\ ToSet(fileEdges') = ToSet(fileEdges)
    BY <1>1
  <1> QED BY <1>1, <1>8, <1>9, WithinFile

\* A list with one element more.
LEMMA ToSetAppended ==
  ASSUME NEW s, IsSequence(s), NEW x
  PROVE  ToSet(Append(s, x)) = ToSet(s) \cup {x}
  <1> DEFINE all == Append(s, x)
  <1>1. \A i \in DOMAIN s : i \in DOMAIN all /\ all[i] = s[i]
    BY Appended
  <1>2. \A i \in DOMAIN all : i \in DOMAIN s \/ all[i] = x
    BY Appended
  <1>3. \E i \in DOMAIN all : all[i] = x
    BY Appended
  <1> HIDE DEF all
  <1>4. ToSet(all) = ToSet(s) \cup {x}
    BY <1>1, <1>2, <1>3 DEF ToSet
  <1> QED BY <1>4 DEF all

\* The owner of a call is the last of the scope, which is open and innermost.
LEMMA CallWalk ==
  ASSUME IInv, WalkInv, Call
  PROVE  WalkInv'
  <1>1. /\ files # <<>> /\ UNCHANGED <<files, scope, fileSymbols>> /\ Step /\ at' = at + 1
        /\ at \in DOMAIN File.nodes /\ at \notin Ends(File) /\ at \notin Definitions(File)
    <2>1. /\ files # <<>> /\ UNCHANGED <<files, scope, fileSymbols>> /\ Step /\ at' = at + 1
          /\ at \in DOMAIN File.nodes
      BY DEF Call, Walking, Step
    <2> QED BY <2>1, NodeKinds DEF Call, Grammar, Node
  <1>2. IsWalk(File) /\ WalkedSoFar /\ at \in Nat /\ IsSequence(fileEdges)
    BY <1>1, FirstFile DEF WalkInv, IInv, Sequences
  <1>3. ScopeIsOpen'
    BY <1>1, <1>2, OpenOther, SameScope DEF WalkedSoFar
  <1>4. ASSUME scope # <<>>, NEW e, e.source = Last(scope).id, e.line = Node.line
        PROVE  OwnedInFile(e)
    <2>1. PICK open \in [DOMAIN scope -> Open(File, at)] :
              /\ \A k \in DOMAIN scope : OfNode(scope[k], File.nodes[open[k]])
              /\ \A k, l \in DOMAIN scope : k < l => open[k] < open[l]
              /\ \A i \in Open(File, at) : \E k \in DOMAIN scope : open[k] = i
      BY <1>2 DEF WalkedSoFar, ScopeIsOpen
    <2>2. /\ DOMAIN scope = 1..Len(scope) /\ Len(scope) \in DOMAIN scope /\ Last(scope) = scope[Len(scope)]
      <3>1. PICK S : scope \in Seq(S)
        BY DEF IInv, Sequences, IsSequence
      <3> QED BY <1>4, <3>1 DEF Last
    <2>3. Open(File, at) \subseteq Nat
      BY <1>2, CloseCloses DEF Open
    <2> DEFINE i == open[Len(scope)]
    <2>4. i \in Open(File, at) /\ OfNode(Last(scope), File.nodes[i])
      BY <2>1, <2>2
    <2>5. \A j \in Open(File, at) : j <= i
      <3> SUFFICES ASSUME NEW j \in Open(File, at) PROVE j <= i
        OBVIOUS
      <3>1. PICK k \in DOMAIN scope : open[k] = j
        BY <2>1
      <3>2. k = Len(scope) \/ k < Len(scope)
        BY <2>2
      <3>3. k < Len(scope) => j < i
        BY <2>1, <2>2, <3>1
      <3> QED BY <2>3, <2>4, <3>1, <3>2, <3>3
    <2>6. Last(scope) \in ToSet(fileSymbols)
      BY <2>2 DEF IInv, IndexInv, OfFile, ToSet
    <2>7. e.line = File.nodes[at].line
      BY <1>4 DEF Node
    <2> HIDE DEF i
    <2> QED BY <1>1, <1>4, <2>4, <2>5, <2>6, <2>7 DEF OwnedInFile
  <1>5. \A e \in ToSet(fileEdges') : e \in ToSet(fileEdges) \/ OwnedInFile(e)
    <2>1. CASE scope = <<>> \/ Node.name = NoName
      BY <2>1 DEF Call
    <2>2. CASE ~(scope = <<>> \/ Node.name = NoName)
      <3> DEFINE edge == EdgeOf("calls", Last(scope).id, Node.name, NoId, Node.line)
      <3>1. fileEdges' = Append(fileEdges, edge)
        BY <2>2 DEF Call
      <3>2. OwnedInFile(edge)
        BY <1>4, <2>2 DEF EdgeOf
      <3> HIDE DEF edge
      <3> QED BY <1>2, <3>1, <3>2, ToSetAppended
    <2> QED BY <2>1, <2>2
  <1> QED BY <1>1, <1>3, <1>5, WithinFile

LEMMA DefineWalk ==
  ASSUME IInv, WalkInv, Define
  PROVE  WalkInv'
  <1> DEFINE symbol == SymbolFor(Node)
  <1>1. /\ files # <<>> /\ UNCHANGED files /\ Step /\ at' = at + 1
        /\ fileSymbols' = Append(fileSymbols, symbol) /\ scope' = Append(scope, symbol)
        /\ at \in Definitions(File)
        /\ \/ fileEdges' = fileEdges
           \/ \E source : fileEdges' =
                 Append(fileEdges, EdgeOf("contains", source, symbol.name, symbol.id, symbol.start))
    BY DEF Define, Walking, Step, Definitions, Grammar, Node
  <1>2. /\ IsWalk(File) /\ WalkedSoFar /\ at \in Nat /\ File' = File
        /\ IsSequence(fileEdges) /\ IsSequence(fileSymbols) /\ IsSequence(scope)
    BY <1>1, FirstFile DEF WalkInv, IInv, Sequences, File
  <1>3. OfNode(symbol, File.nodes[at])
    BY DEF SymbolFor, OfNode, Node
  <1> HIDE DEF symbol
  <1>4. ToSet(fileSymbols') = ToSet(fileSymbols) \cup {symbol}
    BY <1>1, <1>2, ToSetAppended
  <1>5. \A e \in ToSet(fileEdges') : e \in ToSet(fileEdges) \/ e.kind # "calls"
    <2>1. CASE fileEdges' = fileEdges
      BY <2>1
    <2>2. CASE \E source : fileEdges' =
                 Append(fileEdges, EdgeOf("contains", source, symbol.name, symbol.id, symbol.start))
      <3>1. PICK edge : fileEdges' = Append(fileEdges, edge) /\ edge.kind = "contains"
        BY <2>2 DEF EdgeOf
      <3> QED BY <1>2, <3>1, ToSetAppended
    <2> QED BY <1>1, <2>1, <2>2
  <1>6. PICK open \in [DOMAIN scope -> Open(File, at)] :
              /\ \A k \in DOMAIN scope : OfNode(scope[k], File.nodes[open[k]])
              /\ \A k, l \in DOMAIN scope : k < l => open[k] < open[l]
              /\ \A i \in Open(File, at) : \E k \in DOMAIN scope : open[k] = i
    BY <1>2 DEF WalkedSoFar, ScopeIsOpen
  <1>7. /\ DOMAIN scope = 1..Len(scope) /\ Len(scope) \in Nat /\ DOMAIN scope' = 1..(Len(scope) + 1)
        /\ scope'[Len(scope) + 1] = symbol /\ \A k \in DOMAIN scope : scope'[k] = scope[k]
    <2>1. PICK S : scope \in Seq(S)
      BY <1>2 DEF IsSequence
    <2>2. scope \in Seq(S \cup {symbol})
      BY <2>1
    <2> QED BY <1>1, <2>2
  <1>8. /\ Open(File, at') = Open(File, at) \cup {at} /\ Open(File, at) \subseteq Nat
        /\ \A i \in Open(File, at) : i < at
    BY <1>1, <1>2, OpenDefinition, CloseCloses DEF Open
  <1>9. ScopeIsOpen'
    <2> DEFINE more == [k \in DOMAIN scope' |-> IF k \in DOMAIN scope THEN open[k] ELSE at]
    <2>1. /\ more \in [DOMAIN scope' -> Open(File, at')]
          /\ \A k \in DOMAIN scope : k \in DOMAIN scope' /\ more[k] = open[k]
          /\ more[Len(scope) + 1] = at
          /\ \A k \in DOMAIN scope' : k \in DOMAIN scope \/ k = Len(scope) + 1
      BY <1>7, <1>8
    <2> HIDE DEF more
    <2>2. \A k \in DOMAIN scope' : OfNode(scope'[k], File.nodes[more[k]])
      BY <1>3, <1>6, <1>7, <2>1
    <2>3. ASSUME NEW k \in DOMAIN scope', NEW l \in DOMAIN scope', k < l
          PROVE  more[k] < more[l]
      <3>1. k \in DOMAIN scope /\ more[k] = open[k] /\ open[k] \in Open(File, at)
        BY <1>6, <1>7, <2>1, <2>3
      <3>2. CASE l \in DOMAIN scope
        BY <1>6, <2>1, <2>3, <3>1, <3>2
      <3>3. CASE l = Len(scope) + 1
        BY <1>8, <2>1, <3>1, <3>3
      <3> QED BY <2>1, <3>2, <3>3
    <2>4. ASSUME NEW i \in Open(File, at') PROVE \E k \in DOMAIN scope' : more[k] = i
      <3>1. CASE i = at
        BY <1>7, <2>1, <3>1
      <3>2. CASE i \in Open(File, at)
        BY <1>6, <2>1, <3>2
      <3> QED BY <1>8, <3>1, <3>2
    <2>5. \E f \in [DOMAIN scope' -> Open(File', at')] :
              /\ \A k \in DOMAIN scope' : OfNode(scope'[k], File'.nodes[f[k]])
              /\ \A k, l \in DOMAIN scope' : k < l => f[k] < f[l]
              /\ \A i \in Open(File', at') : \E k \in DOMAIN scope' : f[k] = i
      BY <1>2, <2>1, <2>2, <2>3, <2>4
    <2> QED BY <2>5 DEF ScopeIsOpen
  <1> QED BY <1>1, <1>3, <1>4, <1>5, <1>9, WithinFile

\* Linking changes no call's owner and no line.
LEMMA ResolveWalk ==
  ASSUME IInv, WalkInv, ResolveEdgeTargets
  PROVE  WalkInv'
  <1>1. /\ UNCHANGED <<files, at, scope, fileSymbols, fileEdges, symbols, leftOut>> /\ indexPc # "done"
        /\ edges' = [i \in DOMAIN edges |-> Linked(edges[i])]
    BY DEF ResolveEdgeTargets
  <1>2. ASSUME NEW e \in ToSet(edges')
        PROVE  \E d \in ToSet(edges) : /\ e.kind = d.kind /\ e.source = d.source
                                       /\ e.path = d.path /\ e.line = d.line
    <2>1. PICK i \in DOMAIN edges : e = Linked(edges[i])
      BY <1>1, <1>2 DEF ToSet
    <2>2. DOMAIN edges[i] = EdgeFields
      BY DEF IInv, IndexInv, OwnedBy
    <2>3. /\ e.kind = edges[i].kind /\ e.source = edges[i].source
          /\ e.path = edges[i].path /\ e.line = edges[i].line
      BY <2>1, <2>2 DEF Linked, EdgeFields
    <2> QED BY <2>3 DEF ToSet
  <1>3. OwnersInnermost'
    <2> SUFFICES ASSUME NEW e \in ToSet(edges'), e.kind = "calls"
                 PROVE  \E s \in Enclosing(e) :
                           /\ s.id = e.source
                           /\ \A t \in Enclosing(e) :
                                 (t.start <= s.start /\ s.end <= t.end) \/ e.line \in {t.start, t.end}
      BY <1>1 DEF OwnersInnermost, CallEdges, Enclosing
    <2>1. PICK d \in ToSet(edges) : /\ e.kind = d.kind /\ e.source = d.source
                                    /\ e.path = d.path /\ e.line = d.line
      BY <1>2
    <2>2. d \in CallEdges /\ Enclosing(d) = Enclosing(e)
      BY <2>1 DEF CallEdges, Enclosing
    <2> QED BY <2>1, <2>2 DEF WalkInv, OwnersInnermost
  <1>4. ComesOnce' /\ FailedLeaveNothing'
    <2>1. \A x \in ToSet(symbols') \cup ToSet(edges') : \E y \in ToSet(symbols) \cup ToSet(edges) : x.path = y.path
      BY <1>1, <1>2
    <2> QED BY <1>1, <2>1 DEF WalkInv, ComesOnce, FailedLeaveNothing
  <1>5. (files # <<>> => WalkedSoFar)'
    BY <1>1 DEF WalkInv, WalkedSoFar, ScopeIsOpen, OwnedInFile, File
  <1> QED BY <1>1, <1>3, <1>4, <1>5 DEF WalkInv

LEMMA WalkFrameAll ==
  ASSUME WalkInv, UNCHANGED <<files, at, scope, fileSymbols, fileEdges, symbols, edges, leftOut>>
  PROVE  WalkInv'
  <1>1. (files # <<>> => WalkedSoFar)'
    BY DEF WalkInv, WalkedSoFar, ScopeIsOpen, OwnedInFile, File
  <1> QED BY <1>1, WalkListsFrame DEF WalkInv

LEMMA NextWalk == IInv /\ WalkInv /\ [Next]_vars => WalkInv'
  <1> SUFFICES ASSUME IInv, WalkInv, [Next]_vars PROVE WalkInv'
    OBVIOUS
  <1>1. CASE IndexStep
    <2>1. CASE AllFiles
      BY <2>1, WalkFrameAll DEF AllFiles
    <2> QED BY <1>1, <2>1, LeaveFileWalk, FileDoneWalk, DefineWalk, EndWalk, CallWalk, PassWalk, ResolveWalk
            DEF IndexStep
  <1>2. CASE ~IndexStep
    <2>1. UNCHANGED indexVars
      BY <1>2, AskFrame DEF Next, BeginReview, vars
    <2> QED BY <2>1, WalkFrameAll DEF indexVars
  <1> QED BY <1>1, <1>2

\* For every repository whose files are walked as trees: `scope` is the stack of the
\* definitions around the node, and each call's owner the innermost of them (visit).
THEOREM WalkInvariant == Spec => []WalkInv
  <1>1. Init => WalkInv
    BY InitWalk
  <1>2. IInv /\ WalkInv /\ [Next]_vars => WalkInv'
    BY NextWalk
  <1> QED BY <1>1, <1>2, IndexInvariant, PTL DEF Spec

\* No symbol and no edge of the index is of a file that was passed over or whose indexing
\* failed halfway, however much of it had been walked (indexer.py:74-84).
THEOREM FailedFilesLeaveNothing == Spec => []FailedLeaveNothing
  <1>1. WalkInv => FailedLeaveNothing
    BY DEF WalkInv
  <1> QED BY <1>1, WalkInvariant, PTL

\* What an agent is told of the code is so, for any repository and whichever of its files
\* fail: calls belong to the innermost definition around them, are linked exactly if one
\* symbol of the index has their name, and a file that failed has left nothing behind.
THEOREM EdgesAreRight == Spec => []EdgesRight
  <1>1. IInv /\ WalkInv => EdgesRight
    BY DEF IInv, IndexInv, WalkInv, EdgesRight
  <1> QED BY <1>1, IndexInvariant, WalkInvariant, PTL

-----------------------------------------------------------------------------
(* Lists made from sets: Sorted puts each member of a finite set in one    *)
(* place, if each two of them have an order.                               *)

IsOrder(before, S) ==
    /\ before \in [S -> SUBSET S]
    /\ \A x \in S : x \notin before[x]
    /\ \A x, y \in S : y \in before[x] => before[y] \subseteq before[x]
    /\ \A x, y \in S : x = y \/ x \in before[y] \/ y \in before[x]
InThatOrder(order, before, S) ==
    /\ order \in [1..Cardinality(S) -> S]
    /\ \A x \in S : \E k \in 1..Cardinality(S) : order[k] = x
    /\ \A k, l \in 1..Cardinality(S) : k < l => order[k] \in before[order[l]]
ByRank(before, S) == [k \in 1..Cardinality(S) |-> CHOOSE x \in S : Cardinality(before[x]) = k - 1]

LEMMA Ranked ==
  ASSUME NEW S, IsFiniteSet(S), NEW before, IsOrder(before, S)
  PROVE  InThatOrder(ByRank(before, S), before, S)
  <1> DEFINE n == Cardinality(S)
             rank == [x \in S |-> Cardinality(before[x]) + 1]
             order == ByRank(before, S)
  <1>1. n \in Nat /\ IsFiniteSet(1..n) /\ Cardinality(1..n) = n
    BY FS_CardinalityType, FS_Interval
  <1>2. \A x \in S : before[x] \in SUBSET S /\ IsFiniteSet(before[x]) /\ Cardinality(before[x]) \in Nat
    <2> TAKE x \in S
    <2>1. before[x] \in SUBSET S
      BY DEF IsOrder
    <2>2. IsFiniteSet(before[x])
      BY <2>1, FS_Subset
    <2> QED BY <2>1, <2>2, FS_CardinalityType
  <1>3. ASSUME NEW x \in S, NEW T \in SUBSET S, before[x] \subseteq T, x \in T
        PROVE  Cardinality(before[x]) < Cardinality(T)
    <2>1. IsFiniteSet(T)
      BY FS_Subset
    <2>2. before[x] \in SUBSET T /\ before[x] # T
      BY <1>3 DEF IsOrder
    <2>3. Cardinality(before[x]) <= Cardinality(T) /\ Cardinality(before[x]) # Cardinality(T)
      BY <2>1, <2>2, FS_Subset
    <2>4. Cardinality(T) \in Nat /\ Cardinality(before[x]) \in Nat
      BY <1>2, <2>1, FS_CardinalityType
    <2> QED BY <2>3, <2>4
  <1>4. \A x \in S : rank[x] \in 1..n
    <2> TAKE x \in S
    <2>1. Cardinality(before[x]) < n
      BY <1>2, <1>3
    <2> QED BY <1>1, <1>2, <2>1
  <1>5. \A x, y \in S : y \in before[x] => rank[y] < rank[x]
    <2> TAKE x, y \in S
    <2> HAVE y \in before[x]
    <2>1. before[y] \subseteq before[x] /\ before[x] \in SUBSET S
      BY DEF IsOrder
    <2>2. Cardinality(before[y]) < Cardinality(before[x])
      BY <1>3, <2>1
    <2> QED BY <1>2, <2>2
  <1>6. \A x, y \in S : rank[x] = rank[y] => x = y
    <2> TAKE x, y \in S
    <2> HAVE rank[x] = rank[y]
    <2>1. rank[x] \in Int /\ rank[y] \in Int
      BY <1>4
    <2>2. x \notin before[y] /\ y \notin before[x]
      <3> HIDE DEF rank
      <3> QED BY <1>5, <2>1
    <2> QED BY <2>2 DEF IsOrder
  <1>7. rank \in Surjection(S, 1..n)
    <2>1. rank \in Injection(S, 1..n)
      BY <1>4, <1>6 DEF Injection, IsInjective
    <2> QED BY <1>1, <2>1, FS_Injection
  <1>8. ASSUME NEW k \in 1..n PROVE order[k] \in S /\ rank[order[k]] = k
    <2>1. \E x \in S : rank[x] = k
      BY <1>7 DEF Surjection
    <2>2. \E x \in S : Cardinality(before[x]) = k - 1
      BY <1>2, <2>1
    <2>3. order[k] = CHOOSE x \in S : Cardinality(before[x]) = k - 1
      BY DEF ByRank
    <2>4. order[k] \in S /\ Cardinality(before[order[k]]) = k - 1
      BY <2>2, <2>3
    <2> QED BY <2>4
  <1>9. order \in [1..n -> S]
    <2>1. order = [k \in 1..n |-> order[k]]
      BY DEF ByRank
    <2> HIDE DEF order
    <2> QED BY <1>8, <2>1
  <1>10. \A x \in S : \E k \in 1..n : order[k] = x
    <2> HIDE DEF order, rank, n
    <2> QED BY <1>4, <1>6, <1>8
  <1>11. ASSUME NEW k \in 1..n, NEW l \in 1..n, k < l PROVE order[k] \in before[order[l]]
    <2> HIDE DEF order, rank, n
    <2>1. order[k] \in S /\ order[l] \in S /\ rank[order[k]] = k /\ rank[order[l]] = l
      BY <1>8
    <2>2. order[k] # order[l]
      BY <1>11, <2>1
    <2>3. order[l] \notin before[order[k]]
      BY <1>5, <1>11, <2>1
    <2> QED BY <2>1, <2>2, <2>3 DEF IsOrder
  <1>12. InThatOrder(order, before, S)
    <2> HIDE DEF order
    <2> QED BY <1>9, <1>10, <1>11 DEF InThatOrder
  <1> QED BY <1>12

\* A function of 1..n is a sequence.
LEMMA IsListed ==
  ASSUME NEW n \in Nat, NEW list, list = [k \in 1..n |-> list[k]]
  PROVE  list \in Seq(ToSet(list)) /\ Len(list) = n /\ DOMAIN list = 1..n
  <1>1. DOMAIN list = 1..n
    BY Zenon
  <1>2. \A k \in 1..n : list[k] \in ToSet(list)
    BY <1>1 DEF ToSet
  <1>3. list \in [1..n -> ToSet(list)]
    <2> DEFINE T == ToSet(list)
    <2> HIDE DEF T
    <2> QED BY <1>2
  <1>4. list \in Seq(ToSet(list))
    <2> DEFINE T == ToSet(list)
    <2> HIDE DEF T
    <2> QED BY <1>3
  <1> QED BY <1>1, <1>3, <1>4

\* By up to four keys, the last of which tells all members apart.
ByKeys(before, S, a, b, c, d) ==
    /\ before \in [S -> SUBSET S]
    /\ a \in [S -> Int] /\ b \in [S -> Int] /\ c \in [S -> Int] /\ d \in [S -> Int]
    /\ \A x, y \in S : d[x] = d[y] => x = y
    /\ \A x, y \in S : y \in before[x] <=>
          IF a[y] # a[x] THEN a[y] < a[x] ELSE IF b[y] # b[x] THEN b[y] < b[x]
          ELSE IF c[y] # c[x] THEN c[y] < c[x] ELSE d[y] < d[x]
LEMMA Lexicographic ==
  ASSUME NEW S, NEW a, NEW b, NEW c, NEW d, NEW before, ByKeys(before, S, a, b, c, d)
  PROVE  IsOrder(before, S)
  <1> DEFINE Before(y, x) == IF a[y] # a[x] THEN a[y] < a[x] ELSE IF b[y] # b[x] THEN b[y] < b[x]
                             ELSE IF c[y] # c[x] THEN c[y] < c[x] ELSE d[y] < d[x]
  <1>1. \A x \in S : a[x] \in Int /\ b[x] \in Int /\ c[x] \in Int /\ d[x] \in Int
    BY DEF ByKeys
  <1>2. \A x, y \in S : y \in before[x] <=> Before(y, x)
    BY DEF ByKeys
  <1>3. before \in [S -> SUBSET S]
    BY DEF ByKeys
  <1>4. \A x \in S : ~Before(x, x)
    BY <1>1
  <1>5. \A x, y, z \in S : Before(y, x) /\ Before(z, y) => Before(z, x)
    BY <1>1
  <1>6. \A x, y \in S : x = y \/ Before(x, y) \/ Before(y, x)
    BY <1>1 DEF ByKeys
  <1> HIDE DEF Before
  <1> QED BY <1>2, <1>3, <1>4, <1>5, <1>6 DEF IsOrder

LEMMA EarlierOrders ==
  ASSUME NEW S, S \subseteq Int
  PROVE  IsOrder([x \in S |-> {y \in S : Earlier(y, x)}], S)
  <1> DEFINE before == [x \in S |-> {y \in S : Earlier(y, x)}]
  <1>1. before \in [S -> SUBSET S] /\ \A x, y \in S : y \in before[x] <=> y < x
    BY DEF Earlier
  <1> HIDE DEF before
  <1>2. \A x \in S : x \notin before[x]
    BY <1>1
  <1>3. \A x, y, z \in S : y \in before[x] /\ z \in before[y] => z \in before[x]
    BY <1>1
  <1>4. \A x, y \in S : x = y \/ x \in before[y] \/ y \in before[x]
    BY <1>1
  <1>5. IsOrder(before, S)
    BY <1>1, <1>2, <1>3, <1>4 DEF IsOrder
  <1> QED BY <1>5 DEF before

LEMMA FirstOf ==
  ASSUME NEW S, IsFiniteSet(S), S # {}, NEW before, IsOrder(before, S)
  PROVE  \E x \in S : \A y \in S : x = y \/ x \in before[y]
  <1> DEFINE n == Cardinality(S)
             order == ByRank(before, S)
  <1>1. n \in Nat /\ n # 0
    BY FS_CardinalityType, FS_EmptySet
  <1>2. InThatOrder(order, before, S)
    BY Ranked
  <1> HIDE DEF order
  <1>3. 1 \in 1..n
    BY <1>1
  <1>4. order[1] \in S
    BY <1>2, <1>3 DEF InThatOrder
  <1>5. ASSUME NEW y \in S PROVE order[1] = y \/ order[1] \in before[y]
    <2>1. PICK k \in 1..n : order[k] = y
      BY <1>2 DEF InThatOrder
    <2>2. k = 1 \/ 1 < k
      BY <1>1
    <2> QED BY <1>2, <1>3, <2>1, <2>2 DEF InThatOrder
  <1> QED BY <1>4, <1>5

LEMMA MinInt ==
  ASSUME NEW S, IsFiniteSet(S), S # {}, S \subseteq Int
  PROVE  Min(S) \in S /\ \A y \in S : Min(S) <= y
  <1>1. \E x \in S : \A y \in S : x <= y
    <2> DEFINE before == [x \in S |-> {y \in S : Earlier(y, x)}]
    <2>1. \E x \in S : \A y \in S : x = y \/ x \in before[y]
      BY EarlierOrders, FirstOf
    <2> QED BY <2>1 DEF Earlier
  <1> QED BY <1>1 DEF Min

LEMMA MaxInt ==
  ASSUME NEW S, IsFiniteSet(S), S # {}, S \subseteq Int
  PROVE  Max(S) \in S /\ \A y \in S : y <= Max(S)
  <1>1. \E x \in S : \A y \in S : x >= y
    <2> DEFINE before == [x \in S |-> {y \in S : y > x}]
    <2>1. IsOrder(before, S)
      <3>1. before \in [S -> SUBSET S] /\ \A x, y \in S : y \in before[x] <=> y > x
        OBVIOUS
      <3> HIDE DEF before
      <3>2. \A x \in S : x \notin before[x]
        BY <3>1
      <3>3. \A x, y, z \in S : y \in before[x] /\ z \in before[y] => z \in before[x]
        BY <3>1
      <3>4. \A x, y \in S : x = y \/ x \in before[y] \/ y \in before[x]
        BY <3>1
      <3> QED BY <3>1, <3>2, <3>3, <3>4 DEF IsOrder
    <2>2. \E x \in S : \A y \in S : x = y \/ x \in before[y]
      BY <2>1, FirstOf
    <2> QED BY <2>2
  <1> QED BY <1>1 DEF Max

LEMMA MinPair ==
  ASSUME NEW a \in Int, NEW b \in Int
  PROVE  Min({a, b}) = IF a <= b THEN a ELSE b
  BY DEF Min
LEMMA MaxPair ==
  ASSUME NEW a \in Int, NEW b \in Int
  PROVE  Max({a, b}) = IF a <= b THEN b ELSE a
  BY DEF Max
LEMMA MinTriple ==
  ASSUME NEW a \in Int, NEW b \in Int, NEW c \in Int
  PROVE  /\ Min({a, b, c}) \in {a, b, c}
         /\ Min({a, b, c}) <= a /\ Min({a, b, c}) <= b /\ Min({a, b, c}) <= c
  <1>1. \E x \in {a, b, c} : \A y \in {a, b, c} : x <= y
    OBVIOUS
  <1> QED BY <1>1 DEF Min

LEMMA PlacesFinite ==
  ASSUME NEW s, IsSequence(s)
  PROVE  /\ DOMAIN s = 1..Len(s) /\ Len(s) \in Nat
         /\ \A S : S \subseteq DOMAIN s => IsFiniteSet(S) /\ S \subseteq Int
  <1>1. PICK T : s \in Seq(T)
    BY DEF IsSequence
  <1>2. DOMAIN s = 1..Len(s) /\ Len(s) \in Nat
    BY <1>1
  <1>3. IsFiniteSet(1..Len(s))
    BY <1>2, FS_Interval
  <1> QED BY <1>2, <1>3, FS_Subset

-----------------------------------------------------------------------------
(* Types of the index: where the walk is, what edges point to, and what    *)
(* symbols say of their file.                                              *)

LEMMA InitTypes == Init => TypeInv
  <1> SUFFICES ASSUME Init PROVE TypeInv
    OBVIOUS
  <1>1. PICK r \in Requests : IndexInit(r.repository) /\ PackInit(r.input)
    BY DEF Init
  <1>2. /\ files = r.repository /\ input = r.input /\ at = 0 /\ filesFailed = 0
        /\ symbols = <<>> /\ edges = <<>> /\ fileSymbols = <<>> /\ fileEdges = <<>>
    BY <1>1 DEF IndexInit, PackInit
  <1>3. IsInput(input) /\ LinesOf(files, input.lengths)
    BY <1>2, InputAssumption
  <1>4. at <= IF files = <<>> THEN 0 ELSE Len(File.nodes) + 1
    <2>1. files # <<>> => Len(File.nodes) \in Nat
      BY <1>2, RepositoryAssumption, FirstFile DEF IsWalk
    <2> QED BY <1>2, <2>1
  <1>5. EdgesTyped(edges, SymbolIds(symbols)) /\ EdgesTyped(fileEdges, SymbolIds(fileSymbols))
        /\ SymbolsFit(symbols) /\ SymbolsFit(fileSymbols)
    BY <1>2, Emptied DEF EdgesTyped, SymbolsFit
  <1> QED BY <1>2, <1>3, <1>4, <1>5 DEF TypeInv

LEMMA EdgesJoined ==
  ASSUME NEW s, IsSequence(s), NEW t, IsSequence(t), NEW S, NEW T, EdgesTyped(s, S), EdgesTyped(t, T)
  PROVE  EdgesTyped(s \o t, S \cup T)
  <1> DEFINE all == s \o t
  <1>1. \A i \in DOMAIN all : \/ i \in DOMAIN s /\ all[i] = s[i]
                              \/ \E j \in DOMAIN t : all[i] = t[j]
    BY Joined
  <1> HIDE DEF all
  <1>2. EdgesTyped(all, S \cup T)
    BY <1>1 DEF EdgesTyped
  <1> QED BY <1>2 DEF all

LEMMA FitJoined ==
  ASSUME NEW s, IsSequence(s), NEW t, IsSequence(t), SymbolsFit(s), SymbolsFit(t)
  PROVE  SymbolsFit(s \o t) /\ SymbolIds(s \o t) = SymbolIds(s) \cup SymbolIds(t)
  <1> DEFINE all == s \o t
  <1>1. \A i \in DOMAIN all : \/ i \in DOMAIN s /\ all[i] = s[i]
                              \/ \E j \in DOMAIN t : all[i] = t[j]
    BY Joined
  <1>2. \A i \in DOMAIN s : i \in DOMAIN all /\ all[i] = s[i]
    BY Joined
  <1>3. \A j \in DOMAIN t : \E i \in DOMAIN all : all[i] = t[j]
    BY JoinedTail
  <1> HIDE DEF all
  <1>4. SymbolsFit(all)
    BY <1>1 DEF SymbolsFit
  <1>5. SymbolIds(all) = SymbolIds(s) \cup SymbolIds(t)
    BY <1>1, <1>2, <1>3 DEF SymbolIds
  <1> QED BY <1>4, <1>5 DEF all

LEMMA EdgeAdded ==
  ASSUME NEW list, IsSequence(list), NEW ids, EdgesTyped(list, ids), NEW e,
         e.kind \in {"calls", "imports", "contains"}, e.target \in ids \cup {NoId},
         e.path \in Int, e.line \in Nat
  PROVE  EdgesTyped(Append(list, e), ids)
  <1> DEFINE all == Append(list, e)
  <1>1. \A i \in DOMAIN list : all[i] = list[i]
    BY Appended
  <1>2. \A i \in DOMAIN all : i \in DOMAIN list \/ all[i] = e
    BY Appended
  <1> HIDE DEF all
  <1>3. EdgesTyped(all, ids)
    BY <1>1, <1>2 DEF EdgesTyped
  <1> QED BY <1>3 DEF all

LEMMA NodesOf == WalkInv => (files # <<>> => Len(File.nodes) \in Nat)
  BY FirstFile DEF WalkInv, IsWalk
LEMMA NodesNext == WalkInv' => (files # <<>> => Len(File.nodes) \in Nat)'
  BY NodesOf, PTL

\* The step to the next file, whether it is kept or not.
LEMMA NextFileTypes ==
  ASSUME TypeInv, WalkInv, WalkInv', NextFile, files # <<>>, UNCHANGED input
  PROVE  /\ (at <= IF files = <<>> THEN 0 ELSE Len(File.nodes) + 1)'
         /\ EdgesTyped(fileEdges', SymbolIds(fileSymbols')) /\ SymbolsFit(fileSymbols)'
         /\ IsInput(input)' /\ LinesOf(files', input'.lengths)
  <1>1. files' = Tail(files) /\ at' = 0 /\ fileSymbols' = <<>> /\ fileEdges' = <<>>
    BY DEF NextFile
  <1>2. (files # <<>> => Len(File.nodes) \in Nat)'
    BY NodesNext
  <1>3. LinesOf(files', input.lengths)
    BY <1>1, FirstFile DEF TypeInv, WalkInv, LinesOf
  <1>4. (at <= IF files = <<>> THEN 0 ELSE Len(File.nodes) + 1)'
    BY <1>1, <1>2
  <1>5. EdgesTyped(fileEdges', SymbolIds(fileSymbols'))
    BY <1>1, Emptied DEF EdgesTyped
  <1>6. SymbolsFit(fileSymbols)'
    BY <1>1, Emptied DEF SymbolsFit
  <1> QED BY <1>3, <1>4, <1>5, <1>6 DEF TypeInv

LEMMA LeaveFileTypes ==
  ASSUME TypeInv, WalkInv, WalkInv', PassOver \/ FileFails, UNCHANGED input
  PROVE  TypeInv'
  <1>1. NextFile /\ UNCHANGED <<symbols, edges>> /\ files # <<>>
    BY DEF PassOver, FileFails
  <1>2. filesFailed' \in Nat
    BY DEF PassOver, FileFails, TypeInv
  <1>3. EdgesTyped(edges', SymbolIds(symbols')) /\ SymbolsFit(symbols)'
    BY <1>1 DEF TypeInv, SymbolsFit
  <1> QED BY <1>1, <1>2, <1>3, NextFileTypes DEF TypeInv

LEMMA FileDoneTypes ==
  ASSUME IInv, TypeInv, WalkInv, WalkInv', FileDone, UNCHANGED input
  PROVE  TypeInv'
  <1>1. /\ NextFile /\ files # <<>> /\ UNCHANGED filesFailed
        /\ symbols' = symbols \o fileSymbols /\ edges' = edges \o fileEdges
    BY DEF FileDone
  <1>2. IsSequence(symbols) /\ IsSequence(fileSymbols) /\ IsSequence(edges) /\ IsSequence(fileEdges)
    BY DEF IInv, Sequences
  <1>3. SymbolsFit(symbols') /\ SymbolIds(symbols') = SymbolIds(symbols) \cup SymbolIds(fileSymbols)
    BY <1>1, <1>2, FitJoined DEF TypeInv
  <1>4. EdgesTyped(edges', SymbolIds(symbols'))
    BY <1>1, <1>2, <1>3, EdgesJoined DEF TypeInv
  <1>5. SymbolsFit(symbols)'
    BY <1>3 DEF SymbolsFit
  <1> QED BY <1>1, <1>4, <1>5, NextFileTypes DEF TypeInv

\* A step of the walk over a file.
LEMMA WalkTypes ==
  ASSUME TypeInv, UNCHANGED <<files, symbols, edges, filesFailed, input>>, files # <<>>,
         at' <= Len(File.nodes) + 1, EdgesTyped(fileEdges', SymbolIds(fileSymbols')), SymbolsFit(fileSymbols')
  PROVE  TypeInv'
  <1>1. SymbolsFit(symbols)' /\ SymbolsFit(fileSymbols)'
    BY DEF TypeInv, SymbolsFit
  <1>2. (at <= IF files = <<>> THEN 0 ELSE Len(File.nodes) + 1)'
    BY DEF File
  <1> QED BY <1>1, <1>2 DEF TypeInv

LEMMA StepInFile ==
  ASSUME WalkInv, files # <<>>
  PROVE  Len(File.nodes) \in Nat /\ DOMAIN File.nodes = 1..Len(File.nodes)
  BY FirstFile DEF WalkInv, IsWalk

LEMMA BeginOrPassTypes ==
  ASSUME TypeInv, WalkInv, BeginFile \/ PassNode \/ EndDefinition, UNCHANGED input
  PROVE  TypeInv'
  <1>1. files # <<>> /\ UNCHANGED <<files, symbols, edges, fileSymbols, fileEdges, filesFailed>>
    BY DEF BeginFile, PassNode, EndDefinition, Walking, Step
  <1>2. at' <= Len(File.nodes) + 1
    <2>1. BeginFile => at' = 1
      BY DEF BeginFile
    <2>2. PassNode \/ EndDefinition => at' = at + 1 /\ at \in DOMAIN File.nodes
      BY DEF PassNode, EndDefinition, Walking, Step
    <2> QED BY <1>1, <2>1, <2>2, StepInFile
  <1>3. EdgesTyped(fileEdges', SymbolIds(fileSymbols')) /\ SymbolsFit(fileSymbols')
    BY <1>1 DEF TypeInv
  <1> QED BY <1>1, <1>2, <1>3, WalkTypes

LEMMA CallOrImportTypes ==
  ASSUME IInv, TypeInv, WalkInv, Call \/ Import, UNCHANGED input
  PROVE  TypeInv'
  <1>1. /\ files # <<>> /\ UNCHANGED <<files, symbols, edges, fileSymbols, filesFailed>>
        /\ at' = at + 1 /\ at \in DOMAIN File.nodes
    BY DEF Call, Import, Walking, Step
  <1>2. Node.line \in Nat
    <2>1. at \notin Ends(File)
      BY <1>1, NodeKinds DEF Call, Import, Grammar, Node
    <2> QED BY <1>1, <2>1, FirstFile DEF WalkInv, IsWalk, Node
  <1>3. File.path \in Int
    BY <1>1, FirstFile DEF TypeInv, WalkInv, LinesOf
  <1>4. EdgesTyped(fileEdges', SymbolIds(fileSymbols))
    <2>1. CASE fileEdges' = fileEdges
      BY <2>1 DEF TypeInv
    <2>2. CASE ~(fileEdges' = fileEdges)
      <3>1. \E e : /\ fileEdges' = Append(fileEdges, e) /\ e.kind \in {"calls", "imports", "contains"}
                   /\ e.target = NoId /\ e.path = File.path /\ e.line = Node.line
        <4>1. CASE Call
          <5> DEFINE e == EdgeOf("calls", Last(scope).id, Node.name, NoId, Node.line)
          <5>1. fileEdges' = Append(fileEdges, e)
            BY <2>2, <4>1 DEF Call
          <5>2. e.kind = "calls" /\ e.target = NoId /\ e.path = File.path /\ e.line = Node.line
            BY DEF EdgeOf
          <5> HIDE DEF e
          <5> QED BY <5>1, <5>2
        <4>2. CASE Import
          <5> DEFINE e == EdgeOf("imports", <<File.path>>, Node.name, NoId, Node.line)
          <5>1. fileEdges' = Append(fileEdges, e)
            BY <2>2, <4>2 DEF Import
          <5>2. e.kind = "imports" /\ e.target = NoId /\ e.path = File.path /\ e.line = Node.line
            BY DEF EdgeOf
          <5> HIDE DEF e
          <5> QED BY <5>1, <5>2
        <4> QED BY <4>1, <4>2
      <3>2. IsSequence(fileEdges)
        BY DEF IInv, Sequences
      <3> QED BY <1>2, <1>3, <3>1, <3>2, EdgeAdded DEF TypeInv
    <2> QED BY <2>1, <2>2
  <1>5. at' <= Len(File.nodes) + 1
    BY <1>1, StepInFile
  <1>6. EdgesTyped(fileEdges', SymbolIds(fileSymbols')) /\ SymbolsFit(fileSymbols')
    BY <1>1, <1>4 DEF TypeInv
  <1> QED BY <1>1, <1>5, <1>6, WalkTypes

LEMMA DefineTypes ==
  ASSUME IInv, TypeInv, WalkInv, Define, UNCHANGED input
  PROVE  TypeInv'
  <1> DEFINE symbol == SymbolFor(Node)
             all == Append(fileSymbols, symbol)
  <1>1. /\ files # <<>> /\ UNCHANGED <<files, symbols, edges, filesFailed>> /\ at' = at + 1
        /\ fileSymbols' = all /\ at \in Definitions(File) /\ at \in DOMAIN File.nodes
        /\ \/ fileEdges' = fileEdges
           \/ fileEdges' = Append(fileEdges, EdgeOf("contains", Last(scope).id, symbol.name, symbol.id,
                                                    symbol.start))
    BY DEF Define, Walking, Step, Definitions, Grammar, Node
  <1>2. symbol.path = File.path /\ symbol.start = Node.line /\ symbol.end = Node.end
    BY DEF SymbolFor
  <1>3. /\ Node.line \in Nat /\ Node.end \in Nat /\ Node.line <= Node.end
        /\ File.path \in Int
        /\ File.path \in DOMAIN input.lengths => Node.end <= input.lengths[File.path]
    <2>1. IsWalk(File) /\ 1 \in DOMAIN files /\ File = files[1]
      BY <1>1, FirstFile DEF WalkInv
    <2>2. at \notin Ends(File)
      BY <1>1, CloseCloses, <2>1 DEF Closes
    <2>3. Node.line \in Nat /\ Node.end \in Nat
      BY <1>1, <2>1, <2>2 DEF IsWalk, Node
    <2>4. Node.line <= Node.end
      BY <1>1, <2>1 DEF IsWalk, Closes, Node
    <2>5. /\ File.path \in Int
          /\ File.path \in DOMAIN input.lengths => Node.end <= input.lengths[File.path]
      BY <1>1, <2>1 DEF TypeInv, LinesOf, Node
    <2> QED BY <2>3, <2>4, <2>5
  <1> HIDE DEF symbol
  <1>4. /\ \A i \in DOMAIN fileSymbols : i \in DOMAIN all /\ all[i] = fileSymbols[i]
        /\ \A i \in DOMAIN all : i \in DOMAIN fileSymbols \/ all[i] = symbol
        /\ \E i \in DOMAIN all : all[i] = symbol
    BY Appended DEF IInv, Sequences
  <1> HIDE DEF all
  <1>5. SymbolsFit(all)
    BY <1>2, <1>3, <1>4 DEF TypeInv, SymbolsFit
  <1>6. SymbolIds(all) = SymbolIds(fileSymbols) \cup {symbol.id}
    BY <1>4 DEF SymbolIds
  <1>7. EdgesTyped(fileEdges, SymbolIds(all))
    BY <1>6 DEF TypeInv, EdgesTyped
  <1>8. EdgesTyped(fileEdges', SymbolIds(all))
    <2> DEFINE e == EdgeOf("contains", Last(scope).id, symbol.name, symbol.id, symbol.start)
    <2>1. e.kind = "contains" /\ e.target = symbol.id /\ e.path = File.path /\ e.line = symbol.start
      BY DEF EdgeOf
    <2>2. fileEdges' = fileEdges \/ fileEdges' = Append(fileEdges, e)
      BY <1>1
    <2> HIDE DEF e
    <2>3. IsSequence(fileEdges)
      BY DEF IInv, Sequences
    <2>4. e.path \in Int /\ e.line \in Nat /\ e.target \in SymbolIds(all) \cup {NoId}
      BY <1>2, <1>3, <1>6, <2>1
    <2>5. EdgesTyped(Append(fileEdges, e), SymbolIds(all))
      BY <1>7, <2>1, <2>3, <2>4, EdgeAdded
    <2> QED BY <1>7, <2>2, <2>5
  <1>9. at' <= Len(File.nodes) + 1
    BY <1>1, StepInFile
  <1> QED BY <1>1, <1>5, <1>8, <1>9, WalkTypes

LEMMA ResolveTypes ==
  ASSUME IInv, TypeInv, ResolveEdgeTargets, UNCHANGED input
  PROVE  TypeInv'
  <1>1. /\ UNCHANGED <<files, at, fileSymbols, fileEdges, symbols, filesFailed>>
        /\ edges' = [i \in DOMAIN edges |-> Linked(edges[i])]
    BY DEF ResolveEdgeTargets
  <1>2. ASSUME NEW i \in DOMAIN edges
        PROVE  LET e == Linked(edges[i])
               IN /\ e.kind = edges[i].kind /\ e.path = edges[i].path /\ e.line = edges[i].line
                  /\ e.target = edges[i].target \/ e.target \in SymbolIds(symbols)
    <2> DEFINE old == edges[i]
    <2>1. DOMAIN old = EdgeFields
      BY DEF IInv, IndexInv, OwnedBy
    <2>2. CASE old.kind = "calls" /\ Unique(old.name)
      <3>1. \E k \in DOMAIN symbols : k \in Candidates(old.name)
        BY <2>2 DEF Unique
      <3>2. PICK k \in DOMAIN symbols : Linked(old) = [old EXCEPT !.target = symbols[k].id]
        BY <2>2, <3>1 DEF Linked
      <3>3. /\ Linked(old).kind = old.kind /\ Linked(old).path = old.path /\ Linked(old).line = old.line
            /\ Linked(old).target = symbols[k].id
        BY <2>1, <3>2 DEF EdgeFields
      <3> QED BY <3>3 DEF SymbolIds
    <2>3. CASE ~(old.kind = "calls" /\ Unique(old.name))
      BY <2>3 DEF Linked
    <2> QED BY <2>2, <2>3
  <1>3. EdgesTyped(edges', SymbolIds(symbols))
    BY <1>1, <1>2 DEF TypeInv, EdgesTyped
  <1>4. SymbolsFit(symbols)' /\ SymbolsFit(fileSymbols)'
    BY <1>1 DEF TypeInv, SymbolsFit
  <1>5. (at <= IF files = <<>> THEN 0 ELSE Len(File.nodes) + 1)'
    BY <1>1 DEF TypeInv, File
  <1> QED BY <1>1, <1>3, <1>4, <1>5 DEF TypeInv

LEMMA TypesFrame ==
  ASSUME TypeInv, UNCHANGED <<files, at, symbols, edges, fileSymbols, fileEdges, filesFailed, input>>
  PROVE  TypeInv'
  <1>1. SymbolsFit(symbols)' /\ SymbolsFit(fileSymbols)'
    BY DEF TypeInv, SymbolsFit
  <1>2. (at <= IF files = <<>> THEN 0 ELSE Len(File.nodes) + 1)'
    BY DEF TypeInv, File
  <1> QED BY <1>1, <1>2 DEF TypeInv

LEMMA InputStays ==
  ASSUME [Next]_vars
  PROVE  UNCHANGED input
  <1>1. PackStep => UNCHANGED input
    BY DEF PackStep, PullRequest, NoRules, NoDiff, Nothing, Show, PassBy, EndLoop, RepoMap
  <1>2. Ask => UNCHANGED input
    BY AskFrame DEF packVars
  <1> QED BY <1>1, <1>2 DEF Next, BeginReview, packVars, vars

LEMMA NextTypes == IInv /\ WalkInv /\ WalkInv' /\ TypeInv /\ [Next]_vars => TypeInv'
  <1> SUFFICES ASSUME IInv, WalkInv, WalkInv', TypeInv, [Next]_vars PROVE TypeInv'
    OBVIOUS
  <1>1. UNCHANGED input
    BY InputStays
  <1>2. CASE IndexStep
    <2>1. CASE AllFiles
      BY <1>1, <2>1, TypesFrame DEF AllFiles
    <2> QED BY <1>1, <1>2, <2>1, LeaveFileTypes, FileDoneTypes, BeginOrPassTypes, CallOrImportTypes,
               DefineTypes, ResolveTypes DEF IndexStep
  <1>3. CASE ~IndexStep
    <2>1. UNCHANGED indexVars
      BY <1>3, AskFrame DEF Next, BeginReview, vars
    <2> QED BY <1>1, <2>1, TypesFrame DEF indexVars
  <1> QED BY <1>2, <1>3

-----------------------------------------------------------------------------
(* What a loop of the context pack goes over.                              *)

LEMMA QueueFrom ==
  ASSUME NEW S, IsFiniteSet(S), NEW before, IsOrder(before, S), NEW items, DOMAIN items = S, NEW list,
         list = [k \in 1..Cardinality(S) |-> items[ByRank(before, S)[k]]]
  PROVE  /\ list \in Seq(ToSet(list)) /\ Len(list) = Cardinality(S)
         /\ ToSet(list) = {items[x] : x \in S}
         /\ \A k, l \in DOMAIN list : k < l =>
               \E x, y \in S : x \in before[y] /\ list[k] = items[x] /\ list[l] = items[y]
  <1> DEFINE n == Cardinality(S)
             order == ByRank(before, S)
  <1>1. n \in Nat
    BY FS_CardinalityType
  <1>2. InThatOrder(order, before, S)
    BY Ranked
  <1>3. list \in Seq(ToSet(list)) /\ Len(list) = n /\ DOMAIN list = 1..n
    BY <1>1, IsListed
  <1> HIDE DEF order
  <1>4. \A k \in 1..n : list[k] = items[order[k]] /\ order[k] \in S
    BY <1>2 DEF order, InThatOrder
  <1>5. ToSet(list) = {items[x] : x \in S}
    BY <1>2, <1>3, <1>4 DEF InThatOrder, ToSet
  <1>6. \A k, l \in 1..n : k < l => order[k] \in before[order[l]]
    BY <1>2 DEF InThatOrder
  <1>7. \A k, l \in DOMAIN list : k < l =>
           \E x, y \in S : x \in before[y] /\ list[k] = items[x] /\ list[l] = items[y]
    BY <1>3, <1>4, <1>6
  <1> QED BY <1>3, <1>5, <1>7

ItemsFit(S, items) ==
    /\ DOMAIN items = S
    /\ \A x, y \in S : items[x].what = items[y].what => x = y
    /\ \A x \in S : items[x].size \in Nat
IsQueue(list, S, items) ==
    /\ list \in Seq(ToSet(list))
    /\ {q.what : q \in ToSet(list)} = {items[x].what : x \in S}
    /\ \A i, j \in DOMAIN list : list[i].what = list[j].what => i = j
    /\ \A i \in DOMAIN list : list[i].size \in Nat
ListOf(before, S, items) == [k \in 1..Cardinality(S) |-> items[ByRank(before, S)[k]]]

LEMMA QueueItems ==
  ASSUME NEW S, IsFiniteSet(S), NEW before, IsOrder(before, S), NEW items, ItemsFit(S, items)
  PROVE  IsQueue(ListOf(before, S, items), S, items)
  <1> DEFINE list == ListOf(before, S, items)
  <1>0. /\ DOMAIN items = S
        /\ \A x, y \in S : items[x].what = items[y].what => x = y
        /\ \A x \in S : items[x].size \in Nat
        /\ list = [k \in 1..Cardinality(S) |-> items[ByRank(before, S)[k]]]
    BY DEF ItemsFit, ListOf
  <1> HIDE DEF list
  <1>1. list \in Seq(ToSet(list)) /\ ToSet(list) = {items[x] : x \in S}
    BY <1>0, QueueFrom
  <1>2. \A k, l \in DOMAIN list : k < l =>
               \E x, y \in S : x \in before[y] /\ list[k] = items[x] /\ list[l] = items[y]
    BY <1>0, QueueFrom
  <1>3. \A i \in DOMAIN list : list[i] \in ToSet(list)
    BY DEF ToSet
  <1>4. ASSUME NEW i \in DOMAIN list, NEW j \in DOMAIN list, list[i].what = list[j].what
        PROVE  ~(i < j)
    <2> SUFFICES ASSUME i < j PROVE FALSE
      OBVIOUS
    <2>1. PICK x \in S, y \in S : x \in before[y] /\ list[i] = items[x] /\ list[j] = items[y]
      BY <1>2
    <2>2. x = y
      BY <1>0, <1>4, <2>1
    <2> QED BY <2>1, <2>2 DEF IsOrder
  <1>5. DOMAIN list \subseteq Int
    BY <1>1
  <1>6. \A i, j \in DOMAIN list : list[i].what = list[j].what => i = j
    BY <1>4, <1>5
  <1>7. \A i \in DOMAIN list : list[i].size \in Nat
    BY <1>0, <1>1, <1>3
  <1>8. {q.what : q \in ToSet(list)} = {items[x].what : x \in S}
    <2>1. \A q \in ToSet(list) : q.what \in {items[x].what : x \in S}
      BY <1>1
    <2>2. \A x \in S : items[x] \in ToSet(list)
      BY <1>1
    <2> QED BY <2>1, <2>2
  <1> QED BY <1>1, <1>6, <1>7, <1>8 DEF IsQueue, list

LEMMA RankedIn ==
  ASSUME NEW S, IsFiniteSet(S), NEW before, IsOrder(before, S)
  PROVE  \A k \in 1..Cardinality(S) : ByRank(before, S)[k] \in S
  <1>1. InThatOrder(ByRank(before, S), before, S)
    BY Ranked
  <1> DEFINE order == ByRank(before, S)
  <1> HIDE DEF order
  <1> QED BY <1>1 DEF order, InThatOrder

LEMMA CharactersAreNat ==
  ASSUME NEW text \in Seq(Nat)
  PROVE  Characters(text) \in Nat
  <1>1. SumOf(text) \in Nat
    BY SumIsNat
  <1>2. Len(text) \in Nat /\ (text # <<>> => Len(text) > 0)
    OBVIOUS
  <1> QED BY <1>1, <1>2 DEF Characters

LEMMA CutIsText ==
  ASSUME NEW text \in Seq(Nat), NEW limit \in Nat
  PROVE  Cut(text, limit) \in Seq(Nat)
  <1>1. CASE Breaks(text, limit) # {}
    <2> DEFINE m == Max(Breaks(text, limit))
    <2>1. Breaks(text, limit) \subseteq 1..(Len(text) - 1) /\ Len(text) \in Nat
      BY DEF Breaks
    <2>2. IsFiniteSet(Breaks(text, limit)) /\ Breaks(text, limit) \subseteq Int
      <3>1. Len(text) - 1 \in Int
        BY <2>1
      <3>2. IsFiniteSet(1..(Len(text) - 1))
        BY <3>1, FS_Interval
      <3> QED BY <2>1, <3>2, FS_Subset
    <2>3. m \in Breaks(text, limit)
      BY <1>1, <2>2, MaxInt
    <2> HIDE DEF m
    <2>4. m \in 1..(Len(text) - 1)
      BY <2>1, <2>3
    <2>5. SubSeq(text, 1, m) \in Seq(Nat)
      BY <2>1, <2>4
    <2> QED BY <1>1, <2>5 DEF Cut, m
  <1>2. CASE Breaks(text, limit) = {}
    <2>1. <<limit>> \in Seq(Nat)
      OBVIOUS
    <2> QED BY <1>2, <2>1 DEF Cut
  <1> QED BY <1>1, <1>2

\* What a cut leaves is within the limit.
LEMMA CutFits ==
  ASSUME NEW text \in Seq(Nat), NEW limit \in Nat
  PROVE  Characters(Cut(text, limit)) <= limit
  <1>1. CASE Characters(text) <= limit
    BY <1>1 DEF Cut
  <1>2. CASE ~(Characters(text) <= limit) /\ Breaks(text, limit) = {}
    <2> DEFINE s == <<limit>>
    <2>1. s \in Seq(Int) /\ Len(s) = 1 /\ s[1] = limit /\ s # <<>>
      OBVIOUS
    <2>2. Cut(text, limit) = s
      BY <1>2 DEF Cut
    <2> HIDE DEF s
    <2>3. PICK sum \in [0..Len(s) -> Int] :
             /\ sum[0] = 0
             /\ \A n \in 1..Len(s) : sum[n] = sum[n - 1] + s[n]
             /\ SumOf(s) = sum[Len(s)]
      BY <2>1, SumSteps
    <2>4. SumOf(s) = limit
      BY <2>1, <2>3
    <2>5. Characters(s) = limit
      BY <2>1, <2>4 DEF Characters
    <2> QED BY <2>2, <2>5
  <1>3. CASE ~(Characters(text) <= limit) /\ Breaks(text, limit) # {}
    <2> DEFINE m == Max(Breaks(text, limit))
               s == SubSeq(text, 1, m)
    <2>1. Breaks(text, limit) \subseteq 1..(Len(text) - 1) /\ Len(text) \in Nat
      BY DEF Breaks
    <2>2. IsFiniteSet(1..(Len(text) - 1))
      BY <2>1, FS_Interval
    <2>3. IsFiniteSet(Breaks(text, limit)) /\ Breaks(text, limit) \subseteq Int
      BY <2>1, <2>2, FS_Subset
    <2>4. m \in Breaks(text, limit)
      BY <1>3, <2>3, MaxInt
    <2>5. Cut(text, limit) = s
      BY <1>3 DEF Cut
    <2> HIDE DEF m
    <2>6. m \in 1..(Len(text) - 1) /\ SumOf(s) + m <= limit
      BY <2>4 DEF Breaks
    <2>7. s \in Seq(Nat) /\ Len(s) = m /\ s # <<>>
      BY <2>1, <2>6
    <2> HIDE DEF s
    <2>8. SumOf(s) \in Nat
      BY <2>7, SumIsNat
    <2>9. Characters(s) = SumOf(s) + m - 1
      BY <2>7 DEF Characters
    <2> QED BY <2>1, <2>5, <2>6, <2>8, <2>9
  <1> QED BY <1>1, <1>2, <1>3

LEMMA RulesQueue ==
  ASSUME TypeInv
  PROVE  QueueRight("rules", RuleItems)
  <1> DEFINE S == Applicable
             before == [x \in S |-> {y \in S : Earlier(y, x)}]
             items == [x \in S |-> RuleItem(x)]
  <1>1. IsInput(input)
    BY DEF TypeInv
  <1>2. IsSequence(input.rules)
    BY <1>1 DEF IsInput, IsSequence
  <1>3. S \subseteq DOMAIN input.rules /\ IsFiniteSet(S) /\ S \subseteq Int
    BY <1>2, PlacesFinite DEF Applicable
  <1>4. IsOrder(before, S)
    BY <1>3, EarlierOrders
  <1>5. RuleItems = ListOf(before, S, items)
    <2>1. \A k \in 1..Cardinality(S) : ByRank(before, S)[k] \in S
      <3> HIDE DEF before, S
      <3> QED BY <1>3, <1>4, RankedIn
    <2>2. RuleItems = [k \in 1..Cardinality(S) |-> RuleItem(ByRank(before, S)[k])]
      BY DEF RuleItems, Listed, Sorted, ByRank
    <2> QED BY <2>1, <2>2 DEF ListOf
  <1>6. \A x \in S : items[x].what = input.rules[x].id /\ items[x].size = Characters(input.rules[x].text)
    BY DEF RuleItem
  <1>7. \A x \in S : items[x].size \in Nat
    <2>1. \A x \in DOMAIN input.rules : input.rules[x].text \in Seq(Nat)
      BY <1>1 DEF IsInput
    <2>2. \A x \in DOMAIN input.rules : Characters(input.rules[x].text) \in Nat
      BY <2>1, CharactersAreNat
    <2> HIDE DEF items, S
    <2> QED BY <1>3, <1>6, <2>2
  <1>8. \A x, y \in S : items[x].what = items[y].what => x = y
    BY <1>1, <1>3, <1>6 DEF IsInput
  <1>9. Owed("rules") = {items[x].what : x \in S}
    BY <1>6 DEF Owed
  <1>10. ItemsFit(S, items)
    BY <1>7, <1>8 DEF ItemsFit
  <1>11. IsQueue(RuleItems, S, items)
    <2> HIDE DEF items, before, S
    <2> QED BY <1>3, <1>4, <1>5, <1>10, QueueItems
  <1> HIDE DEF items, before, S
  <1> QED BY <1>9, <1>11 DEF IsQueue, QueueRight, Loops

LEMMA ImageFinite ==
  ASSUME NEW S, IsFiniteSet(S), NEW f, DOMAIN f = S
  PROVE  IsFiniteSet({f[x] : x \in S}) /\ Cardinality({f[x] : x \in S}) <= Cardinality(S)
  <1> DEFINE T == {f[x] : x \in S}
             g == [x \in S |-> f[x]]
  <1>1. g \in Surjection(S, T)
    BY DEF Surjection
  <1> HIDE DEF T, g
  <1>2. IsFiniteSet(T) /\ Cardinality(T) <= Cardinality(S)
    BY <1>1, FS_Surjection
  <1> QED BY <1>2 DEF T

\* A queue of one item for each owed thing is right.
LEMMA PlainQueue ==
  ASSUME NEW title \in {"diff", "symbols", "callers"}, NEW S, NEW items, NEW list, IsQueue(list, S, items),
         Owed(title) = {items[x].what : x \in S}, title = "callers" => list = CallerItems
  PROVE  QueueRight(title, list)
  BY DEF IsQueue, QueueRight, Loops

LEMMA SymbolsAreInts ==
  ASSUME TypeInv, IInv, touched \subseteq DOMAIN symbols
  PROVE  /\ DOMAIN symbols \subseteq Int /\ IsFiniteSet(touched)
         /\ \A i \in DOMAIN symbols :
               /\ symbols[i].path \in Int /\ symbols[i].start \in Nat /\ symbols[i].end \in Nat
               /\ symbols[i].start <= symbols[i].end
               /\ symbols[i].path \in DOMAIN input.lengths =>
                     symbols[i].end <= input.lengths[symbols[i].path] /\ input.lengths[symbols[i].path] \in Nat
  <1>1. IsSequence(symbols)
    BY DEF IInv, Sequences
  <1>2. DOMAIN symbols \subseteq Int /\ IsFiniteSet(touched)
    BY <1>1, PlacesFinite
  <1>3. SymbolsFit(symbols) /\ \A path \in DOMAIN input.lengths : input.lengths[path] \in Nat
    BY DEF TypeInv, IsInput
  <1> QED BY <1>2, <1>3 DEF SymbolsFit

LEMMA EdgesFinite ==
  ASSUME IInv
  PROVE  DOMAIN edges \subseteq Int /\ \A S : S \subseteq DOMAIN edges => IsFiniteSet(S)
  <1>1. IsSequence(edges)
    BY DEF IInv, Sequences
  <1> QED BY <1>1, PlacesFinite

LEMMA ByStartOrders ==
  ASSUME TypeInv, IInv, touched \subseteq DOMAIN symbols, NEW S, S \subseteq DOMAIN symbols
  PROVE  IsOrder([x \in S |-> {y \in S : ByStart(y, x)}], S)
  <1> DEFINE a == [x \in S |-> symbols[x].path]
             b == [x \in S |-> symbols[x].start]
             c == [x \in S |-> 0]
             d == [x \in S |-> x]
             before == [x \in S |-> {y \in S : ByStart(y, x)}]
  <1>1. \A x \in S : x \in Int /\ symbols[x].path \in Int /\ symbols[x].start \in Int
    BY SymbolsAreInts
  <1>2. /\ a \in [S -> Int] /\ b \in [S -> Int] /\ c \in [S -> Int] /\ d \in [S -> Int]
        /\ \A x, y \in S : d[x] = d[y] => x = y
    BY <1>1
  <1>3. \A x, y \in S : ByStart(y, x) <=>
            IF a[y] # a[x] THEN a[y] < a[x] ELSE IF b[y] # b[x] THEN b[y] < b[x]
            ELSE IF c[y] # c[x] THEN c[y] < c[x] ELSE d[y] < d[x]
    BY DEF ByStart
  <1>0. before \in [S -> SUBSET S] /\ \A x, y \in S : y \in before[x] <=> ByStart(y, x)
    OBVIOUS
  <1> HIDE DEF a, b, c, d, before
  <1>4. ByKeys(before, S, a, b, c, d)
    BY <1>0, <1>2, <1>3 DEF ByKeys
  <1>5. IsOrder(before, S)
    BY <1>4, Lexicographic
  <1> QED BY <1>5 DEF before

LEMMA CallersQueue ==
  ASSUME TypeInv, IInv, touched \subseteq DOMAIN symbols
  PROVE  QueueRight("callers", CallerItems)
  <1> DEFINE S == Called
             before == [x \in S |-> {y \in S : ByStart(y, x)}]
             items == [x \in S |-> CallerItem(x)]
  <1>1. S \subseteq touched /\ S \subseteq DOMAIN symbols
    BY DEF Called
  <1>2. IsFiniteSet(S)
    BY <1>1, SymbolsAreInts, FS_Subset
  <1>3. IsOrder(before, S)
    <2> HIDE DEF S
    <2> QED BY <1>1, ByStartOrders
  <1>4. CallerItems = ListOf(before, S, items)
    <2>1. \A k \in 1..Cardinality(S) : ByRank(before, S)[k] \in S
      <3> HIDE DEF before, S
      <3> QED BY <1>2, <1>3, RankedIn
    <2>2. CallerItems = [k \in 1..Cardinality(S) |-> CallerItem(ByRank(before, S)[k])]
      BY DEF CallerItems, Listed, Sorted, ByRank
    <2> QED BY <2>1, <2>2 DEF ListOf
  <1>5. ASSUME NEW x \in S
        PROVE  items[x].what = x /\ items[x].size \in Nat
    <2> DEFINE sites == Cardinality(SitesOf(x))
               listed == Min({sites, Limits.callersPerSymbol})
    <2>1. SitesOf(x) \subseteq DOMAIN edges
      BY DEF SitesOf, CallSitesOf, CallPlaces
    <2>2. sites \in Nat
      BY <2>1, EdgesFinite, FS_CardinalityType
    <2>3. Limits.callersPerSymbol \in Nat /\ NoteSize \in Nat
      BY PackAssumption DEF LimitFields
    <2>4. listed \in Nat
      BY <2>2, <2>3, MinPair
    <2>5. items[x] = [what |-> x, more |-> sites - listed,
                      size |-> NoteSize + listed + (IF sites > listed THEN NoteSize ELSE 0)]
      BY DEF CallerItem
    <2> QED BY <2>3, <2>4, <2>5
  <1>6. ItemsFit(S, items)
    BY <1>5 DEF ItemsFit
  <1>7. Owed("callers") = S
    BY DEF Owed
  <1>8. Owed("callers") = {items[x].what : x \in S}
    BY <1>5, <1>7
  <1> HIDE DEF items, before, S
  <1>9. IsQueue(CallerItems, S, items)
    BY <1>2, <1>3, <1>4, <1>6, QueueItems
  <1> QED BY <1>8, <1>9, PlainQueue

LEMMA SymbolsQueue ==
  ASSUME TypeInv, IInv, touched \subseteq DOMAIN symbols
  PROVE  QueueRight("symbols", SymbolItems)
  <1> DEFINE S == Edited
             before == [x \in S |-> {y \in S : MoreCalled(y, x)}]
             items == [x \in S |-> SymbolItem(x)]
  <1>1. S \subseteq touched /\ S \subseteq DOMAIN symbols
    BY DEF Edited
  <1>2. IsFiniteSet(S)
    BY <1>1, SymbolsAreInts, FS_Subset
  <1>3. IsOrder(before, S)
    <2> DEFINE a == [x \in S |-> -Callers(x)]
               b == [x \in S |-> symbols[x].path]
               c == [x \in S |-> symbols[x].start]
               d == [x \in S |-> x]
    <2>1. ASSUME NEW x \in S
          PROVE  Callers(x) \in Nat
      <3> DEFINE T == {j \in CallSitesOf(symbols[x].id) : Known(edges[j].source)}
                 f == [i \in T |-> edges[i].source]
      <3>1. IsFiniteSet(T)
        <4>1. T \subseteq DOMAIN edges
          BY DEF CallSitesOf, CallPlaces
        <4> HIDE DEF T
        <4> QED BY <4>1, EdgesFinite
      <3>2. CallersOf(symbols[x].id) = {f[i] : i \in T}
        BY DEF CallersOf
      <3>3. DOMAIN f = T
        OBVIOUS
      <3> HIDE DEF f, T
      <3>4. IsFiniteSet(CallersOf(symbols[x].id))
        BY <3>1, <3>2, <3>3, ImageFinite
      <3> QED BY <3>4, FS_CardinalityType DEF Callers
    <2>2. \A x \in S : x \in Int /\ symbols[x].path \in Int /\ symbols[x].start \in Int
      BY <1>1, SymbolsAreInts
    <2>3. /\ a \in [S -> Int] /\ b \in [S -> Int] /\ c \in [S -> Int] /\ d \in [S -> Int]
          /\ \A x, y \in S : d[x] = d[y] => x = y
      BY <2>1, <2>2
    <2>4. \A x, y \in S : MoreCalled(y, x) <=>
              IF a[y] # a[x] THEN a[y] < a[x] ELSE IF b[y] # b[x] THEN b[y] < b[x]
              ELSE IF c[y] # c[x] THEN c[y] < c[x] ELSE d[y] < d[x]
      BY <2>1 DEF MoreCalled, ByStart
    <2>5. before \in [S -> SUBSET S] /\ \A x, y \in S : y \in before[x] <=> MoreCalled(y, x)
      OBVIOUS
    <2> HIDE DEF a, b, c, d, S, before
    <2>6. ByKeys(before, S, a, b, c, d)
      BY <2>3, <2>4, <2>5 DEF ByKeys
    <2> QED BY <2>6, Lexicographic
  <1>4. SymbolItems = ListOf(before, S, items)
    <2>1. \A k \in 1..Cardinality(S) : ByRank(before, S)[k] \in S
      <3> HIDE DEF before, S
      <3> QED BY <1>2, <1>3, RankedIn
    <2>2. SymbolItems = [k \in 1..Cardinality(S) |-> SymbolItem(ByRank(before, S)[k])]
      BY DEF SymbolItems, Listed, Sorted, ByRank
    <2> QED BY <2>1, <2>2 DEF ListOf
  <1>5. ASSUME NEW x \in S
        PROVE  items[x].what = x /\ items[x].size \in Nat
    <2> DEFINE s == symbols[x]
               last == IF Readable(s.path) THEN LastShown(s, Limits.symbolLines) ELSE s.start - 1
    <2>1. /\ s.start \in Nat /\ s.end \in Nat /\ s.start <= s.end
          /\ Readable(s.path) => s.end <= input.lengths[s.path] /\ input.lengths[s.path] \in Nat
      BY <1>1, SymbolsAreInts DEF Readable
    <2>2. Limits.symbolLines \in Nat \ {0} /\ NoteSize \in Nat
      BY PackAssumption DEF LimitFields
    <2>3. last \in Int /\ last >= s.start - 1
      <3>1. CASE Readable(s.path)
        <4>1. last = Min({s.end, s.start + Limits.symbolLines - 1, input.lengths[s.path]})
          BY <3>1 DEF LastShown
        <4> DEFINE e == s.end
                   m == s.start + Limits.symbolLines - 1
                   l == input.lengths[s.path]
        <4>0. e \in Int /\ m \in Int /\ l \in Int
          BY <2>1, <2>2, <3>1
        <4>a. last = Min({e, m, l})
          BY <4>1
        <4> HIDE DEF last, e, m, l
        <4>2. last \in {e, m, l}
          BY <4>0, <4>a, MinTriple
        <4> USE DEF e, m, l
        <4> QED BY <2>1, <2>2, <3>1, <4>2
      <3>2. CASE ~Readable(s.path)
        BY <2>1, <3>2
      <3> QED BY <3>1, <3>2
    <2>4. items[x].what = x /\ items[x].size = NoteSize + (last - s.start + 1) + (IF last < s.end THEN NoteSize ELSE 0)
      BY DEF SymbolItem
    <2> HIDE DEF last, s, items
    <2>5. last - s.start + 1 \in Nat
      BY <2>1, <2>3
    <2> QED BY <2>2, <2>4, <2>5
  <1>6. ItemsFit(S, items)
    BY <1>5 DEF ItemsFit
  <1>7. Owed("symbols") = S
    BY DEF Owed
  <1>8. Owed("symbols") = {items[x].what : x \in S}
    BY <1>5, <1>7
  <1> HIDE DEF items, before, S
  <1>9. IsQueue(SymbolItems, S, items)
    BY <1>2, <1>3, <1>4, <1>6, QueueItems
  <1> QED BY <1>8, <1>9, PlainQueue

LEMMA GraverOrders ==
  ASSUME IsInput(input), NEW S, S \subseteq input.findings
  PROVE  IsOrder([x \in S |-> {y \in S : Graver(y, x)}], S)
  <1> DEFINE a == [x \in S |-> Order(x.severity)]
             b == [x \in S |-> 0]
             d == [x \in S |-> x.id]
             before == [x \in S |-> {y \in S : Graver(y, x)}]
  <1>1. \A x \in S : x.id \in Int /\ Order(x.severity) \in Int
    BY DEF IsInput, Order
  <1>2. \A x, y \in S : x.id = y.id => x = y
    BY DEF IsInput
  <1>3. /\ a \in [S -> Int] /\ b \in [S -> Int] /\ d \in [S -> Int]
        /\ \A x, y \in S : d[x] = d[y] => x = y
    BY <1>1, <1>2
  <1>4. \A x, y \in S : Graver(y, x) <=>
            IF a[y] # a[x] THEN a[y] < a[x] ELSE IF b[y] # b[x] THEN b[y] < b[x]
            ELSE IF b[y] # b[x] THEN b[y] < b[x] ELSE d[y] < d[x]
    BY DEF Graver
  <1>5. before \in [S -> SUBSET S] /\ \A x, y \in S : y \in before[x] <=> Graver(y, x)
    OBVIOUS
  <1> HIDE DEF a, b, d, before
  <1>6. ByKeys(before, S, a, b, b, d)
    BY <1>3, <1>4, <1>5 DEF ByKeys
  <1>7. IsOrder(before, S)
    BY <1>6, Lexicographic
  <1> QED BY <1>7 DEF before

LEMMA FindingsQueue ==
  ASSUME TypeInv
  PROVE  QueueRight("findings", FindingItems)
  <1> DEFINE S == OnChangedLines
             before == [x \in S |-> {y \in S : Graver(y, x)}]
             items == [x \in S |-> FindingItem(x)]
  <1>0. IsInput(input)
    BY DEF TypeInv
  <1>1. S \subseteq input.findings
    BY DEF OnChangedLines
  <1>2. IsFiniteSet(S)
    <2>1. IsFiniteSet(input.findings)
      BY <1>0 DEF IsInput
    <2> QED BY <1>1, <2>1, FS_Subset
  <1>3. IsOrder(before, S)
    <2> HIDE DEF S
    <2> QED BY <1>0, <1>1, GraverOrders
  <1>4. FindingItems = ListOf(before, S, items)
    <2>1. \A k \in 1..Cardinality(S) : ByRank(before, S)[k] \in S
      <3> HIDE DEF before, S
      <3> QED BY <1>2, <1>3, RankedIn
    <2>2. FindingItems = [k \in 1..Cardinality(S) |-> FindingItem(ByRank(before, S)[k])]
      BY DEF FindingItems, Listed, Sorted, ByRank
    <2> QED BY <2>1, <2>2 DEF ListOf
  <1>5. \A x \in S : items[x].what = x.id /\ items[x].size = x.size /\ items[x].severity = x.severity
    BY DEF FindingItem
  <1>6. ItemsFit(S, items)
    <2>1. \A x, y \in S : x.id = y.id => x = y
      BY <1>0, <1>1 DEF IsInput
    <2>2. \A x \in S : x.size \in Nat
      BY <1>0, <1>1 DEF IsInput
    <2> QED BY <1>5, <2>1, <2>2 DEF ItemsFit
  <1>7. Owed("findings") = {f.id : f \in S}
    BY DEF Owed
  <1>8. Owed("findings") = {items[x].what : x \in S}
    BY <1>5, <1>7
  <1>9. \A x, y \in S : x \in before[y] => Order(items[x].severity) <= Order(items[y].severity)
    <2>1. \A x, y \in S : x \in before[y] => Graver(x, y)
      OBVIOUS
    <2>2. \A x, y \in S : Graver(x, y) => Order(x.severity) <= Order(y.severity)
      BY DEF Graver, Order
    <2> QED BY <1>5, <2>1, <2>2
  <1>10. \A x \in S : items[x] \in {FindingItem(f) : f \in OnChangedLines}
    OBVIOUS
  <1> DEFINE list == FindingItems
  <1>11. DOMAIN items = S
    OBVIOUS
  <1> HIDE DEF items, before, S, list
  <1>12. IsQueue(list, S, items)
    BY <1>2, <1>3, <1>4, <1>6, QueueItems DEF list
  <1>13. list = [k \in 1..Cardinality(S) |-> items[ByRank(before, S)[k]]]
    BY <1>4 DEF ListOf, list
  <1>14. \A k \in DOMAIN list : k \in 1..Cardinality(S) /\ list[k] = items[ByRank(before, S)[k]]
    BY <1>13
  <1>15. InThatOrder(ByRank(before, S), before, S)
    BY <1>2, <1>3, Ranked
  <1> DEFINE order == ByRank(before, S)
  <1> HIDE DEF order
  <1>16. \A k, l \in 1..Cardinality(S) : order[k] \in S /\ (k < l => order[k] \in before[order[l]])
    BY <1>15 DEF InThatOrder, order
  <1>17. \A k, l \in DOMAIN list : k < l => Order(list[k].severity) <= Order(list[l].severity)
    BY <1>9, <1>14, <1>16 DEF order
  <1>18. \A k \in DOMAIN list : list[k] \in {FindingItem(f) : f \in OnChangedLines}
    BY <1>10, <1>14, <1>16 DEF order
  <1>19. ToSet(list) \subseteq {FindingItem(f) : f \in OnChangedLines}
    BY <1>18 DEF ToSet
  <1>20. /\ list \in Seq(ToSet(list))
         /\ {q.what : q \in ToSet(list)} = Owed("findings")
         /\ \A i, j \in DOMAIN list : list[i].what = list[j].what => i = j
         /\ \A i \in DOMAIN list : list[i].size \in Nat
    BY <1>8, <1>12 DEF IsQueue
  <1>21. QueueRight("findings", list)
    BY <1>17, <1>19, <1>20 DEF QueueRight, Loops
  <1> QED BY <1>21 DEF list

\* What git prints is the lines of the files it is not told to leave out, in their order.
LEMMA PrintedLines ==
  ASSUME IsInput(input)
  PROVE  /\ IsSequence(Printed) /\ IsDiff(Printed)
         /\ {Printed[k].owner : k \in DOMAIN Printed} = Owed("diff")
  <1> DEFINE S == {i \in DOMAIN input.diff : input.diff[i].owner \notin Hidden(input)}
             before == [x \in S |-> {y \in S : Earlier(y, x)}]
             order == ByRank(before, S)
             n == Cardinality(S)
  <1>1. IsSequence(input.diff) /\ IsDiff(Printed)
    BY DEF IsInput, IsSequence, Printed
  <1>2. IsFiniteSet(S) /\ S \subseteq Int
    BY <1>1, PlacesFinite
  <1>3. IsOrder(before, S)
    <2> HIDE DEF S
    <2> QED BY <1>2, EarlierOrders
  <1>4. Printed = [k \in 1..n |-> input.diff[order[k]]]
    BY DEF Printed, PrintedOf, Listed, Sorted, ByRank
  <1>5. InThatOrder(order, before, S) /\ n \in Nat
    <2> HIDE DEF before, S
    <2> QED BY <1>2, <1>3, Ranked, FS_CardinalityType
  <1>6. \A x \in S : x \in DOMAIN input.diff /\ input.diff[x].owner \notin Hidden(input)
    OBVIOUS
  <1>7. \A x \in DOMAIN input.diff : input.diff[x].owner \notin Hidden(input) => x \in S
    OBVIOUS
  <1> HIDE DEF order, before, S
  <1>8. /\ \A k \in 1..n : order[k] \in S
        /\ \A x \in S : \E k \in 1..n : order[k] = x
    BY <1>5 DEF InThatOrder
  <1>9. DOMAIN Printed = 1..n /\ \A k \in 1..n : Printed[k] = input.diff[order[k]]
    BY <1>4
  <1>10. IsSequence(Printed)
    <2> DEFINE T == {input.diff[order[k]] : k \in 1..n}
    <2>1. Printed \in [1..n -> T]
      BY <1>4
    <2>2. Printed \in Seq(T)
      BY <1>5, <2>1
    <2> QED BY <2>2 DEF IsSequence
  <1>11. ASSUME NEW k \in DOMAIN Printed
         PROVE  Printed[k].owner \in Owed("diff")
    BY <1>6, <1>8, <1>9 DEF Owed, ToSet
  <1>12. ASSUME NEW o \in Owed("diff")
         PROVE  \E k \in DOMAIN Printed : Printed[k].owner = o
    <2>1. o \notin Hidden(input) /\ \E x \in DOMAIN input.diff : input.diff[x].owner = o
      BY DEF Owed, ToSet
    <2> QED BY <1>7, <1>8, <1>9, <2>1
  <1> QED BY <1>1, <1>10, <1>11, <1>12

\* The first line of a path is the one its section starts at.
LEMMA StartOfPath ==
  ASSUME NEW p, IsSequence(p), IsDiff(p)
  PROVE  /\ Starts(p) = {i \in DOMAIN p : Begins(p, i)}
         /\ \A k \in DOMAIN p : \E i \in Starts(p) : p[i].owner = p[k].owner
         /\ \A i, j \in Starts(p) : p[i].owner = p[j].owner => i = j
  <1>1. DOMAIN p = 1..Len(p) /\ Len(p) \in Nat
    BY PlacesFinite
  <1>2. Starts(p) = {i \in DOMAIN p : Begins(p, i)}
    BY DEF Starts, IsDiff, Begins
  <1>3. ASSUME NEW k \in DOMAIN p
        PROVE  \E i \in Starts(p) : p[i].owner = p[k].owner
    <2> DEFINE S == {j \in DOMAIN p : p[j].owner = p[k].owner}
    <2>1. IsFiniteSet(S) /\ S \subseteq Int
      BY PlacesFinite
    <2>2. S # {}
      OBVIOUS
    <2>3. Min(S) \in S /\ \A y \in S : Min(S) <= y
      <3> HIDE DEF S
      <3> QED BY <2>1, <2>2, MinInt
    <2> DEFINE m == Min(S)
    <2>4. m \in DOMAIN p /\ p[m].owner = p[k].owner /\ \A y \in DOMAIN p : p[y].owner = p[k].owner => m <= y
      BY <2>3
    <2> HIDE DEF m
    <2>5. Begins(p, m)
      BY <1>1, <2>4 DEF Begins
    <2> QED BY <1>2, <2>4, <2>5
  <1>4. ASSUME NEW i \in DOMAIN p, NEW j \in DOMAIN p, i < j, Begins(p, j), p[i].owner = p[j].owner
        PROVE  FALSE
    <2>1. \A k \in i..j : p[k].owner = p[i].owner
      BY <1>4 DEF IsDiff
    <2>2. j - 1 \in i..j /\ j \in i..j /\ j # 1
      BY <1>1, <1>4
    <2>3. p[j - 1].owner = p[i].owner /\ p[j].owner = p[i].owner
      BY <2>1, <2>2
    <2> QED BY <1>4, <2>2, <2>3 DEF Begins
  <1>5. \A i, j \in Starts(p) : p[i].owner = p[j].owner => i = j
    <2> SUFFICES ASSUME NEW i \in Starts(p), NEW j \in Starts(p), p[i].owner = p[j].owner, i # j
                 PROVE  FALSE
      OBVIOUS
    <2>1. i \in DOMAIN p /\ j \in DOMAIN p /\ Begins(p, i) /\ Begins(p, j)
      BY <1>2
    <2>2. i < j \/ j < i
      BY <1>1, <2>1
    <2> QED BY <1>4, <2>1, <2>2
  <1> QED BY <1>2, <1>3, <1>5

\* A section is the lines of one path, all of them.
LEMMA SectionOfPath ==
  ASSUME NEW p, IsSequence(p), IsDiff(p), NEW i \in Starts(p)
  PROVE  \E e \in i..Len(p) :
            /\ SplitAt(p, i) = SubSeq(p, i, e)
            /\ \A k \in i..e : p[k].owner = p[i].owner
            /\ \A k \in DOMAIN p : k > e => p[k].owner # p[i].owner
  <1>1. DOMAIN p = 1..Len(p) /\ Len(p) \in Nat
    BY PlacesFinite
  <1> DEFINE n == Len(p)
             later == {k \in Starts(p) : k > i}
             ends == {n} \cup {j - 1 : j \in later}
             e == Min(ends)
  <1>2. i \in 1..n /\ Starts(p) \subseteq 1..n
    BY <1>1 DEF Starts
  <1>3. ends \subseteq i..n /\ n \in ends
    BY <1>1, <1>2
  <1>4. IsFiniteSet(ends) /\ ends \subseteq Int
    <2>1. IsFiniteSet(i..n)
      BY <1>1, <1>2, FS_Interval
    <2>2. i..n \subseteq Int
      BY <1>1, <1>2
    <2> HIDE DEF ends
    <2> QED BY <1>3, <2>1, <2>2, FS_Subset
  <1>5. e \in ends /\ \A y \in ends : e <= y
    <2> HIDE DEF ends
    <2> QED BY <1>3, <1>4, MinInt
  <1>6. SplitAt(p, i) = SubSeq(p, i, e)
    BY DEF SplitAt
  <1>7. e \in i..n /\ (e = n \/ \E j \in Starts(p) : j > i /\ e = j - 1)
    BY <1>3, <1>5
  <1>8. \A j \in Starts(p) : j > i => e <= j - 1
    BY <1>5
  <1> HIDE DEF e, ends, later
  <1>9. \A k \in 1..n : Begins(p, k) => k \in Starts(p)
    BY <1>1, StartOfPath
  <1>10. \A k \in i..e : p[k].owner = p[i].owner
    <2> SUFFICES ASSUME NEW x \in i..e, p[x].owner # p[i].owner
                 PROVE  FALSE
      OBVIOUS
    <2> DEFINE S == {k \in i..e : p[k].owner # p[i].owner}
    <2>1. S # {} /\ S \subseteq Int
      BY <1>2
    <2>2. IsFiniteSet(S)
      <3>1. IsFiniteSet(i..e)
        BY <1>2, <1>7, FS_Interval
      <3> QED BY <3>1, FS_Subset
    <2>3. Min(S) \in S /\ \A y \in S : Min(S) <= y
      <3> HIDE DEF S
      <3> QED BY <2>1, <2>2, MinInt
    <2> DEFINE m == Min(S)
    <2>4. m \in i..e /\ p[m].owner # p[i].owner /\ \A y \in i..e : p[y].owner # p[i].owner => m <= y
      BY <2>3
    <2> HIDE DEF m, S
    <2>5. m > i /\ m \in 1..n
      BY <1>2, <1>7, <2>4
    <2>6. m - 1 \in i..e /\ p[m - 1].owner = p[i].owner
      BY <1>2, <1>7, <2>4, <2>5
    <2>7. Begins(p, m)
      BY <2>4, <2>6 DEF Begins
    <2>8. e <= m - 1
      BY <1>8, <1>9, <2>5, <2>7
    <2> QED BY <1>2, <1>7, <2>4, <2>8
  <1>11. \A k \in DOMAIN p : k > e => p[k].owner # p[i].owner
    <2> SUFFICES ASSUME NEW k \in DOMAIN p, k > e, p[k].owner = p[i].owner
                 PROVE  FALSE
      OBVIOUS
    <2>0. k \in 1..n /\ n \in Nat /\ k > e
      BY <1>1
    <2> HIDE DEF n
    <2>1. e # n
      BY <2>0
    <2>2. PICK j \in Starts(p) : j > i /\ e = j - 1
      BY <1>7, <2>1
    <2>3. \A l \in i..k : p[l].owner = p[i].owner
      BY <1>1, <1>2 DEF IsDiff, n
    <2>4. j \in i..k
      BY <2>0, <1>2, <2>2
    <2>5. p[j].owner = p[i].owner
      BY <2>3, <2>4
    <2>6. i = j
      BY <2>5, StartOfPath
    <2> QED BY <1>2, <2>2, <2>6
  <1> QED BY <1>6, <1>7, <1>10, <1>11

\* _with_path gives a section the path of its lines.
LEMMA PathOfSection ==
  ASSUME NEW p, IsSequence(p), IsDiff(p), NEW i \in Starts(p)
  PROVE  PathOf(SplitAt(p, i)) = p[i].owner
  <1>1. DOMAIN p = 1..Len(p) /\ Len(p) \in Nat
    BY PlacesFinite
  <1>2. PICK e \in i..Len(p) :
            /\ SplitAt(p, i) = SubSeq(p, i, e)
            /\ \A k \in i..e : p[k].owner = p[i].owner
            /\ \A k \in DOMAIN p : k > e => p[k].owner # p[i].owner
    BY SectionOfPath
  <1> DEFINE lines == SplitAt(p, i)
             heading(heads) == {k \in 1..Min({8, Len(lines)}) : lines[k].head \in heads}
             named == heading({"+++", "rename to"})
             left == heading({"---"})
  <1>3. i \in 1..Len(p) /\ Begins(p, i)
    BY <1>1, StartOfPath DEF Starts
  <1>4. Len(lines) = e - i + 1 /\ \A k \in 1..(e - i + 1) : lines[k] = p[i + k - 1]
    <2>1. PICK T : p \in Seq(T)
      BY DEF IsSequence
    <2> QED BY <1>1, <1>2, <1>3, <2>1
  <1>5. /\ p[i].path = p[i].owner
        /\ \A k \in Heading(p, i) :
              /\ p[k].head \in {"+++", "rename to"} => p[k].path = p[i].owner
              /\ p[k].head = "---" /\ p[k].path # p[i].owner =>
                    \E l \in Heading(p, i) : p[l].head \in {"+++", "rename to"}
    BY <1>1, <1>3 DEF IsDiff
  <1>6. PathOf(lines) = IF named # {} THEN lines[Max(named)].path
                        ELSE IF left # {} THEN lines[Min(left)].path
                        ELSE lines[1].path
    BY DEF PathOf
  <1> HIDE DEF lines
  <1>7. Min({8, Len(lines)}) = IF 8 <= e - i + 1 THEN 8 ELSE e - i + 1
    BY <1>1, <1>2, <1>3, <1>4, MinPair
  <1>8. \A k \in 1..Min({8, Len(lines)}) : i + k - 1 \in Heading(p, i) /\ lines[k] = p[i + k - 1]
    <2> TAKE k \in 1..Min({8, Len(lines)})
    <2>1. k \in 1..(e - i + 1) /\ k <= 8
      BY <1>1, <1>2, <1>3, <1>7
    <2>2. i + k - 1 \in i..e /\ i + k - 1 \in DOMAIN p /\ i + k - 1 \in i..(i + 7)
      BY <1>1, <1>2, <1>3, <2>1
    <2>3. lines[k] = p[i + k - 1]
      BY <1>4, <2>1
    <2> QED BY <1>2, <2>2, <2>3 DEF Heading
  <1>9. ASSUME NEW l \in Heading(p, i)
        PROVE  \E k \in 1..Min({8, Len(lines)}) : l = i + k - 1
    <2>1. l \in i..(i + 7) /\ l \in DOMAIN p /\ p[l].owner = p[i].owner
      BY DEF Heading
    <2>2. l <= e
      BY <1>1, <1>2, <2>1
    <2>3. l - i + 1 \in 1..Min({8, Len(lines)})
      BY <1>1, <1>2, <1>3, <1>7, <2>1, <2>2
    <2> QED BY <1>3, <2>1, <2>3
  <1>10. 1..Min({8, Len(lines)}) \subseteq Int /\ IsFiniteSet(1..Min({8, Len(lines)}))
    <2>1. Min({8, Len(lines)}) \in Int
      BY <1>1, <1>2, <1>3, <1>7
    <2> QED BY <2>1, FS_Interval
  <1>11. CASE named # {}
    <2>1. named \subseteq 1..Min({8, Len(lines)})
      OBVIOUS
    <2>2. \A k \in named : lines[k].head \in {"+++", "rename to"}
      OBVIOUS
    <2> DEFINE m == Max(named)
    <2>3. m \in named
      <3> HIDE DEF named
      <3>1. IsFiniteSet(named) /\ named \subseteq Int
        BY <1>10, <2>1, FS_Subset
      <3> QED BY <1>11, <3>1, MaxInt
    <2>4. PathOf(lines) = lines[m].path
      BY <1>6, <1>11
    <2> HIDE DEF m, named
    <2> QED BY <1>5, <1>8, <2>1, <2>2, <2>3, <2>4 DEF lines
  <1>12. CASE named = {} /\ left # {}
    <2>1. left \subseteq 1..Min({8, Len(lines)}) /\ \A k \in left : lines[k].head = "---"
      OBVIOUS
    <2>2. \A k \in 1..Min({8, Len(lines)}) : lines[k].head \notin {"+++", "rename to"}
      BY <1>12
    <2> DEFINE m == Min(left)
    <2>3. m \in left
      <3> HIDE DEF left
      <3>1. IsFiniteSet(left) /\ left \subseteq Int
        BY <1>10, <2>1, FS_Subset
      <3> QED BY <1>12, <3>1, MinInt
    <2>4. PathOf(lines) = lines[m].path
      BY <1>6, <1>12
    <2> HIDE DEF m, named, left
    <2>5. ~\E l \in Heading(p, i) : p[l].head \in {"+++", "rename to"}
      BY <1>8, <1>9, <2>2
    <2>6. p[i + m - 1].head = "---" /\ i + m - 1 \in Heading(p, i) /\ lines[m] = p[i + m - 1]
      BY <1>8, <2>1, <2>3
    <2> QED BY <1>5, <2>4, <2>5, <2>6 DEF lines
  <1>13. CASE named = {} /\ left = {}
    <2>1. PathOf(lines) = lines[1].path
      BY <1>6, <1>13
    <2>2. 1 \in 1..Min({8, Len(lines)})
      BY <1>1, <1>2, <1>3, <1>7
    <2>3. lines[1] = p[i + 1 - 1]
      BY <1>8, <2>2
    <2>4. i + 1 - 1 = i
      BY <1>3
    <2> QED BY <1>5, <2>1, <2>3, <2>4 DEF lines
  <1>14. PathOf(lines) = p[i].owner
    BY <1>11, <1>12, <1>13 DEF lines
  <1> QED BY <1>14 DEF lines

LEMMA DiffItemIs ==
  ASSUME IsInput(input), NEW i \in Starts(Printed)
  PROVE  LET d == DiffItem(i)
         IN d.what = Printed[i].owner /\ d.size \in Nat /\ d.whole \in Nat /\ d.test \in BOOLEAN
  <1> DEFINE lines == SplitAt(Printed, i)
             text == [k \in DOMAIN lines |-> lines[k].size]
             note == IF IsCut(text, Limits.diffFile) THEN NoteSize ELSE 0
  <1>1. IsSequence(Printed) /\ IsDiff(Printed)
    BY PrintedLines
  <1>2. PICK e \in i..Len(Printed) : lines = SubSeq(Printed, i, e)
    BY <1>1, SectionOfPath
  <1>3. DOMAIN Printed = 1..Len(Printed) /\ Len(Printed) \in Nat
    BY <1>1, PlacesFinite
  <1>4. i \in 1..Len(Printed)
    BY <1>3 DEF Starts
  <1>5. Len(lines) = e - i + 1 /\ DOMAIN lines = 1..(e - i + 1)
        /\ \A k \in 1..(e - i + 1) : lines[k] = Printed[i + k - 1]
    <2>1. PICK T : Printed \in Seq(T)
      BY <1>1 DEF IsSequence
    <2> HIDE DEF lines
    <2> QED BY <1>2, <1>3, <1>4, <2>1
  <1>6. text \in Seq(Nat)
    <2>1. \A k \in 1..(e - i + 1) : i + k - 1 \in DOMAIN Printed
      BY <1>2, <1>3, <1>4
    <2>2. \A k \in DOMAIN lines : lines[k].size \in Nat
      BY <1>1, <1>5, <2>1 DEF IsDiff
    <2>3. e - i + 1 \in Nat
      BY <1>2, <1>3, <1>4
    <2> HIDE DEF lines
    <2>4. text \in [1..(e - i + 1) -> Nat]
      BY <1>5, <2>2
    <2> QED BY <2>3, <2>4
  <1>7. Limits.diffFile \in Nat /\ NoteSize \in Nat
    BY PackAssumption DEF LimitFields
  <1>8. PathOf(lines) = Printed[i].owner
    BY <1>1, PathOfSection
  <1>9. DiffItem(i) = [what |-> PathOf(lines), size |-> Characters(Cut(text, Limits.diffFile)) + note,
                       whole |-> Characters(text), test |-> PathOf(lines) \in input.tests]
    BY DEF DiffItem
  <1> HIDE DEF lines, text
  <1>10. Characters(text) \in Nat /\ Characters(Cut(text, Limits.diffFile)) \in Nat
    BY <1>6, <1>7, CutIsText, CharactersAreNat
  <1> QED BY <1>7, <1>8, <1>9, <1>10

LEMMA DiffQueue ==
  ASSUME TypeInv
  PROVE  QueueRight("diff", DiffItems)
  <1> DEFINE S == Starts(Printed)
             before == [x \in S |-> {y \in S : MoreCentral(y, x)}]
             items == [x \in S |-> DiffItem(x)]
  <1>0. IsInput(input)
    BY DEF TypeInv
  <1>1. IsSequence(Printed) /\ IsDiff(Printed) /\ {Printed[k].owner : k \in DOMAIN Printed} = Owed("diff")
    BY <1>0, PrintedLines
  <1>2. IsFiniteSet(S) /\ S \subseteq Int
    BY <1>1, PlacesFinite DEF Starts
  <1>3. ASSUME NEW x \in S
        PROVE  /\ items[x].what = Printed[x].owner /\ items[x].size \in Nat
               /\ DiffItem(x).whole \in Nat /\ DiffItem(x).test \in BOOLEAN
    BY <1>0, DiffItemIs
  <1>4. IsOrder(before, S)
    <2> DEFINE a == [x \in S |-> IF DiffItem(x).test THEN 1 ELSE 0]
               b == [x \in S |-> DiffItem(x).whole]
               c == [x \in S |-> 0]
               d == [x \in S |-> x]
    <2>1. /\ a \in [S -> Int] /\ b \in [S -> Int] /\ c \in [S -> Int] /\ d \in [S -> Int]
          /\ \A x, y \in S : d[x] = d[y] => x = y
      BY <1>2, <1>3
    <2>2. \A x, y \in S : MoreCentral(y, x) <=>
              IF a[y] # a[x] THEN a[y] < a[x] ELSE IF b[y] # b[x] THEN b[y] < b[x]
              ELSE IF c[y] # c[x] THEN c[y] < c[x] ELSE d[y] < d[x]
      BY <1>3 DEF MoreCentral
    <2>3. before \in [S -> SUBSET S] /\ \A x, y \in S : y \in before[x] <=> MoreCentral(y, x)
      OBVIOUS
    <2> HIDE DEF a, b, c, d, S, before
    <2>4. ByKeys(before, S, a, b, c, d)
      BY <2>1, <2>2, <2>3 DEF ByKeys
    <2> QED BY <2>4, Lexicographic
  <1>5. DiffItems = ListOf(before, S, items)
    <2>1. \A k \in 1..Cardinality(S) : ByRank(before, S)[k] \in S
      <3> HIDE DEF before, S
      <3> QED BY <1>2, <1>4, RankedIn
    <2>2. DiffItems = [k \in 1..Cardinality(S) |-> DiffItem(ByRank(before, S)[k])]
      BY DEF DiffItems, Listed, Sorted, ByRank
    <2> QED BY <2>1, <2>2 DEF ListOf
  <1>6. ItemsFit(S, items)
    <2>1. \A x, y \in S : Printed[x].owner = Printed[y].owner => x = y
      BY <1>1, StartOfPath
    <2> QED BY <1>3, <2>1 DEF ItemsFit
  <1>7. Owed("diff") = {items[x].what : x \in S}
    <2>1. \A x \in S : items[x].what \in Owed("diff")
      <3>1. S \subseteq DOMAIN Printed
        BY DEF Starts
      <3> QED BY <1>1, <1>3, <3>1
    <2>2. ASSUME NEW o \in Owed("diff")
          PROVE  \E x \in S : items[x].what = o
      <3>1. PICK k \in DOMAIN Printed : Printed[k].owner = o
        BY <1>1
      <3>2. PICK x \in S : Printed[x].owner = Printed[k].owner
        BY <1>1, StartOfPath
      <3> QED BY <1>3, <3>1, <3>2
    <2> QED BY <2>1, <2>2
  <1> HIDE DEF items, before, S
  <1>8. IsQueue(DiffItems, S, items)
    BY <1>2, <1>4, <1>5, <1>6, QueueItems
  <1> QED BY <1>7, <1>8, PlainQueue

LEMMA ItemsRight ==
  ASSUME TypeInv, IInv, touched \subseteq DOMAIN symbols, NEW title \in ToSet(Sections)
  PROVE  QueueRight(title, ItemsOf(title))
  <1>1. CASE title \in Loops
    BY <1>1, RulesQueue, DiffQueue, SymbolsQueue, CallersQueue, FindingsQueue DEF ItemsOf, Loops
  <1>2. CASE title \notin Loops
    <2>1. ItemsOf(title) = <<>>
      BY <1>2 DEF ItemsOf, Loops
    <2>2. <<>> \in Seq(ToSet(<<>>))
      OBVIOUS
    <2> QED BY <1>2, <2>1, <2>2 DEF QueueRight, Loops
  <1> QED BY <1>1, <1>2

-----------------------------------------------------------------------------
(* The loops of the pack.                                                  *)

LEMMA AsSequence ==
  ASSUME NEW s
  PROVE  IsSequence(s) <=> s \in Seq(ToSet(s))
  <1>1. ASSUME IsSequence(s) PROVE s \in Seq(ToSet(s))
    <2>1. PICK S : s \in Seq(S)
      BY <1>1 DEF IsSequence
    <2>2. Len(s) \in Nat /\ s = [k \in 1..Len(s) |-> s[k]]
      BY <2>1
    <2> QED BY <2>2, IsListed
  <1> QED BY <1>1 DEF IsSequence

\* A sequence whose members differ has as many of them as it is long.
LEMMA DistinctCount ==
  ASSUME NEW s, IsSequence(s), NEW f, DOMAIN f = DOMAIN s, \A i, j \in DOMAIN s : f[i] = f[j] => i = j
  PROVE  IsFiniteSet(ToSet(f)) /\ Cardinality(ToSet(f)) = Len(s)
  <1>1. DOMAIN s = 1..Len(s) /\ Len(s) \in Nat
    BY PlacesFinite
  <1> DEFINE T == ToSet(f)
             g == [i \in 1..Len(s) |-> f[i]]
  <1>2. g \in Bijection(1..Len(s), T)
    BY <1>1 DEF Bijection, Injection, Surjection, IsInjective, ToSet
  <1>3. ExistsBijection(1..Len(s), T)
    BY <1>2 DEF ExistsBijection
  <1>4. IsFiniteSet(1..Len(s)) /\ Cardinality(1..Len(s)) = Len(s)
    <2>1. Cardinality(1..Len(s)) = IF 1 > Len(s) THEN 0 ELSE Len(s) - 1 + 1
      BY <1>1, FS_Interval
    <2> QED BY <1>1, <2>1, FS_Interval
  <1> HIDE DEF T
  <1>5. IsFiniteSet(T) /\ Cardinality(T) = Len(s)
    BY <1>3, <1>4, FS_Bijection
  <1> QED BY <1>5 DEF T

\* What a list shows is a set, each of its members once.
Lists(all, S) ==
    /\ IsSequence(all) /\ ToSet(all) = S
    /\ \A i, j \in DOMAIN all : all[i] = all[j] => i = j

\* A list of each of a set's members, or of something each has for its own.
InOrder(all, S, before, items) ==
    \A k, l \in DOMAIN all : k < l =>
        \E x, y \in S : x \in before[y] /\ all[k] = items[x] /\ all[l] = items[y]
OwnItems(S, items) == DOMAIN items = S /\ \A x, y \in S : items[x] = items[y] => x = y

LEMMA ListedOnce ==
  ASSUME NEW S, IsFiniteSet(S), NEW before, IsOrder(before, S), NEW items, OwnItems(S, items),
         NEW owed, owed = {items[x] : x \in S}
  PROVE  Lists(ListOf(before, S, items), owed) /\ InOrder(ListOf(before, S, items), S, before, items)
  <1> DEFINE all == ListOf(before, S, items)
  <1>0. /\ DOMAIN items = S /\ \A x, y \in S : items[x] = items[y] => x = y
        /\ all = [k \in 1..Cardinality(S) |-> items[ByRank(before, S)[k]]]
    BY DEF OwnItems, ListOf
  <1> HIDE DEF all
  <1>1. /\ all \in Seq(ToSet(all)) /\ ToSet(all) = {items[x] : x \in S}
        /\ \A k, l \in DOMAIN all : k < l =>
               \E x, y \in S : x \in before[y] /\ all[k] = items[x] /\ all[l] = items[y]
    BY <1>0, QueueFrom
  <1>2. IsSequence(all)
    BY <1>1, AsSequence
  <1>3. DOMAIN all \subseteq Int
    BY <1>2, PlacesFinite
  <1>4. \A k, l \in DOMAIN all : k < l => all[k] # all[l]
    <2> TAKE k, l \in DOMAIN all
    <2> HAVE k < l
    <2>1. PICK x \in S, y \in S : x \in before[y] /\ all[k] = items[x] /\ all[l] = items[y]
      BY <1>1
    <2>2. x # y
      BY <2>1 DEF IsOrder
    <2> QED BY <1>0, <2>1, <2>2
  <1>5. \A i, j \in DOMAIN all : all[i] = all[j] => i = j
    BY <1>3, <1>4
  <1>6. Lists(all, owed)
    BY <1>1, <1>2, <1>5 DEF Lists
  <1>7. InOrder(all, S, before, items)
    BY <1>1 DEF InOrder
  <1> QED BY <1>6, <1>7 DEF all

\* A list of a set itself.
ListOfItself(before, S) == [k \in 1..Cardinality(S) |-> Same(ByRank(before, S)[k])]

LEMMA ListedItself ==
  ASSUME NEW S, IsFiniteSet(S), NEW before, IsOrder(before, S)
  PROVE  Lists(ListOfItself(before, S), S)
  <1> DEFINE items == [x \in S |-> x]
             all == ListOfItself(before, S)
  <1>1. \A k \in 1..Cardinality(S) : ByRank(before, S)[k] \in S
    BY RankedIn
  <1>2. all = ListOf(before, S, items)
    BY <1>1 DEF Same, ListOf, ListOfItself
  <1>3. DOMAIN items = S /\ \A x \in S : items[x] = x
    OBVIOUS
  <1> HIDE DEF items, all
  <1>4. OwnItems(S, items)
    BY <1>3 DEF OwnItems
  <1>5. S = {items[x] : x \in S}
    BY <1>3
  <1>6. Lists(all, S)
    BY <1>2, <1>4, <1>5, ListedOnce
  <1> QED BY <1>6 DEF all

LEMMA SectionValues ==
  /\ After("pull_request") = "rules" /\ After("rules") = "diff" /\ After("diff") = "symbols"
  /\ After("symbols") = "callers" /\ After("callers") = "findings" /\ After("findings") = "map"
  /\ After("map") = "done"
  <1>1. \A i, j \in DOMAIN Sections : Sections[i] = Sections[j] => i = j
    BY DEF Sections
  <1>2. ASSUME NEW i \in DOMAIN Sections
        PROVE  After(Sections[i]) = Sections[1 + i]
    <2>1. (CHOOSE j \in DOMAIN Sections : Sections[j] = Sections[i]) = i
      BY <1>1
    <2> QED BY <2>1 DEF After
  <1>3. /\ DOMAIN Sections = 1..8
        /\ Sections[1] = "pull_request" /\ Sections[2] = "rules" /\ Sections[3] = "diff"
        /\ Sections[4] = "symbols" /\ Sections[5] = "callers" /\ Sections[6] = "findings"
        /\ Sections[7] = "map" /\ Sections[8] = "done"
    BY DEF Sections
  <1>4. /\ After(Sections[1]) = Sections[2] /\ After(Sections[2]) = Sections[3]
        /\ After(Sections[3]) = Sections[4] /\ After(Sections[4]) = Sections[5]
        /\ After(Sections[5]) = Sections[6] /\ After(Sections[6]) = Sections[7]
        /\ After(Sections[7]) = Sections[8]
    BY <1>2, <1>3
  <1> QED BY <1>3, <1>4

LEMMA SinceValues ==
  /\ ToSet(Sections) = {"pull_request", "rules", "diff", "symbols", "callers", "findings", "map", "done"}
  /\ Since("rules") = {"diff", "symbols", "callers", "findings", "map", "done"}
  /\ Since("diff") = {"symbols", "callers", "findings", "map", "done"}
  /\ Since("symbols") = {"callers", "findings", "map", "done"}
  /\ Since("callers") = {"findings", "map", "done"}
  /\ Since("findings") = {"map", "done"}
  <1>3. /\ DOMAIN Sections = 1..8
        /\ Sections[1] = "pull_request" /\ Sections[2] = "rules" /\ Sections[3] = "diff"
        /\ Sections[4] = "symbols" /\ Sections[5] = "callers" /\ Sections[6] = "findings"
        /\ Sections[7] = "map" /\ Sections[8] = "done"
    BY DEF Sections
  <1>0. \A i \in 1..8 : i = 1 \/ i = 2 \/ i = 3 \/ i = 4 \/ i = 5 \/ i = 6 \/ i = 7 \/ i = 8
    OBVIOUS
  <1>1. ToSet(Sections) = {"pull_request", "rules", "diff", "symbols", "callers", "findings", "map", "done"}
    BY <1>0, <1>3 DEF ToSet
  <1>4. ASSUME NEW i \in 1..8
        PROVE  Since(Sections[i]) = {Sections[j] : j \in (i + 1)..8}
    <2>1. \A k, j \in 1..8 : Sections[k] = Sections[j] => k = j
      BY <1>0, <1>3
    <2>2. \A t \in Since(Sections[i]) : \E j \in (i + 1)..8 : t = Sections[j]
      BY <1>3, <2>1 DEF Since
    <2>3. \A j \in (i + 1)..8 : Sections[j] \in Since(Sections[i])
      BY <1>3 DEF Since, ToSet
    <2> QED BY <2>2, <2>3
  <1>5. /\ 3..8 = {3, 4, 5, 6, 7, 8} /\ 4..8 = {4, 5, 6, 7, 8} /\ 5..8 = {5, 6, 7, 8}
        /\ 6..8 = {6, 7, 8} /\ 7..8 = {7, 8}
    OBVIOUS
  <1>6. /\ Since(Sections[2]) = {Sections[j] : j \in {3, 4, 5, 6, 7, 8}}
        /\ Since(Sections[3]) = {Sections[j] : j \in {4, 5, 6, 7, 8}}
        /\ Since(Sections[4]) = {Sections[j] : j \in {5, 6, 7, 8}}
        /\ Since(Sections[5]) = {Sections[j] : j \in {6, 7, 8}}
        /\ Since(Sections[6]) = {Sections[j] : j \in {7, 8}}
    <2>1. /\ Since(Sections[2]) = {Sections[j] : j \in (2 + 1)..8}
          /\ Since(Sections[3]) = {Sections[j] : j \in (3 + 1)..8}
          /\ Since(Sections[4]) = {Sections[j] : j \in (4 + 1)..8}
          /\ Since(Sections[5]) = {Sections[j] : j \in (5 + 1)..8}
          /\ Since(Sections[6]) = {Sections[j] : j \in (6 + 1)..8}
      BY <1>4
    <2>2. 2 + 1 = 3 /\ 3 + 1 = 4 /\ 4 + 1 = 5 /\ 5 + 1 = 6 /\ 6 + 1 = 7
      OBVIOUS
    <2> QED BY <1>5, <2>1, <2>2
  <1> QED BY <1>1, <1>3, <1>6

LEMMA OwedFrame ==
  ASSUME UNCHANGED <<input, touched, symbols, edges>>
  PROVE  /\ \A title : Owed(title)' = Owed(title)
         /\ CallerItems' = CallerItems /\ OnChangedLines' = OnChangedLines
         /\ \A e : SectionRight(e)' <=> SectionRight(e)
  <1>1. CallerItems' = CallerItems
    BY DEF CallerItems, Listed, Sorted, ByStart, CallerItem, Called, SitesOf, CallSitesOf, CallPlaces
  <1>2. Edited' = Edited /\ Called' = Called /\ OnChangedLines' = OnChangedLines /\ Applicable' = Applicable
    BY DEF Edited, Called, OnChangedLines, Applicable, AddedLines, SitesOf, CallSitesOf, CallPlaces
  <1>3. \A title : Owed(title)' = Owed(title)
    BY <1>2 DEF Owed, Hidden
  <1>4. \A e : SectionRight(e)' <=> SectionRight(e)
    BY <1>3 DEF SectionRight, Told, Order, NamesSome, Secrets
  <1> QED BY <1>1, <1>2, <1>3, <1>4

\* What a line or a note names: so many of a set's files, each once.
LEMMA NamedRight ==
  ASSUME NEW S, IsFiniteSet(S), S \subseteq Int, NEW most \in Nat
  PROVE  NamesSome(Named(S, most), S, most)
  <1> DEFINE before == [x \in S |-> {y \in S : Earlier(y, x)}]
             all == Listed(S, Earlier, Same)
             n == Min({most, Cardinality(S)})
             list == SubSeq(all, 1, n)
             place == [k \in DOMAIN list |-> list[k]]
  <1>1. IsOrder(before, S)
    BY EarlierOrders
  <1>2. all = ListOfItself(before, S)
    BY DEF Listed, Sorted, ByRank, ListOfItself
  <1>3. Named(S, most) = list
    BY DEF Named
  <1> HIDE DEF before, all, place
  <1>4. Lists(all, S)
    BY <1>1, <1>2, ListedItself
  <1>5. IsSequence(all) /\ ToSet(all) = S /\ \A i, j \in DOMAIN all : all[i] = all[j] => i = j
    BY <1>4 DEF Lists
  <1>6. all \in Seq(S) /\ DOMAIN all = 1..Len(all) /\ Len(all) \in Nat
    BY <1>5, AsSequence, PlacesFinite
  <1>7. Len(all) = Cardinality(S)
    <2> DEFINE f == [k \in DOMAIN all |-> all[k]]
    <2>1. DOMAIN f = DOMAIN all /\ \A k \in DOMAIN all : f[k] = all[k]
      OBVIOUS
    <2> HIDE DEF f
    <2>2. \A i, j \in DOMAIN all : f[i] = f[j] => i = j
      BY <1>5, <2>1
    <2>3. ToSet(f) = ToSet(all)
      BY <2>1 DEF ToSet
    <2> QED BY <1>5, <2>2, <2>1, <2>3, DistinctCount
  <1>8. n \in 0..Len(all)
    BY <1>6, <1>7, MinPair
  <1> HIDE DEF n
  <1>9. /\ list \in Seq(S) /\ Len(list) = n /\ DOMAIN list = 1..n
        /\ \A k \in 1..n : list[k] = all[k]
    BY <1>6, <1>8
  <1>10. IsSequence(list)
    BY <1>9 DEF IsSequence
  <1> HIDE DEF list
  <1>11. \A i, j \in DOMAIN list : list[i] = list[j] => i = j
    BY <1>5, <1>6, <1>8, <1>9
  <1>12. Cardinality(ToSet(list)) = Len(list)
    BY <1>10, <1>11, DistinctCount
  <1>13. ToSet(list) \subseteq S
    BY <1>9 DEF ToSet
  <1> QED BY <1>3, <1>9, <1>12, <1>13 DEF NamesSome, n

\* So it is with the generated and the credential files of a pull request.
LEMMA FilesNamed ==
  ASSUME IsInput(input)
  PROVE  /\ NamesSome(Named(input.excluded, Limits.excluded), input.excluded, Limits.excluded)
         /\ NamesSome(Named(Secrets, Limits.secret), Secrets, Limits.secret)
  <1>1. Limits.excluded \in Nat /\ Limits.secret \in Nat
    BY PackAssumption DEF LimitFields
  <1>2. Paths \subseteq Int
    BY GlobAssumption
  <1>3. /\ IsFiniteSet(input.excluded) /\ input.excluded \subseteq Paths
        /\ IsFiniteSet(input.files) /\ \A f \in input.files : f.path \in Paths
    BY DEF IsInput
  <1>4. NamesSome(Named(input.excluded, Limits.excluded), input.excluded, Limits.excluded)
    BY <1>1, <1>2, <1>3, NamedRight
  <1>5. IsFiniteSet(Secrets) /\ Secrets \subseteq Int
    <2> DEFINE path == [f \in input.files |-> f.path]
    <2>1. DOMAIN path = input.files /\ \A f \in input.files : path[f] = f.path
      OBVIOUS
    <2> HIDE DEF path
    <2>2. IsFiniteSet({path[f] : f \in input.files})
      BY <1>3, <2>1, ImageFinite
    <2>3. Secrets \subseteq {path[f] : f \in input.files}
      BY <2>1 DEF Secrets
    <2>4. IsFiniteSet(Secrets)
      BY <2>2, <2>3, FS_Subset
    <2>5. Secrets \subseteq Int
      BY <1>2, <1>3 DEF Secrets
    <2> QED BY <2>4, <2>5
  <1>6. NamesSome(Named(Secrets, Limits.secret), Secrets, Limits.secret)
    BY <1>1, <1>5, NamedRight
  <1> QED BY <1>4, <1>6

\* The queue holds as many items as are owed.
LEMMA QueueCount ==
  ASSUME NEW title \in Loops, NEW list, QueueRight(title, list)
  PROVE  /\ IsSequence(list) /\ DOMAIN list = 1..Len(list) /\ Len(list) \in Nat
         /\ Cardinality(Owed(title)) = Len(list)
         /\ \A i \in DOMAIN list : list[i].what \in Owed(title) /\ list[i].size \in Nat
         /\ \A x \in Owed(title) : \E i \in DOMAIN list : list[i].what = x
         /\ \A i, j \in DOMAIN list : list[i].what = list[j].what => i = j
  <1>1. IsSequence(list) /\ \A i, j \in DOMAIN list : list[i].what = list[j].what => i = j
    BY AsSequence DEF QueueRight
  <1>2. {q.what : q \in ToSet(list)} = Owed(title) /\ \A i \in DOMAIN list : list[i].size \in Nat
    BY DEF QueueRight
  <1>3. \A i \in DOMAIN list : list[i].what \in Owed(title)
    BY <1>2 DEF ToSet
  <1>4. \A x \in Owed(title) : \E i \in DOMAIN list : list[i].what = x
    BY <1>2 DEF ToSet
  <1> DEFINE f == [i \in DOMAIN list |-> list[i].what]
  <1>5. ToSet(f) = Owed(title)
    BY <1>3, <1>4 DEF ToSet
  <1>6. DOMAIN f = DOMAIN list /\ \A i, j \in DOMAIN list : f[i] = f[j] => i = j
    BY <1>1
  <1> HIDE DEF f
  <1>7. Cardinality(Owed(title)) = Len(list)
    BY <1>1, <1>5, <1>6, DistinctCount
  <1>8. DOMAIN list = 1..Len(list) /\ Len(list) \in Nat
    BY <1>1, PlacesFinite
  <1> QED BY <1>1, <1>2, <1>3, <1>4, <1>7, <1>8

LEMMA LimitsAreNat ==
  /\ \A title \in Loops : Limits[title] \in Nat
  /\ Limits.maxRules \in Nat /\ Limits.maxSymbols \in Nat /\ Limits.maxFindings \in Nat
  /\ Limits.pr \in Nat /\ Limits.map \in Nat /\ Limits.excluded \in Nat /\ Limits.imports \in Nat
  BY PackAssumption DEF LimitFields, Loops

\* Where a loop is: never past the end of its queue.
LEMMA LoopPlace ==
  ASSUME IsSequence(queue), item \in 1..(Len(queue) + 1), section \in Loops
  PROVE  /\ Len(queue) \in Nat /\ item \in Nat
         /\ InLoop => item <= Len(queue)
         /\ section \in {"diff", "callers"} /\ queue # <<>> => (InLoop <=> item <= Len(queue))
         /\ queue # <<>> => Len(queue) > 0
  <1>1. Len(queue) \in Nat /\ item \in Nat /\ DOMAIN queue = 1..Len(queue) /\ (queue # <<>> => Len(queue) > 0)
    BY PlacesFinite, AsSequence
  <1>2. Most(section) \in Nat /\ (section \in {"diff", "callers"} => Most(section) = Len(queue))
    BY <1>1, LimitsAreNat DEF Most
  <1> DEFINE m == Most(section)
  <1>3. Min({Len(queue), m}) = IF Len(queue) <= m THEN Len(queue) ELSE m
    <2> HIDE DEF m
    <2> QED BY <1>1, <1>2, MinPair DEF m
  <1>4. InLoop <=> queue # <<>> /\ item <= (IF Len(queue) <= m THEN Len(queue) ELSE m)
    BY <1>3 DEF InLoop
  <1> HIDE DEF m
  <1> QED BY <1>1, <1>2, <1>4 DEF m

LEMMA ShowLoop ==
  ASSUME QueueRight(section, queue), LoopRight, Show
  PROVE  LoopRight'
  <1> DEFINE q == queue[item]
  <1>1. /\ shown' = Append(shown, q) /\ used' = used + Cost(section, q.size) /\ item' = item + 1
        /\ UNCHANGED <<section, queue, omitted>> /\ InLoop /\ Fits /\ section \in Loops
    BY DEF Show, InLoop
  <1>2. /\ IsSequence(queue) /\ DOMAIN queue = 1..Len(queue) /\ Len(queue) \in Nat
        /\ \A i \in DOMAIN queue : queue[i].size \in Nat
        /\ \A i, j \in DOMAIN queue : queue[i].what = queue[j].what => i = j
    BY <1>1, QueueCount
  <1>3. /\ item \in 1..(Len(queue) + 1) /\ used \in Nat
        /\ IsSequence(shown) /\ IsSequence(omitted)
        /\ \A k \in DOMAIN shown : \E j \in 1..(item - 1) : shown[k] = queue[j]
        /\ \A k, l \in DOMAIN shown : shown[k].what = shown[l].what => k = l
        /\ Len(shown) + Len(omitted) <= item - 1
        /\ section # "diff" => omitted = <<>>
        /\ section = "diff" => Len(shown) + Len(omitted) = item - 1
        /\ section \notin {"diff", "symbols"} =>
              Len(shown) = item - 1 /\ \A k \in DOMAIN shown : shown[k] = queue[k]
    BY AsSequence DEF LoopRight
  <1>4. item <= Len(queue) /\ item \in DOMAIN queue
    BY <1>1, <1>2, <1>3, LoopPlace
  <1>5. q.size \in Nat /\ used' \in Nat /\ used' <= Limits[section] + 1
    <2>1. q.size \in Nat
      BY <1>2, <1>4
    <2> DEFINE size == q.size
               limit == Limits[section]
               cost == Cost(section, q.size)
    <2>2. cost = size \/ cost = size + 1
      BY DEF Cost
    <2>3. used + size <= limit
      BY <1>1 DEF Fits
    <2>4. limit \in Nat
      BY <1>1, LimitsAreNat
    <2>5. used' = used + cost
      BY <1>1
    <2> HIDE DEF size, limit, cost
    <2>6. used' \in Nat /\ used' <= limit + 1
      BY <1>3, <2>1, <2>2, <2>3, <2>4, <2>5 DEF size
    <2> QED BY <2>1, <2>6 DEF limit
  <1>6. /\ DOMAIN shown = 1..Len(shown) /\ Len(shown) \in Nat /\ Len(omitted) \in Nat
        /\ IsSequence(shown') /\ Len(shown') = Len(shown) + 1 /\ DOMAIN shown' = 1..(Len(shown) + 1)
        /\ shown'[Len(shown) + 1] = q /\ \A k \in 1..Len(shown) : shown'[k] = shown[k]
    <2>1. PICK S : shown \in Seq(S)
      BY <1>3 DEF IsSequence
    <2>2. shown \in Seq(S \cup {q})
      BY <2>1
    <2>3. shown' \in Seq(S \cup {q})
      BY <1>1, <2>2
    <2>4. Len(omitted) \in Nat
      BY <1>3, PlacesFinite
    <2> HIDE DEF q
    <2> QED BY <1>1, <2>2, <2>3, <2>4 DEF IsSequence
  <1> HIDE DEF q
  <1>7. \A k \in DOMAIN shown' : \E j \in 1..(item' - 1) : shown'[k] = queue'[j]
    <2> TAKE k \in DOMAIN shown'
    <2>1. CASE k \in 1..Len(shown)
      <3>1. PICK j \in 1..(item - 1) : shown[k] = queue[j]
        BY <1>3, <1>6, <2>1
      <3>2. j \in 1..(item' - 1) /\ shown'[k] = queue'[j]
        BY <1>1, <1>3, <1>6, <2>1, <3>1
      <3> QED BY <3>2
    <2>2. CASE k = Len(shown) + 1
      <3>1. item \in 1..(item' - 1) /\ shown'[k] = queue'[item]
        BY <1>1, <1>3, <1>6, <2>2 DEF q
      <3> QED BY <3>1
    <2> QED BY <1>6, <2>1, <2>2
  <1>8. \A k \in 1..Len(shown) : shown[k].what # q.what
    <2> TAKE k \in 1..Len(shown)
    <2>1. PICK j \in 1..(item - 1) : shown[k] = queue[j]
      BY <1>3, <1>6
    <2>2. j \in DOMAIN queue /\ j # item
      BY <1>2, <1>3, <2>1
    <2> QED BY <1>2, <1>4, <2>1, <2>2 DEF q
  <1>9. \A k, l \in DOMAIN shown' : shown'[k].what = shown'[l].what => k = l
    BY <1>3, <1>6, <1>8
  <1>10. item' \in 1..(Len(queue') + 1) /\ (item' = 1 => used' = 0)
    BY <1>1, <1>2, <1>3, <1>4
  <1>11. /\ Len(shown') + Len(omitted') <= item' - 1
         /\ section' # "diff" => omitted' = <<>>
         /\ section' = "diff" => Len(shown') + Len(omitted') = item' - 1
    BY <1>1, <1>3, <1>6
  <1>12. section' \notin {"diff", "symbols"} =>
            Len(shown') = item' - 1 /\ \A k \in DOMAIN shown' : shown'[k] = queue'[k]
    <2> SUFFICES ASSUME section \notin {"diff", "symbols"}
                 PROVE  Len(shown') = item' - 1 /\ \A k \in DOMAIN shown' : shown'[k] = queue'[k]
      BY <1>1
    <2>1. Len(shown) = item - 1 /\ \A k \in DOMAIN shown : shown[k] = queue[k]
      BY <1>3
    <2>2. Len(shown) + 1 = item
      BY <1>3, <2>1
    <2> QED BY <1>1, <1>3, <1>6, <2>1, <2>2 DEF q
  <1>13. shown' \in Seq(ToSet(shown')) /\ omitted' \in Seq(ToSet(omitted'))
    BY <1>1, <1>3, <1>6, AsSequence
  <1> QED BY <1>1, <1>5, <1>7, <1>9, <1>10, <1>11, <1>12, <1>13 DEF LoopRight

LEMMA PassByLoop ==
  ASSUME QueueRight(section, queue), LoopRight, PassBy
  PROVE  LoopRight'
  <1>1. /\ item' = item + 1 /\ UNCHANGED <<section, queue, used, shown>> /\ InLoop /\ section \in Loops
        /\ \/ section = "symbols" /\ UNCHANGED omitted
           \/ section = "diff" /\ omitted' = Append(omitted, queue[item])
    BY DEF PassBy, InLoop, Unreadable
  <1>2. IsSequence(queue) /\ Len(queue) \in Nat
    BY <1>1, QueueCount
  <1>3. /\ item \in 1..(Len(queue) + 1) /\ used \in Nat /\ used <= Limits[section] + 1
        /\ IsSequence(shown) /\ IsSequence(omitted)
        /\ \A k \in DOMAIN shown : \E j \in 1..(item - 1) : shown[k] = queue[j]
        /\ \A k, l \in DOMAIN shown : shown[k].what = shown[l].what => k = l
        /\ Len(shown) + Len(omitted) <= item - 1
        /\ section # "diff" => omitted = <<>>
        /\ section = "diff" => Len(shown) + Len(omitted) = item - 1
        /\ section \notin {"diff", "symbols"} =>
              Len(shown) = item - 1 /\ \A k \in DOMAIN shown : shown[k] = queue[k]
    BY <1>1, AsSequence DEF LoopRight
  <1>4. item <= Len(queue)
    BY <1>1, <1>2, <1>3, LoopPlace
  <1>5. Len(shown) \in Nat /\ Len(omitted) \in Nat
    BY <1>3, PlacesFinite
  <1>6. IsSequence(omitted') /\ (section = "diff" => Len(omitted') = Len(omitted) + 1)
        /\ (section # "diff" => omitted' = omitted)
    <2>1. CASE section = "symbols" /\ UNCHANGED omitted
      BY <1>3, <2>1
    <2>2. CASE section = "diff" /\ omitted' = Append(omitted, queue[item])
      <3>1. PICK S : omitted \in Seq(S)
        BY <1>3 DEF IsSequence
      <3> DEFINE q == queue[item]
      <3>2. omitted \in Seq(S \cup {q}) /\ omitted' = Append(omitted, q)
        BY <2>2, <3>1
      <3> HIDE DEF q
      <3>3. omitted' \in Seq(S \cup {q}) /\ Len(omitted') = Len(omitted) + 1
        BY <3>2
      <3> QED BY <2>2, <3>3 DEF IsSequence
    <2> QED BY <1>1, <2>1, <2>2
  <1>7. \A k \in DOMAIN shown' : \E j \in 1..(item' - 1) : shown'[k] = queue'[j]
    <2> TAKE k \in DOMAIN shown'
    <2>1. PICK j \in 1..(item - 1) : shown[k] = queue[j]
      BY <1>1, <1>3
    <2>2. j \in 1..(item' - 1) /\ shown'[k] = queue'[j]
      BY <1>1, <1>3, <2>1
    <2> QED BY <2>2
  <1>8. /\ item' \in 1..(Len(queue') + 1) /\ (item' = 1 => used' = 0)
        /\ Len(shown') + Len(omitted') <= item' - 1
        /\ section' # "diff" => omitted' = <<>>
        /\ section' = "diff" => Len(shown') + Len(omitted') = item' - 1
    BY <1>1, <1>2, <1>3, <1>4, <1>5, <1>6
  <1>9. shown' \in Seq(ToSet(shown')) /\ omitted' \in Seq(ToSet(omitted'))
    BY <1>1, <1>3, <1>6, AsSequence
  <1>10. section' \in {"diff", "symbols"}
    BY <1>1
  <1>11. \A k, l \in DOMAIN shown' : shown'[k].what = shown'[l].what => k = l
    BY <1>1, <1>3
  <1>12. used' \in Nat /\ used' <= Limits[section'] + 1
    BY <1>1, <1>3
  <1> QED BY <1>7, <1>8, <1>9, <1>10, <1>11, <1>12 DEF LoopRight

\* What a loop announces when it ends.
LEMMA EndedRight ==
  ASSUME IsInput(input), QueueRight(section, queue), LoopRight, section \in Loops, queue # <<>>,
         ~InLoop \/ Truncated,
         NEW entry, entry = [title |-> section, shown |-> shown, named |-> NamedIn(section), left |-> Left,
                             size |-> used]
  PROVE  SectionRight(entry) /\ entry.left \in Nat
  <1>1. /\ IsSequence(queue) /\ DOMAIN queue = 1..Len(queue) /\ Len(queue) \in Nat
        /\ Cardinality(Owed(section)) = Len(queue)
        /\ \A i \in DOMAIN queue : queue[i].what \in Owed(section)
        /\ \A x \in Owed(section) : \E i \in DOMAIN queue : queue[i].what = x
        /\ \A i, j \in DOMAIN queue : queue[i].what = queue[j].what => i = j
    BY QueueCount
  <1>2. /\ item \in 1..(Len(queue) + 1) /\ used \in Nat /\ used <= Limits[section] + 1
        /\ IsSequence(shown) /\ IsSequence(omitted)
        /\ \A k \in DOMAIN shown : \E j \in 1..(item - 1) : shown[k] = queue[j]
        /\ \A k, l \in DOMAIN shown : shown[k].what = shown[l].what => k = l
        /\ Len(shown) + Len(omitted) <= item - 1
        /\ section = "diff" => Len(shown) + Len(omitted) = item - 1
        /\ section \notin {"diff", "symbols"} =>
              Len(shown) = item - 1 /\ \A k \in DOMAIN shown : shown[k] = queue[k]
    BY AsSequence DEF LoopRight
  <1>3. Len(shown) \in Nat /\ Len(omitted) \in Nat /\ DOMAIN shown = 1..Len(shown)
    BY <1>2, PlacesFinite
  <1>4. /\ entry.title = section /\ entry.shown = shown /\ entry.left = Left /\ entry.size = used
    OBVIOUS
  <1> DEFINE f == [i \in DOMAIN shown |-> shown[i].what]
  <1>5. Told(entry) = ToSet(f)
    BY <1>4 DEF Told
  <1>6. DOMAIN f = DOMAIN shown /\ \A i \in DOMAIN shown : f[i] = shown[i].what
    OBVIOUS
  <1> HIDE DEF f
  <1>7. Cardinality(Told(entry)) = Len(shown)
    BY <1>2, <1>5, <1>6, DistinctCount
  <1>8. \A x \in Told(entry) : \E k \in DOMAIN shown : shown[k].what = x
    BY <1>5, <1>6 DEF ToSet
  <1>9. \A k \in DOMAIN shown : shown[k].what \in Told(entry)
    BY <1>5, <1>6 DEF ToSet
  <1>10. Told(entry) \subseteq Owed(section)
    <2> SUFFICES ASSUME NEW x \in Told(entry) PROVE x \in Owed(section)
      OBVIOUS
    <2>1. PICK k \in DOMAIN shown : shown[k].what = x
      BY <1>8
    <2>2. PICK j \in 1..(item - 1) : shown[k] = queue[j]
      BY <1>2
    <2>3. j \in DOMAIN queue
      BY <1>1, <1>2, <2>2
    <2> QED BY <1>1, <2>1, <2>2, <2>3
  <1>11. section \in {"diff", "callers"} /\ ~Truncated => item - 1 = Len(queue)
    <2> SUFFICES ASSUME section \in {"diff", "callers"}, ~Truncated PROVE item - 1 = Len(queue)
      OBVIOUS
    <2>1. ~(item <= Len(queue))
      BY <1>1, <1>2, LoopPlace
    <2> QED BY <1>1, <1>2, <2>1
  <1>12. ~(section = "diff" /\ Truncated)
    BY DEF Truncated
  <1>13. Left \in Nat /\ (section # "callers" => Len(shown) + Left = Len(queue))
    <2>1. CASE section = "diff"
      <3>1. Left = Len(omitted)
        BY <2>1 DEF Left
      <3> QED BY <1>1, <1>2, <1>3, <1>11, <1>12, <2>1, <3>1
    <2>2. CASE section = "callers"
      BY <2>2 DEF Left
    <2>3. CASE section \notin {"diff", "callers"}
      <3>1. Left = Len(queue) - Len(shown)
        BY <2>3 DEF Left
      <3>2. Len(shown) <= Len(queue)
        BY <1>1, <1>2, <1>3
      <3> QED BY <1>1, <1>3, <2>3, <3>1, <3>2
    <2> QED BY <2>1, <2>2, <2>3
  <1>14. section = "callers" => Left = 1 \/ Told(entry) = Owed("callers")
    <2> SUFFICES ASSUME section = "callers", ~Truncated PROVE Owed("callers") \subseteq Told(entry)
      BY <1>10 DEF Left
    <2>1. item - 1 = Len(queue) /\ Len(shown) = item - 1 /\ \A k \in DOMAIN shown : shown[k] = queue[k]
      BY <1>2, <1>11
    <2> SUFFICES ASSUME NEW x \in Owed("callers") PROVE x \in Told(entry)
      OBVIOUS
    <2>2. PICK i \in DOMAIN queue : queue[i].what = x
      BY <1>1
    <2>3. i \in DOMAIN shown /\ shown[i] = queue[i]
      BY <1>1, <1>3, <2>1
    <2> QED BY <1>9, <2>2, <2>3
  <1>15. ASSUME section = "findings", NEW f1 \in input.findings, NEW f2 \in input.findings,
                f1.changed, f1.id \notin Told(entry), f2.id \in Told(entry)
         PROVE  Order(f2.severity) <= Order(f1.severity)
    <2>1. /\ ToSet(queue) \subseteq {FindingItem(x) : x \in OnChangedLines}
          /\ \A i, j \in DOMAIN queue : i < j => Order(queue[i].severity) <= Order(queue[j].severity)
      BY <1>15 DEF QueueRight
    <2>2. PICK k \in DOMAIN shown : shown[k].what = f2.id
      BY <1>8, <1>15
    <2>3. Len(shown) = item - 1 /\ \A l \in DOMAIN shown : shown[l] = queue[l]
      BY <1>2, <1>15
    <2>4. k \in DOMAIN queue /\ queue[k].what = f2.id
      BY <1>1, <1>2, <1>3, <2>2, <2>3
    <2>5. f1 \in OnChangedLines /\ f1.id \in Owed("findings")
      BY <1>15 DEF OnChangedLines, Owed
    <2>6. PICK j \in DOMAIN queue : queue[j].what = f1.id
      BY <1>1, <1>15, <2>5
    <2>7. j \notin DOMAIN shown
      BY <1>9, <1>15, <2>3, <2>6
    <2>8. k < j
      BY <1>1, <1>3, <2>2, <2>6, <2>7
    <2>9. Order(queue[k].severity) <= Order(queue[j].severity)
      BY <2>1, <2>4, <2>6, <2>8
    <2>10. \A i \in DOMAIN queue : \E x \in input.findings :
              queue[i].what = x.id /\ queue[i].severity = x.severity
      BY <2>1 DEF FindingItem, OnChangedLines, ToSet
    <2>11. \A x, y \in input.findings : x.id = y.id => x = y
      BY DEF IsInput
    <2>12. queue[k].severity = f2.severity /\ queue[j].severity = f1.severity
      BY <2>4, <2>6, <2>10, <2>11
    <2> QED BY <2>9, <2>12
  <1>16. section \notin {"pull_request", "map"}
    BY DEF Loops
  <1>17. section = "diff" => NamesSome(entry.named, Secrets, Limits.secret)
    BY FilesNamed DEF NamedIn
  <1>18. SectionRight(entry)
    BY <1>16, <1>17, <1>1, <1>2, <1>4, <1>7, <1>10, <1>13, <1>14, <1>15 DEF SectionRight
  <1> QED BY <1>4, <1>13, <1>18

\* A section that says that there is nothing.
LEMMA EmptyRight ==
  ASSUME NEW entry, entry.shown = <<>>, entry.left = 0, entry.size = 0, NEW title \in Loops, entry.title = title,
         title # "callers" /\ QueueRight(title, <<>>), IsInput(input), entry.named = NamedIn(title)
  PROVE  SectionRight(entry)
  <1>1. Told(entry) = {} /\ Cardinality(Told(entry)) = 0 /\ Len(entry.shown) = 0
    <2>1. Told(entry) = {}
      BY DEF Told, ToSet
    <2> QED BY <2>1, FS_EmptySet
  <1>2. title \in Loops => Cardinality(Owed(title)) = 0
    <2> SUFFICES ASSUME title \in Loops PROVE Cardinality(Owed(title)) = 0
      OBVIOUS
    <2>1. Len(<<>>) = 0
      OBVIOUS
    <2> QED BY <2>1, QueueCount
  <1>3. title \in Loops => Limits[title] \in Nat
    BY LimitsAreNat
  <1>4. {"rules", "diff", "symbols", "findings"} \subseteq Loops
    BY DEF Loops
  <1>5. entry.title \in {"rules", "diff", "symbols", "findings"} =>
          /\ Told(entry) \subseteq Owed(entry.title)
          /\ Cardinality(Told(entry)) = Len(entry.shown)
          /\ Len(entry.shown) + entry.left = Cardinality(Owed(entry.title))
    BY <1>1, <1>2, <1>4
  <1>6. entry.title \in Loops => entry.size <= Limits[entry.title] + 1
    <2> DEFINE limit == Limits[title]
    <2>1. title \in Loops => limit \in Nat
      BY <1>3
    <2> HIDE DEF limit
    <2>2. title \in Loops => 0 <= limit + 1
      BY <2>1
    <2> QED BY <2>2 DEF limit
  <1>7. entry.title \notin {"callers", "pull_request", "map"}
    BY DEF Loops
  <1>8. \A g \in input.findings : g.id \notin Told(entry)
    BY <1>1
  <1>9. entry.title = "diff" => NamesSome(entry.named, Secrets, Limits.secret)
    BY FilesNamed DEF NamedIn
  <1> QED BY <1>5, <1>6, <1>7, <1>8, <1>9 DEF SectionRight

LEMMA OtherRight ==
  ASSUME NEW entry, entry.title \notin Loops,
         entry.title = "pull_request" =>
             /\ entry.size <= Limits.pr
             /\ entry.left = 0 => NamesSome(entry.named, input.excluded, Limits.excluded),
         entry.title = "map" => entry.size <= Limits.map
  PROVE  SectionRight(entry)
  BY DEF SectionRight, Loops

LEMMA QueueFrame ==
  ASSUME UNCHANGED <<input, touched, symbols, edges>>, QueueRight(section', queue')
  PROVE  QueueRight(section, queue)'
  <1>1. /\ \A title : Owed(title)' = Owed(title)
        /\ CallerItems' = CallerItems /\ OnChangedLines' = OnChangedLines
    BY OwedFrame
  <1> QED BY <1>1 DEF QueueRight, FindingItem, Order

\* What a section that is over has left in the pack.
Leaves(title) == \E i \in DOMAIN pack' : pack'[i].title = title
OverRight ==
    /\ section \in {"rules", "symbols", "findings"} /\ Owed(section) # {} => Leaves(section)
    /\ section = "diff" => Leaves("diff") \/ Leaves("no diff")
    /\ section = "callers" /\ Owed("callers") # {} =>
          Leaves("callers") \/ CallerItems[1].size > Limits.callers

LEMMA NewLoopRight ==
  ASSUME section' \in ToSet(Sections), item' = 1, used' = 0, shown' = <<>>, omitted' = <<>>,
         QueueRight(section', queue')
  PROVE  LoopRight'
  <1>1. IsSequence(queue')
    BY AsSequence DEF QueueRight
  <1>2. Len(queue') \in Nat
    BY <1>1, PlacesFinite
  <1>3. section' \in Loops => Limits[section'] \in Nat
    BY LimitsAreNat
  <1>4. item' \in 1..(Len(queue') + 1)
    BY <1>2
  <1>5. section' \in Loops => used' <= Limits[section'] + 1
    <2> DEFINE limit == Limits[section']
    <2>1. section' \in Loops => limit \in Nat
      BY <1>3
    <2> HIDE DEF limit
    <2>2. section' \in Loops => 0 <= limit + 1
      BY <2>1
    <2> QED BY <2>2 DEF limit
  <1>6. <<>> \in Seq(ToSet(<<>>)) /\ DOMAIN <<>> = {} /\ Len(<<>>) = 0
    <2>1. DOMAIN <<>> = {} /\ Len(<<>>) = 0 /\ IsSequence(<<>>)
      BY Emptied
    <2> QED BY <2>1, AsSequence
  <1> QED BY <1>4, <1>5, <1>6 DEF LoopRight

LEMMA PackGrows ==
  ASSUME PackRight, pack' = pack \/ (\E entry : /\ pack' = Append(pack, entry)
                                                /\ SectionRight(entry) /\ entry.left \in Nat)
  PROVE  /\ IsSequence(pack') /\ \A i \in DOMAIN pack' : SectionRight(pack'[i]) /\ pack'[i].left \in Nat
         /\ \A title : Of(title) # {} => Of(title)' # {}
  <1>1. IsSequence(pack) /\ \A i \in DOMAIN pack : SectionRight(pack[i]) /\ pack[i].left \in Nat
    BY AsSequence DEF PackRight
  <1>2. CASE pack' = pack
    BY <1>1, <1>2 DEF Of
  <1>3. CASE pack' # pack
    <2>1. PICK entry : pack' = Append(pack, entry) /\ SectionRight(entry) /\ entry.left \in Nat
      BY <1>3
    <2>2. /\ IsSequence(pack') /\ \A i \in DOMAIN pack : i \in DOMAIN pack' /\ pack'[i] = pack[i]
          /\ \A i \in DOMAIN pack' : i \in DOMAIN pack \/ pack'[i] = entry
      BY <1>1, <2>1, Appended
    <2>3. \A i \in DOMAIN pack' : SectionRight(pack'[i]) /\ pack'[i].left \in Nat
      BY <1>1, <2>1, <2>2
    <2>4. \A title : Of(title) # {} => Of(title)' # {}
      BY <2>2 DEF Of
    <2> QED BY <2>2, <2>3, <2>4
  <1> QED BY <1>2, <1>3

LEMMA BuiltIn ==
  ASSUME IsSequence(pack), NEW entry, pack' = Append(pack, entry), NEW title, entry.title = title
  PROVE  Leaves(title)
  <1>1. \E i \in DOMAIN pack' : pack'[i] = entry
    BY Appended
  <1> QED BY <1>1 DEF Leaves

LEMMA OnwardsInv ==
  ASSUME PackInv, TypeInv, IInv, section \in ToSet(Sections) \ {"done"}, Continue(section),
         UNCHANGED <<indexVars, input, touched>>, OverRight,
         pack' = pack \/ (\E entry : /\ pack' = Append(pack, entry)
                                     /\ SectionRight(entry) /\ entry.left \in Nat)
  PROVE  PackInv'
  <1>1. /\ section' = After(section) /\ queue' = ItemsOf(After(section))
        /\ item' = 1 /\ used' = 0 /\ shown' = <<>> /\ omitted' = <<>>
    BY DEF Continue, Loop
  <1>2. \/ section = "pull_request" /\ section' = "rules"
        \/ section = "rules" /\ section' = "diff"
        \/ section = "diff" /\ section' = "symbols"
        \/ section = "symbols" /\ section' = "callers"
        \/ section = "callers" /\ section' = "findings"
        \/ section = "findings" /\ section' = "map"
        \/ section = "map" /\ section' = "done"
    BY <1>1, SectionValues, SinceValues
  <1>3. section' \in ToSet(Sections) /\ section' # "waiting" /\ section # "waiting"
    BY <1>2, SinceValues
  <1>4. touched \subseteq DOMAIN symbols /\ PackRight
    BY DEF PackInv
  <1>5. UNCHANGED <<input, touched, symbols, edges>>
    BY DEF indexVars
  <1>6. QueueRight(section', queue')
    BY <1>1, <1>3, <1>4, ItemsRight
  <1>7. QueueRight(section, queue)'
    BY <1>5, <1>6, QueueFrame
  <1>8. LoopRight'
    BY <1>1, <1>3, <1>6, NewLoopRight
  <1>9. /\ pack' \in Seq(ToSet(pack')) /\ \A i \in DOMAIN pack' : SectionRight(pack'[i]) /\ pack'[i].left \in Nat
        /\ \A title : Of(title) # {} => Of(title)' # {}
    BY <1>4, PackGrows, AsSequence
  <1>10. /\ \A title : Owed(title)' = Owed(title)
         /\ CallerItems' = CallerItems
         /\ \A e : SectionRight(e)' <=> SectionRight(e)
    BY <1>5, OwedFrame
  <1>11. PackRight'
    <2>1. ASSUME NEW title \in {"rules", "symbols", "findings"}, section' \in Since(title), Owed(title) # {}
          PROVE  Of(title)' # {}
      <3>1. section = title \/ section \in Since(title)
        BY <1>2, <2>1, SinceValues
      <3>2. CASE section = title
        BY <2>1, <3>2 DEF OverRight, Leaves, Of
      <3>3. CASE section \in Since(title)
        BY <1>4, <1>9, <2>1, <3>3 DEF PackRight
      <3> QED BY <3>1, <3>2, <3>3
    <2>2. ASSUME section' \in Since("diff")
          PROVE  Of("diff")' \cup Of("no diff")' # {}
      <3>1. section = "diff" \/ section \in Since("diff")
        BY <1>2, <2>2, SinceValues
      <3> QED BY <1>4, <1>9, <3>1 DEF PackRight, OverRight, Leaves, Of
    <2>3. ASSUME section' \in Since("callers"), Of("callers")' = {}, Owed("callers") # {}
          PROVE  CallerItems[1].size > Limits.callers
      <3>1. section = "callers" \/ section \in Since("callers")
        BY <1>2, <2>3, SinceValues
      <3>2. Of("callers") = {}
        BY <1>9, <2>3
      <3> QED BY <1>4, <2>3, <3>1, <3>2 DEF PackRight, OverRight, Leaves, Of
    <2>4. (\A i \in DOMAIN pack : SectionRight(pack[i]) /\ pack[i].left \in Nat)'
      BY <1>5, <1>9, <1>10 DEF SectionRight, Told, Order, NamesSome, Secrets
    <2>5. /\ \A title \in {"rules", "symbols", "findings"} :
                section' \in Since(title) /\ Owed(title)' # {} => Of(title)' # {}
          /\ section' \in Since("diff") => Of("diff")' \cup Of("no diff")' # {}
          /\ section' \in Since("callers") /\ Of("callers")' = {} /\ Owed("callers")' # {} =>
                (CallerItems[1].size > Limits.callers)'
      BY <1>10, <2>1, <2>2, <2>3
    <2> QED BY <1>9, <2>4, <2>5 DEF PackRight, Since
  <1> QED BY <1>3, <1>4, <1>5, <1>7, <1>8, <1>11 DEF PackInv

LEMMA PackIsSequence ==
  ASSUME PackInv
  PROVE  IsSequence(pack) /\ IsSequence(queue)
  BY AsSequence DEF PackInv, PackRight, QueueRight

\* Without an item nothing is owed.
LEMMA NothingOwed ==
  ASSUME NEW title \in Loops, QueueRight(title, <<>>)
  PROVE  Owed(title) = {}
  <1>1. \A x \in Owed(title) : \E i \in DOMAIN <<>> : <<>>[i].what = x
    BY QueueCount
  <1> QED BY <1>1, Emptied

\* The texts of the sections without a loop.
LEMMA TextOfPullRequest ==
  ASSUME TypeInv
  PROVE  PullRequestText \in Seq(Nat)
  <1> DEFINE S == input.excluded
             list == Listed(S, Earlier, Same)
             n == Min({Limits.excluded, Cardinality(S)})
  <1>1. IsFiniteSet(S) /\ input.description \in Seq(Nat)
    BY DEF TypeInv, IsInput
  <1>2. Cardinality(S) \in Nat /\ Limits.excluded \in Nat
    BY <1>1, FS_CardinalityType, LimitsAreNat
  <1>3. list = [k \in 1..Cardinality(S) |-> list[k]]
    BY DEF Listed
  <1>4. n \in 0..Cardinality(S)
    BY <1>2, MinPair
  <1>5. Named(S, Limits.excluded) = SubSeq(list, 1, n)
    BY DEF Named
  <1> HIDE DEF list, n, S
  <1>6. list \in Seq(ToSet(list)) /\ Len(list) = Cardinality(S)
    BY <1>2, <1>3, IsListed
  <1>7. Len(SubSeq(list, 1, n)) \in Nat
    BY <1>2, <1>4, <1>6
  <1>8. Len(Named(input.excluded, Limits.excluded)) \in Nat
    BY <1>5, <1>7 DEF S
  <1>9. \A m \in Nat : Append(input.description, m) \in Seq(Nat)
    BY <1>1
  <1> QED BY <1>1, <1>8, <1>9 DEF PullRequestText

LEMMA TextOfMap ==
  ASSUME TypeInv, IInv
  PROVE  MapText \in Seq(Nat)
  <1> DEFINE S == Importing
             list == Listed(S, Earlier, ImportLine)
  <1>1. IsFiniteSet(S)
    <2> DEFINE f == [x \in input.files |-> x.path]
    <2>1. IsFiniteSet(input.files) /\ DOMAIN f = input.files
      BY DEF TypeInv, IsInput
    <2>2. S \subseteq {f[x] : x \in input.files}
      BY DEF Importing
    <2> HIDE DEF f, S
    <2>3. IsFiniteSet({f[x] : x \in input.files})
      BY <2>1, ImageFinite
    <2> QED BY <2>2, <2>3, FS_Subset
  <1>2. \A path : ImportLine(path) \in Nat
    <2> TAKE path
    <2> DEFINE E == {f \in ToSet(edges) : f.kind = "imports" /\ f.path = path}
               name == [e \in E |-> e.name]
    <2>1. IsFiniteSet(ToSet(edges))
      <3>1. IsFiniteSet(DOMAIN edges)
        BY EdgesFinite
      <3>2. IsFiniteSet({edges[i] : i \in DOMAIN edges})
        BY <3>1, ImageFinite
      <3> QED BY <3>2 DEF ToSet
    <2>2. IsFiniteSet(E)
      BY <2>1, FS_Subset
    <2>3. ImportsOfFile(path) = {name[e] : e \in E}
      BY DEF ImportsOfFile
    <2>4. DOMAIN name = E
      OBVIOUS
    <2> HIDE DEF E, name
    <2>5. IsFiniteSet(ImportsOfFile(path))
      BY <2>2, <2>3, <2>4, ImageFinite
    <2>6. Cardinality(ImportsOfFile(path)) \in Nat /\ Limits.imports \in Nat
      BY <2>5, FS_CardinalityType, LimitsAreNat
    <2> DEFINE c == Cardinality(ImportsOfFile(path))
               limit == Limits.imports
    <2>7. ImportLine(path) = Min({limit, c}) /\ c \in Nat /\ limit \in Nat
      BY <2>6 DEF ImportLine
    <2> HIDE DEF c, limit
    <2> QED BY <2>7, MinPair
  <1>3. Cardinality(S) \in Nat
    BY <1>1, FS_CardinalityType
  <1>4. list = [k \in 1..Cardinality(S) |-> list[k]] /\ \A k \in 1..Cardinality(S) : list[k] \in Nat
    <2> DEFINE order == Sorted(S, Earlier)
    <2>1. list = [k \in 1..Cardinality(S) |-> ImportLine(order[k])]
      BY DEF Listed
    <2> HIDE DEF order, list, S
    <2> QED BY <1>2, <2>1
  <1>5. MapText = input.map \o list /\ input.map \in Seq(Nat)
    BY DEF MapText, TypeInv, IsInput
  <1> HIDE DEF list, S
  <1>6. list \in Seq(Nat)
    BY <1>3, <1>4, IsListed
  <1> QED BY <1>5, <1>6

LEMMA PullRequestInv ==
  ASSUME PackInv, TypeInv, IInv, PullRequest, UNCHANGED indexVars
  PROVE  PackInv'
  <1> DEFINE size == Characters(Cut(PullRequestText, Limits.pr))
             entry == [title |-> "pull_request", shown |-> <<>>, named |-> NamedIn("pull_request"),
                       left |-> IF IsCut(PullRequestText, Limits.pr) THEN 1 ELSE 0, size |-> size]
  <1>1. /\ section = "pull_request" /\ Continue(section) /\ UNCHANGED <<input, touched>>
        /\ pack' = Append(pack, entry)
    BY DEF PullRequest, Built
  <1>2. entry.left \in Nat /\ entry.title = "pull_request" /\ entry.size = size
    OBVIOUS
  <1>6. entry.left = 0 => NamesSome(entry.named, input.excluded, Limits.excluded)
    BY FilesNamed DEF NamedIn, TypeInv
  <1>3. size <= Limits.pr
    BY TextOfPullRequest, CutFits, LimitsAreNat
  <1> HIDE DEF entry, size
  <1>4. SectionRight(entry)
    <2>1. entry.title \notin Loops /\ entry.title # "map" /\ entry.size <= Limits.pr
      BY <1>2, <1>3 DEF Loops
    <2> QED BY <1>6, <2>1, OtherRight
  <1>5. OverRight
    BY <1>1 DEF OverRight
  <1> QED BY <1>1, <1>2, <1>4, <1>5, OnwardsInv, SinceValues

LEMMA RepoMapInv ==
  ASSUME PackInv, TypeInv, IInv, RepoMap, UNCHANGED indexVars
  PROVE  PackInv'
  <1> DEFINE size == Characters(Cut(MapText, Limits.map))
             entry == [title |-> "map", shown |-> <<>>, named |-> NamedIn("map"), left |-> 0, size |-> size]
  <1>1. /\ section = "map" /\ Continue(section) /\ UNCHANGED <<input, touched>>
        /\ pack' = Append(pack, entry)
    BY DEF RepoMap, Built
  <1>2. entry.left \in Nat /\ entry.title = "map" /\ entry.size = size
    OBVIOUS
  <1>3. size <= Limits.map
    BY TextOfMap, CutFits, LimitsAreNat
  <1> HIDE DEF entry, size
  <1>4. SectionRight(entry)
    <2>1. entry.title \notin Loops /\ entry.title # "pull_request" /\ entry.size <= Limits.map
      BY <1>2, <1>3 DEF Loops
    <2> QED BY <2>1, OtherRight
  <1>5. OverRight
    BY <1>1 DEF OverRight
  <1> QED BY <1>1, <1>2, <1>4, <1>5, OnwardsInv, SinceValues

LEMMA NoDiffInv ==
  ASSUME PackInv, TypeInv, IInv, NoDiff, UNCHANGED indexVars
  PROVE  PackInv'
  <1> DEFINE entry == [title |-> "no diff", shown |-> <<>>, named |-> NamedIn("no diff"), left |-> 0,
                       size |-> 0]
  <1>1. /\ section = "diff" /\ Continue(section) /\ UNCHANGED <<input, touched>>
        /\ pack' = Append(pack, entry)
    BY DEF NoDiff, Built
  <1>2. /\ entry.left \in Nat /\ entry.title = "no diff"
        /\ entry.title \notin Loops \cup {"pull_request", "map"}
    BY DEF Loops
  <1> HIDE DEF entry
  <1>3. SectionRight(entry)
    BY <1>2, OtherRight
  <1>4. Leaves("no diff")
    BY <1>1, <1>2, BuiltIn, PackIsSequence
  <1>5. OverRight
    BY <1>1, <1>4 DEF OverRight
  <1> QED BY <1>1, <1>2, <1>3, <1>5, OnwardsInv, SinceValues

LEMMA NoRulesInv ==
  ASSUME PackInv, TypeInv, IInv, NoRules, UNCHANGED indexVars
  PROVE  PackInv'
  <1> DEFINE entry == [title |-> "rules", shown |-> <<>>, named |-> NamedIn("rules"), left |-> 0, size |-> 0]
  <1>1. /\ section = "rules" /\ queue = <<>> /\ Continue(section) /\ UNCHANGED <<input, touched>>
        /\ pack' = pack \/ pack' = Append(pack, entry)
    BY DEF NoRules, Built
  <1>2. /\ entry.left \in Nat /\ entry.left = 0 /\ entry.shown = <<>> /\ entry.size = 0
        /\ entry.title = "rules" /\ "rules" \in Loops /\ "rules" # "callers"
        /\ entry.named = NamedIn("rules") /\ IsInput(input)
    BY DEF Loops, TypeInv
  <1>3. QueueRight("rules", <<>>)
    BY <1>1 DEF PackInv
  <1> HIDE DEF entry
  <1>4. SectionRight(entry)
    BY <1>2, <1>3, EmptyRight
  <1>5. Owed("rules") = {}
    BY <1>2, <1>3, NothingOwed
  <1>6. OverRight
    BY <1>1, <1>5 DEF OverRight
  <1> QED BY <1>1, <1>2, <1>4, <1>6, OnwardsInv, SinceValues

LEMMA NothingInv ==
  ASSUME PackInv, TypeInv, IInv, Nothing, UNCHANGED indexVars
  PROVE  PackInv'
  <1> DEFINE entry == [title |-> section, shown |-> <<>>, named |-> NamedIn(section), left |-> 0, size |-> 0]
  <1>1. /\ section \in {"diff", "symbols", "callers", "findings"} /\ queue = <<>>
        /\ Continue(section) /\ UNCHANGED <<input, touched>>
        /\ IF section \in {"diff", "findings"} THEN pack' = Append(pack, entry) ELSE pack' = pack
    BY DEF Nothing, Built
  <1>2. /\ entry.left \in Nat /\ entry.left = 0 /\ entry.shown = <<>> /\ entry.size = 0
        /\ entry.title = section /\ entry.named = NamedIn(section) /\ IsInput(input)
    BY DEF TypeInv
  <1>3. QueueRight(section, <<>>) /\ section \in Loops
    BY <1>1 DEF PackInv, Loops
  <1> HIDE DEF entry
  <1>4. section # "callers" => SectionRight(entry)
    BY <1>2, <1>3, EmptyRight
  <1>5. Owed(section) = {}
    BY <1>3, NothingOwed
  <1>6. section = "diff" => Leaves("diff")
    BY <1>1, <1>2, BuiltIn, PackIsSequence
  <1>7. OverRight
    BY <1>1, <1>5, <1>6 DEF OverRight
  <1>8. pack' = pack \/ (\E e : pack' = Append(pack, e) /\ SectionRight(e) /\ e.left \in Nat)
    BY <1>1, <1>2, <1>4
  <1> QED BY <1>1, <1>7, <1>8, OnwardsInv, SinceValues

LEMMA EndLoopInv ==
  ASSUME PackInv, TypeInv, IInv, EndLoop, UNCHANGED indexVars
  PROVE  PackInv'
  <1> DEFINE entry == [title |-> section, shown |-> shown, named |-> NamedIn(section), left |-> Left,
                       size |-> used]
  <1>1. /\ section \in Loops /\ queue # <<>> /\ (~InLoop \/ Truncated)
        /\ Continue(section) /\ UNCHANGED <<input, touched>>
        /\ IF section = "callers" /\ shown = <<>> THEN pack' = pack ELSE pack' = Append(pack, entry)
    BY DEF EndLoop, Built
  <1>2. entry.title = section
    OBVIOUS
  <1>3. SectionRight(entry) /\ entry.left \in Nat
    <2>1. IsInput(input) /\ QueueRight(section, queue) /\ LoopRight
      BY DEF TypeInv, PackInv
    <2> QED BY <1>1, <2>1, EndedRight
  <1> HIDE DEF entry
  <1>4. pack' = pack \/ (\E e : pack' = Append(pack, e) /\ SectionRight(e) /\ e.left \in Nat)
    BY <1>1, <1>3
  <1>5. pack' = Append(pack, entry) => Leaves(section)
    BY <1>2, BuiltIn, PackIsSequence
  <1>6. ASSUME section = "callers", shown = <<>>
        PROVE  CallerItems[1].size > Limits.callers
    <2>1. /\ IsSequence(queue) /\ item \in 1..(Len(queue) + 1) /\ (item = 1 => used = 0)
          /\ Len(shown) = item - 1 /\ queue = CallerItems
          /\ \A i \in DOMAIN queue : queue[i].size \in Nat
      BY <1>1, <1>6, QueueCount DEF PackInv, LoopRight, QueueRight
    <2>2. item = 1 /\ used = 0
      BY <1>6, <2>1, PlacesFinite, Emptied
    <2>3. Len(queue) \in Nat /\ Len(queue) > 0 /\ DOMAIN queue = 1..Len(queue)
      BY <1>1, <2>1, LoopPlace, PlacesFinite
    <2>4. InLoop
      BY <1>1, <1>6, <2>1, <2>2, <2>3, LoopPlace
    <2>5. ~(used + queue[item].size <= Limits[section])
      BY <1>1, <2>4 DEF Truncated, Fits
    <2>6. queue[1].size \in Nat /\ Limits.callers \in Nat
      BY <2>1, <2>3, LimitsAreNat DEF Loops
    <2> DEFINE size == queue[1].size
               limit == Limits.callers
    <2>7. ~(0 + size <= limit) /\ size \in Nat /\ limit \in Nat
      BY <1>6, <2>2, <2>5, <2>6
    <2> HIDE DEF size, limit
    <2>8. size > limit
      BY <2>7
    <2> QED BY <2>1, <2>8 DEF size, limit
  <1>7. OverRight
    BY <1>1, <1>5, <1>6 DEF OverRight
  <1>8. section \in ToSet(Sections) \ {"done"}
    BY <1>1, SinceValues DEF Loops
  <1> QED BY <1>1, <1>4, <1>7, <1>8, OnwardsInv

LEMMA SamePackRight ==
  ASSUME PackRight, UNCHANGED <<input, touched, section, pack, symbols, edges>>
  PROVE  PackRight'
  <1>2. /\ \A title : Owed(title)' = Owed(title)
        /\ CallerItems' = CallerItems
    BY OwedFrame
  <1>3. \A i \in DOMAIN pack' : SectionRight(pack'[i]) /\ pack'[i].left \in Nat
    BY DEF PackRight
  <1>a. UNCHANGED input
    OBVIOUS
  <1>4. (\A i \in DOMAIN pack : SectionRight(pack[i]) /\ pack[i].left \in Nat)'
    BY <1>a, <1>2, <1>3 DEF SectionRight, Told, Order, NamesSome, Secrets
  <1>5. \A title : Of(title)' = Of(title)
    BY DEF Of
  <1>6. /\ \A title \in {"rules", "symbols", "findings"} :
              section' \in Since(title) /\ Owed(title)' # {} => Of(title)' # {}
        /\ section' \in Since("diff") => Of("diff")' \cup Of("no diff")' # {}
        /\ section' \in Since("callers") /\ Of("callers")' = {} /\ Owed("callers")' # {} =>
              (CallerItems[1].size > Limits.callers)'
    BY <1>2, <1>5 DEF PackRight
  <1> QED BY <1>4, <1>6 DEF PackRight, Since

LEMMA LoopInv ==
  ASSUME PackInv, Show \/ PassBy, UNCHANGED indexVars
  PROVE  PackInv'
  <1>1. UNCHANGED <<input, touched, section, queue, pack, symbols, edges>> /\ section \in Loops
    BY DEF Show, PassBy, InLoop, indexVars
  <1>2. LoopRight'
    BY ShowLoop, PassByLoop DEF PackInv
  <1>3. QueueRight(section, queue)'
    <2>1. QueueRight(section', queue')
      BY <1>1 DEF PackInv
    <2> QED BY <1>1, <2>1, QueueFrame
  <1>4. PackRight'
    BY <1>1, SamePackRight DEF PackInv
  <1> QED BY <1>1, <1>2, <1>3, <1>4 DEF PackInv, Loops

-----------------------------------------------------------------------------
(* The tools.                                                              *)

LEMMA ToolLimitsAreNat ==
  /\ ToolLimits.read \in Nat \ {0} /\ ToolLimits.source \in Nat \ {0} /\ ToolLimits.find \in Nat \ {0}
  /\ ToolLimits.callers \in Nat \ {0} /\ ToolLimits.callees \in Nat \ {0} /\ ToolLimits.search \in Nat \ {0}
  /\ ToolLimits.perFile \in Nat \ {0} /\ ToolLimits.findings \in Nat \ {0} /\ ToolLimits.tests \in Nat \ {0}
  BY ToolAssumption DEF ToolLimitFields

LEMMA ErrorRight ==
  ASSUME NEW tool, NEW asked
  PROVE  AnswerRight(ToolError(tool, asked))
  <1> DEFINE answer == ToolError(tool, asked)
  <1>1. answer.error = TRUE /\ answer.shown = <<>> /\ Len(<<>>) = 0
    BY DEF ToolError
  <1>2. \A t : MostOf(t) \in Nat
    BY ToolLimitsAreNat DEF MostOf
  <1>3. MostOf(answer.tool) \in Nat
    BY <1>2
  <1> HIDE DEF answer
  <1>4. AnswerRight(answer)
    BY <1>1, <1>3 DEF AnswerRight
  <1> QED BY <1>4 DEF answer

\* An answer that is not one of findings, from what it shows and what it counts.
LEMMA PlainAnswer ==
  ASSUME NEW tool, tool # "get_linter_findings", NEW asked, NEW told, NEW next, NEW partly \in BOOLEAN,
         NEW wanted, wanted = Wanted(tool, asked), IsFiniteSet(wanted), ToSet(told) \subseteq wanted,
         Cardinality(ToSet(told)) = Len(told), Len(told) \in Nat, Len(told) <= MostOf(tool),
         next = 0 /\ ~partly => wanted \subseteq ToSet(told),
         next # 0 => wanted \ ToSet(told) = {n \in wanted : n >= next} /\ next \in wanted
  PROVE  AnswerRight(Reply(tool, asked, told, 0, next, partly))
  <1> DEFINE answer == Reply(tool, asked, told, 0, next, partly)
  <1>1. /\ answer.tool = tool /\ answer.asked = asked /\ answer.shown = told /\ answer.more = 0
        /\ answer.next = next /\ answer.partly = partly
    BY DEF Reply
  <1>2. Cardinality(ToSet(told)) <= Cardinality(wanted)
    BY FS_Subset
  <1>3. next = 0 /\ ~partly => ToSet(told) = wanted
    OBVIOUS
  <1>4. Len(told) + 0 = Cardinality(ToSet(told))
    OBVIOUS
  <1> HIDE DEF answer
  <1>5. Complete(answer, wanted)
    BY <1>1, <1>2, <1>3, <1>4 DEF Complete
  <1>6. AnswerRight(answer)
    BY <1>1, <1>5 DEF AnswerRight
  <1> QED BY <1>6 DEF answer

\* One that goes on nowhere.
LEMMA WholeAnswer ==
  ASSUME NEW tool, tool # "get_linter_findings", NEW asked, NEW told, NEW partly \in BOOLEAN,
         NEW wanted, wanted = Wanted(tool, asked), IsFiniteSet(wanted), ToSet(told) \subseteq wanted,
         Cardinality(ToSet(told)) = Len(told), Len(told) \in Nat, Len(told) <= MostOf(tool),
         ~partly => wanted \subseteq ToSet(told)
  PROVE  AnswerRight(Reply(tool, asked, told, 0, 0, partly))
  <1> DEFINE next == 0
  <1>1. next = 0
    OBVIOUS
  <1> HIDE DEF next
  <1>2. /\ next = 0 /\ ~partly => wanted \subseteq ToSet(told)
        /\ next # 0 => wanted \ ToSet(told) = {n \in wanted : n >= next} /\ next \in wanted
    BY <1>1
  <1>3. AnswerRight(Reply(tool, asked, told, 0, next, partly))
    BY <1>2, PlainAnswer
  <1> QED BY <1>3 DEF next

\* The beginning of a list.
LEMMA ListingRight ==
  ASSUME NEW tool, NEW asked, NEW all, NEW most \in Nat, MostOf(tool) = most,
         NEW partly \in BOOLEAN, Lists(all, ToSet(all)),
         NEW wanted, wanted = Wanted(tool, asked), IsFiniteSet(wanted), ToSet(all) \subseteq wanted,
         ~partly => wanted \subseteq ToSet(all),
         tool = "get_linter_findings" =>
            /\ ~partly
            /\ \A f, g \in input.findings : \A k, l \in DOMAIN all :
                  all[k] = g.id /\ all[l] = f.id /\ k < l => Order(g.severity) <= Order(f.severity)
  PROVE  AnswerRight(Listing(tool, asked, all, most, partly))
  <1> DEFINE total == Len(all)
             n == IF total <= most THEN total ELSE most
             s == SubSeq(all, 1, n)
             left == IF total > most THEN total - most ELSE 0
             answer == Listing(tool, asked, all, most, partly)
  <1>0. IsSequence(all) /\ \A i, j \in DOMAIN all : all[i] = all[j] => i = j
    BY DEF Lists
  <1>1. DOMAIN all = 1..total /\ total \in Nat
    BY <1>0, PlacesFinite
  <1>2. Min({total, most}) = n
    BY <1>1, MinPair
  <1>3. /\ answer.tool = tool /\ answer.asked = asked /\ answer.shown = s /\ answer.more = left
        /\ answer.next = 0 /\ answer.partly = partly
    BY <1>2 DEF Listing, Reply
  <1>4. n \in 0..total /\ n <= most /\ n + left = total /\ left \in Nat
    <2>1. n = (IF total <= most THEN total ELSE most) /\ left = (IF total > most THEN total - most ELSE 0)
      OBVIOUS
    <2> HIDE DEF n, left, total
    <2> QED BY <1>1, <2>1
  <1>5. Len(s) = n /\ IsSequence(s) /\ DOMAIN s = 1..n /\ \A i \in 1..n : s[i] = all[i] /\ i \in DOMAIN all
    <2>1. PICK S : all \in Seq(S)
      BY <1>0 DEF IsSequence
    <2> HIDE DEF n
    <2>2. s \in Seq(S) /\ Len(s) = n /\ \A i \in 1..n : s[i] = all[i]
      <3>1. n \in 0..Len(all)
        BY <1>4
      <3> QED BY <2>1, <3>1
    <2> HIDE DEF s, total
    <2>3. DOMAIN s = 1..n /\ \A i \in 1..n : i \in DOMAIN all
      BY <1>1, <1>4, <2>2
    <2> QED BY <2>2, <2>3 DEF IsSequence
  <1> HIDE DEF s, n, left, total, answer
  <1>6. Cardinality(ToSet(all)) = total /\ Cardinality(ToSet(s)) = n
    <2>1. \A i, j \in DOMAIN s : s[i] = s[j] => i = j
      BY <1>0, <1>5
    <2>2. Cardinality(ToSet(all)) = Len(all) /\ Cardinality(ToSet(s)) = Len(s)
      BY <1>0, <1>5, <2>1, DistinctCount
    <2> QED BY <1>5, <2>2 DEF total
  <1>7. ToSet(s) \subseteq ToSet(all)
    BY <1>5 DEF ToSet
  <1>8. total <= Cardinality(wanted) /\ (~partly => total = Cardinality(wanted))
    <2>1. Cardinality(ToSet(all)) <= Cardinality(wanted)
      BY FS_Subset
    <2>2. ~partly => ToSet(all) = wanted
      OBVIOUS
    <2> QED BY <1>6, <2>1, <2>2
  <1>9. ASSUME tool = "get_linter_findings", NEW f \in input.findings, NEW g \in input.findings,
               f.id \in wanted \ ToSet(s), g.id \in ToSet(s)
        PROVE  Order(g.severity) <= Order(f.severity)
    <2>1. f.id \in ToSet(all)
      BY <1>9
    <2>2. PICK l \in DOMAIN all : all[l] = f.id
      BY <2>1 DEF ToSet
    <2>3. PICK k \in 1..n : all[k] = g.id /\ k \in DOMAIN all
      BY <1>5, <1>9 DEF ToSet
    <2>4. l \notin 1..n
      BY <1>5, <1>9, <2>2 DEF ToSet
    <2>5. k < l
      BY <1>1, <1>4, <2>2, <2>3, <2>4
    <2> QED BY <1>9, <2>2, <2>3, <2>5
  <1>10. Len(answer.shown) + answer.more = total
    BY <1>3, <1>4, <1>5
  <1>11. Complete(answer, wanted)
    BY <1>3, <1>5, <1>6, <1>7, <1>8, <1>9, <1>10 DEF Complete
  <1>12. AnswerRight(answer)
    BY <1>3, <1>4, <1>5, <1>11 DEF AnswerRight
  <1> QED BY <1>12 DEF answer

LEMMA FindRight ==
  ASSUME IInv, TypeInv, PackInv, NEW name, FindSymbol(name) \/ FindQualified(name)
  PROVE  AnswerRight(reply')
  <1>1. IsSequence(symbols) /\ touched \subseteq DOMAIN symbols
    BY DEF IInv, Sequences, PackInv
  <1>2. MostOf("find_symbol") = ToolLimits.find /\ ToolLimits.find \in Nat
    BY ToolLimitsAreNat DEF MostOf
  <1>3. ASSUME NEW asked, NEW S, S \subseteq DOMAIN symbols, S = Wanted("find_symbol", asked),
               reply' = Listing("find_symbol", asked, Listed(S, ByStart, Same), ToolLimits.find, FALSE)
        PROVE  AnswerRight(reply')
    <2> DEFINE before == [x \in S |-> {y \in S : ByStart(y, x)}]
               all == Listed(S, ByStart, Same)
    <2>1. IsFiniteSet(S)
      BY <1>1, <1>3, PlacesFinite
    <2>2. IsOrder(before, S)
      BY <1>1, <1>3, ByStartOrders
    <2>3. all = ListOfItself(before, S)
      BY DEF Listed, Sorted, ByRank, ListOfItself
    <2>4. reply' = Listing("find_symbol", asked, all, ToolLimits.find, FALSE)
      BY <1>3
    <2> HIDE DEF all, before
    <2>5. Lists(all, S) /\ ToSet(all) = S
      BY <2>1, <2>2, <2>3, ListedItself DEF Lists
    <2>6. AnswerRight(Listing("find_symbol", asked, all, ToolLimits.find, FALSE))
      BY <1>2, <1>3, <2>1, <2>5, ListingRight
    <2> QED BY <2>4, <2>6
  <1>4. CASE FindSymbol(name)
    <2> DEFINE asked == <<name>>
    <2>1. Len(asked) = 1 /\ asked[1] = name
      OBVIOUS
    <2>2. reply' = Listing("find_symbol", asked, Listed(FindByName(name), ByStart, Same), ToolLimits.find, FALSE)
      BY <1>4 DEF FindSymbol, Answers
    <2> HIDE DEF asked
    <2>3. FindByName(name) \subseteq DOMAIN symbols
      BY DEF FindByName, Candidates
    <2>4. Wanted("find_symbol", asked) = FindByName(name)
      BY <2>1 DEF Wanted, FindByName, Candidates
    <2> QED BY <1>3, <2>2, <2>3, <2>4
  <1>5. CASE FindQualified(name)
    <2> DEFINE S == {i \in DOMAIN symbols : symbols[i].qualified = name}
    <2>1. /\ reply' = Listing("find_symbol", name, Listed(S, ByStart, Same), ToolLimits.find, FALSE)
          /\ Len(name) # 1
      <3>1. Len(name) > 1 /\ ~(1 > 1)
        BY <1>5 DEF FindQualified
      <3>2. Len(name) # 1
        BY <3>1, Zenon
      <3>3. reply' = Listing("find_symbol", name, Listed(S, ByStart, Same), ToolLimits.find, FALSE)
        BY <1>5 DEF FindQualified, Answers
      <3> QED BY <3>2, <3>3
    <2>2. S \subseteq DOMAIN symbols
      OBVIOUS
    <2>3. Wanted("find_symbol", name) = S
      BY <2>1 DEF Wanted
    <2> HIDE DEF S
    <2> QED BY <1>3, <2>1, <2>2, <2>3
  <1> QED BY <1>4, <1>5

LEMMA ByPlaceOrders ==
  ASSUME TypeInv, IInv, NEW S, S \subseteq DOMAIN edges
  PROVE  IsOrder([x \in S |-> {y \in S : ByPlace(y, x)}], S)
  <1> DEFINE a == [x \in S |-> edges[x].path]
             b == [x \in S |-> edges[x].line]
             c == [x \in S |-> 0]
             d == [x \in S |-> x]
             before == [x \in S |-> {y \in S : ByPlace(y, x)}]
  <1>1. \A x \in S : x \in Int /\ edges[x].path \in Int /\ edges[x].line \in Int
    BY EdgesFinite DEF TypeInv, EdgesTyped
  <1>2. /\ a \in [S -> Int] /\ b \in [S -> Int] /\ c \in [S -> Int] /\ d \in [S -> Int]
        /\ \A x, y \in S : d[x] = d[y] => x = y
    BY <1>1
  <1>3. \A x, y \in S : ByPlace(y, x) <=>
            IF a[y] # a[x] THEN a[y] < a[x] ELSE IF b[y] # b[x] THEN b[y] < b[x]
            ELSE IF c[y] # c[x] THEN c[y] < c[x] ELSE d[y] < d[x]
    BY DEF ByPlace
  <1>4. before \in [S -> SUBSET S] /\ \A x, y \in S : y \in before[x] <=> ByPlace(y, x)
    OBVIOUS
  <1> HIDE DEF a, b, c, d, before
  <1>5. ByKeys(before, S, a, b, c, d)
    BY <1>2, <1>3, <1>4 DEF ByKeys
  <1>6. IsOrder(before, S)
    BY <1>5, Lexicographic
  <1> QED BY <1>6 DEF before

LEMMA CallsRight ==
  ASSUME IInv, TypeInv, NEW id, AskCallersOf(id) \/ AskCalleesOf(id)
  PROVE  AnswerRight(reply')
  <1>1. /\ MostOf("callers_of") = ToolLimits.callers /\ ToolLimits.callers \in Nat
        /\ MostOf("callees_of") = ToolLimits.callees /\ ToolLimits.callees \in Nat
    BY ToolLimitsAreNat DEF MostOf
  <1>2. CASE AskCallersOf(id)
    <2> DEFINE S == CallSitesOf(id)
               before == [x \in S |-> {y \in S : ByPlace(y, x)}]
               all == Listed(S, ByPlace, Same)
    <2>1. \/ reply' = Listing("callers_of", id, all, ToolLimits.callers, FALSE)
          \/ reply' = ToolError("callers_of", id)
      BY <1>2 DEF AskCallersOf, OfSymbol, Answers
    <2>2. S \subseteq DOMAIN edges /\ IsFiniteSet(S)
      BY EdgesFinite DEF CallSitesOf, CallPlaces
    <2>3. all = ListOfItself(before, S)
      BY DEF Listed, Sorted, ByRank, ListOfItself
    <2>4. Wanted("callers_of", id) = S
      BY DEF Wanted, CallSitesOf, CallPlaces
    <2>5. IsOrder(before, S)
      BY <2>2, ByPlaceOrders
    <2> HIDE DEF all, before, S
    <2>6. Lists(all, S) /\ ToSet(all) = S
      BY <2>2, <2>3, <2>5, ListedItself DEF Lists
    <2>7. AnswerRight(Listing("callers_of", id, all, ToolLimits.callers, FALSE))
      BY <1>1, <2>2, <2>4, <2>6, ListingRight
    <2> QED BY <2>1, <2>7, ErrorRight
  <1>3. CASE AskCalleesOf(id)
    <2> DEFINE S == CalleesOf(id)
               before == [x \in S |-> {y \in S : Earlier(y, x)}]
               all == Listed(S, Earlier, Same)
    <2>1. \/ reply' = Listing("callees_of", id, all, ToolLimits.callees, FALSE)
          \/ reply' = ToolError("callees_of", id)
      BY <1>3 DEF AskCalleesOf, OfSymbol, Answers
    <2>2. S \subseteq Int /\ IsFiniteSet(S)
      BY EdgesFinite DEF CalleesOf, CallPlaces
    <2>3. all = ListOfItself(before, S)
      BY DEF Listed, Sorted, ByRank, ListOfItself
    <2>4. Wanted("callees_of", id) = S
      BY DEF Wanted, CalleesOf, CallPlaces
    <2>5. IsOrder(before, S)
      BY <2>2, EarlierOrders
    <2> HIDE DEF all, before, S
    <2>6. Lists(all, S) /\ ToSet(all) = S
      BY <2>2, <2>3, <2>5, ListedItself DEF Lists
    <2>7. AnswerRight(Listing("callees_of", id, all, ToolLimits.callees, FALSE))
      BY <1>1, <2>2, <2>4, <2>6, ListingRight
    <2> QED BY <2>1, <2>7, ErrorRight
  <1> QED BY <1>2, <1>3

\* The first call in each test is there for the test.
LEMMA TestCallsTell ==
  ASSUME IInv, NEW id
  PROVE  LET S == TestCalls(Get(id).name) IN
         /\ S \subseteq DOMAIN edges /\ IsFiniteSet(S)
         /\ \A i, j \in S : edges[i].source = edges[j].source => i = j
         /\ {edges[i].source : i \in S} = Wanted("list_tests_for", id)
  <1> DEFINE name == Get(id).name
             calls == {i \in CallsByName(name) : edges[i].path \in input.tests /\ Known(edges[i].source)}
             S == TestCalls(name)
             tests == {d \in CallEdges : d.name = name /\ d.path \in input.tests /\ Known(d.source)}
  <1>1. calls \subseteq DOMAIN edges /\ calls \subseteq Int /\ \A T : T \subseteq calls => IsFiniteSet(T)
    BY EdgesFinite DEF CallsByName, CallPlaces
  <1>2. S = {i \in calls : \A j \in calls : j < i => edges[j].source # edges[i].source}
    BY DEF TestCalls
  <1>3. Wanted("list_tests_for", id) = {e.source : e \in tests}
    BY DEF Wanted
  <1>4. \A i \in calls : edges[i] \in tests
    BY DEF CallsByName, CallPlaces, CallEdges, ToSet
  <1>5. \A e \in tests : \E i \in calls : e = edges[i]
    BY DEF CallsByName, CallPlaces, CallEdges, ToSet
  <1> HIDE DEF calls, S, tests, name
  <1>6. \A i, j \in S : edges[i].source = edges[j].source => i = j
    <2> TAKE i, j \in S
    <2>1. i \in Int /\ j \in Int
      BY <1>1, <1>2
    <2>2. i < j \/ j < i \/ i = j
      BY <2>1
    <2> QED BY <1>2, <2>2
  <1>7. ASSUME NEW e \in tests PROVE \E i \in S : edges[i].source = e.source
    <2> DEFINE T == {i \in calls : edges[i].source = e.source}
    <2>1. T # {} /\ T \subseteq calls /\ T \subseteq Int /\ IsFiniteSet(T)
      BY <1>1, <1>5
    <2> HIDE DEF T
    <2>2. Min(T) \in T /\ \A y \in T : Min(T) <= y
      BY <2>1, MinInt
    <2> DEFINE m == Min(T)
    <2> HIDE DEF m
    <2>3. m \in calls /\ edges[m].source = e.source /\ m \in Int
      BY <2>1, <2>2 DEF T, m
    <2>4. \A j \in calls : j < m => edges[j].source # edges[m].source
      <3> SUFFICES ASSUME NEW j \in calls, j < m, edges[j].source = edges[m].source PROVE FALSE
        OBVIOUS
      <3>1. j \in T
        BY <2>3 DEF T
      <3>2. m <= j /\ j \in Int
        BY <1>1, <2>2, <3>1 DEF m
      <3> QED BY <2>3, <3>2
    <2> QED BY <1>2, <2>3, <2>4
  <1>8. {edges[i].source : i \in S} = {e.source : e \in tests}
    <2>1. \A i \in S : edges[i].source \in {e.source : e \in tests}
      BY <1>2, <1>4
    <2>2. \A e \in tests : e.source \in {edges[i].source : i \in S}
      BY <1>7
    <2> QED BY <2>1, <2>2
  <1>9. S \subseteq DOMAIN edges /\ IsFiniteSet(S)
    BY <1>1, <1>2
  <1> QED BY <1>3, <1>6, <1>8, <1>9 DEF S, name

LEMMA TestsRight ==
  ASSUME IInv, TypeInv, NEW id, ListTestsFor(id)
  PROVE  AnswerRight(reply')
  <1> DEFINE S == TestCalls(Get(id).name)
             before == [x \in S |-> {y \in S : ByPlace(y, x)}]
             items == [x \in S |-> edges[x].source]
             all == Listed(S, ByPlace, CallerAt)
             wanted == Wanted("list_tests_for", id)
  <1>1. \/ reply' = Listing("list_tests_for", id, all, ToolLimits.tests, FALSE)
        \/ reply' = ToolError("list_tests_for", id)
    BY DEF ListTestsFor, OfSymbol, Answers
  <1>2. /\ S \subseteq DOMAIN edges /\ IsFiniteSet(S)
        /\ \A i, j \in S : edges[i].source = edges[j].source => i = j
        /\ {edges[i].source : i \in S} = wanted
    BY TestCallsTell
  <1>3. MostOf("list_tests_for") = ToolLimits.tests /\ ToolLimits.tests \in Nat
    BY ToolLimitsAreNat DEF MostOf
  <1>4. IsOrder(before, S)
    BY <1>2, ByPlaceOrders
  <1>5. all = [k \in 1..Cardinality(S) |-> edges[ByRank(before, S)[k]].source]
    BY DEF Listed, Sorted, ByRank, CallerAt
  <1>6. DOMAIN items = S /\ \A x \in S : items[x] = edges[x].source
    OBVIOUS
  <1> HIDE DEF S, before, items, all, wanted
  <1>7. all = ListOf(before, S, items)
    <2>1. \A k \in 1..Cardinality(S) : ByRank(before, S)[k] \in S
      BY <1>2, <1>4, RankedIn
    <2> QED BY <1>5, <1>6, <2>1 DEF ListOf
  <1>8. OwnItems(S, items)
    BY <1>2, <1>6 DEF OwnItems
  <1>9. wanted = {items[x] : x \in S}
    BY <1>2, <1>6
  <1>10. Lists(all, wanted) /\ ToSet(all) = wanted
    <2>1. Lists(all, wanted)
      BY <1>2, <1>4, <1>7, <1>8, <1>9, ListedOnce
    <2> QED BY <2>1 DEF Lists
  <1>11. IsFiniteSet(wanted)
    BY <1>2, <1>6, <1>9, ImageFinite
  <1>12. AnswerRight(Listing("list_tests_for", id, all, ToolLimits.tests, FALSE))
    BY <1>3, <1>10, <1>11, ListingRight DEF wanted
  <1> QED BY <1>1, <1>12, ErrorRight

\* What a search finds, and what there is.
LEMMA MatchesFound ==
  ASSUME IsInput(input), NEW glob \in Globs
  PROVE  /\ IsFiniteSet(MatchesIn(glob)) /\ Found(glob) \subseteq MatchesIn(glob)
         /\ (\A path \in glob : ~(Matches(path) >= ToolLimits.perFile)) => MatchesIn(glob) = Found(glob)
         /\ Found(glob) \subseteq Int \X Int
  <1> DEFINE most == ToolLimits.perFile
             kept == glob \ (input.secret \cup GeneratedPaths)
             f == [path \in kept |-> {path} \X (1..input.matches[path])]
  <1>1. most \in Nat \ {0} /\ IsFiniteSet(glob) /\ glob \subseteq Paths /\ Paths \subseteq Int
    BY ToolLimitsAreNat, GlobAssumption
  <1>2. \A path \in glob : input.matches[path] \in Nat
    BY <1>1 DEF IsInput
  <1>3. \A path \in kept : /\ Matches(path) = Min({input.matches[path], most})
                           /\ Matches(path) = IF input.matches[path] <= most THEN input.matches[path] ELSE most
    BY <1>1, <1>2, MinPair DEF Matches
  <1>4. \A path \in glob \ kept : Matches(path) = 0
    BY DEF Matches
  <1>5. Found(glob) = {m \in glob \X (1..most) : m[2] <= Matches(m[1])}
    BY DEF Found
  <1>6. MatchesIn(glob) = UNION {f[path] : path \in kept}
    BY DEF MatchesIn
  <1>7. \A path \in kept : f[path] = {path} \X (1..input.matches[path]) /\ IsFiniteSet(f[path])
    <2> TAKE path \in kept
    <2>0. input.matches[path] \in Int
      BY <1>2
    <2> DEFINE number == input.matches[path]
    <2> HIDE DEF number
    <2>3. IsFiniteSet(1..number)
      BY <2>0, FS_Interval DEF number
    <2>4. IsFiniteSet({path})
      BY FS_Singleton
    <2>1. IsFiniteSet(1..input.matches[path]) /\ IsFiniteSet({path})
      BY <2>3, <2>4 DEF number
    <2>2. IsFiniteSet({path} \X (1..input.matches[path]))
      BY <2>1, FS_Product
    <2> QED BY <2>2
  <1>8. DOMAIN f = kept /\ kept \subseteq glob
    OBVIOUS
  <1> HIDE DEF f, most
  <1>9. IsFiniteSet({f[path] : path \in kept})
    <2>1. IsFiniteSet(kept)
      BY <1>1, <1>8, FS_Subset
    <2> HIDE DEF kept
    <2> QED BY <1>8, <2>1, ImageFinite
  <1>10. IsFiniteSet(MatchesIn(glob))
    <2> DEFINE F == {f[path] : path \in kept}
    <2>1. \A T \in F : IsFiniteSet(T)
      BY <1>7
    <2> HIDE DEF F
    <2>2. IsFiniteSet(UNION F)
      BY <1>9, <2>1, FS_UNION DEF F
    <2> QED BY <1>6, <2>2 DEF F
  <1> HIDE DEF kept
  <1>11. ASSUME NEW m \in Found(glob) PROVE m \in MatchesIn(glob)
    <2>1. m \in glob \X (1..most) /\ m[2] <= Matches(m[1])
      BY <1>5
    <2>2. m = <<m[1], m[2]>> /\ m[1] \in glob /\ m[2] \in 1..most
      BY <2>1
    <2> DEFINE path == m[1]
               number == m[2]
    <2>6. path \in glob /\ number \in 1..most /\ number <= Matches(path)
      BY <2>1, <2>2
    <2> HIDE DEF path, number
    <2>7. path \in kept
      <3> SUFFICES ASSUME path \notin kept PROVE FALSE
        OBVIOUS
      <3>1. number <= 0 /\ number \in 1..most /\ most \in Nat
        BY <1>1, <1>4, <2>6
      <3> QED BY <3>1
    <2>8. number \in 1..input.matches[path]
      <3> DEFINE a == input.matches[path]
                 b == Matches(path)
      <3>1. a \in Nat /\ b = (IF a <= most THEN a ELSE most) /\ number <= b /\ number \in 1..most
        BY <1>2, <1>3, <2>6, <2>7
      <3> HIDE DEF a, b
      <3>2. number \in 1..a
        BY <1>1, <3>1
      <3> QED BY <3>2 DEF a
    <2>3. m[1] \in kept
      BY <2>7 DEF path
    <2>4. m[2] \in 1..input.matches[m[1]]
      BY <2>8 DEF path, number
    <2>5. m \in f[m[1]]
      BY <1>7, <2>2, <2>3, <2>4
    <2> QED BY <1>6, <2>3, <2>5
  <1>12. ASSUME \A path \in glob : ~(Matches(path) >= most), NEW m \in MatchesIn(glob)
         PROVE  m \in Found(glob)
    <2>1. PICK path \in kept : m \in f[path]
      BY <1>6
    <2>2. m \in {path} \X (1..input.matches[path]) /\ path \in glob
      BY <1>7, <1>8, <2>1
    <2>3. m = <<m[1], m[2]>> /\ m[1] = path /\ m[2] \in 1..input.matches[path]
      BY <2>2
    <2>4. Matches(path) = input.matches[path] /\ input.matches[path] <= most
      <3> DEFINE a == input.matches[path]
                 b == Matches(path)
      <3>1. a \in Nat /\ ~(b >= most) /\ b = (IF a <= most THEN a ELSE most)
        BY <1>2, <1>3, <1>12, <2>1, <2>2
      <3> HIDE DEF a, b
      <3>2. b = a /\ a <= most
        BY <1>1, <3>1
      <3> QED BY <3>2 DEF a, b
    <2>5. m[2] \in 1..most /\ m[2] <= Matches(m[1])
      BY <1>1, <1>2, <2>2, <2>3, <2>4
    <2> QED BY <1>5, <2>2, <2>3, <2>5
  <1>13. Found(glob) \subseteq Int \X Int
    <2> SUFFICES ASSUME NEW m \in Found(glob) PROVE m \in Int \X Int
      OBVIOUS
    <2>1. m \in glob \X (1..most) /\ glob \subseteq Int /\ 1..most \subseteq Int
      BY <1>1, <1>5
    <2> QED BY <2>1
  <1>14. (\A path \in glob : ~(Matches(path) >= most)) => MatchesIn(glob) = Found(glob)
    BY <1>11, <1>12
  <1>15. Found(glob) \subseteq MatchesIn(glob)
    BY <1>11
  <1> QED BY <1>10, <1>13, <1>14, <1>15 DEF most

LEMMA ByMatchOrders ==
  ASSUME NEW S, S \subseteq Int \X Int
  PROVE  IsOrder([x \in S |-> {y \in S : ByMatch(y, x)}], S)
  <1> DEFINE before == [x \in S |-> {y \in S : ByMatch(y, x)}]
  <1>1. \A x \in S : x = <<x[1], x[2]>> /\ x[1] \in Int /\ x[2] \in Int
    OBVIOUS
  <1>2. before \in [S -> SUBSET S] /\ \A x, y \in S : y \in before[x] <=> ByMatch(y, x)
    OBVIOUS
  <1>3. \A x \in S : ~ByMatch(x, x)
    BY <1>1 DEF ByMatch
  <1>4. \A x, y, z \in S : ByMatch(y, x) /\ ByMatch(z, y) => ByMatch(z, x)
    BY <1>1 DEF ByMatch
  <1>5. \A x, y \in S : x = y \/ ByMatch(x, y) \/ ByMatch(y, x)
    <2> TAKE x, y \in S
    <2>1. x[1] = y[1] /\ x[2] = y[2] => x = y
      BY <1>1
    <2> QED BY <1>1, <2>1 DEF ByMatch
  <1> HIDE DEF before
  <1>6. IsOrder(before, S)
    BY <1>2, <1>3, <1>4, <1>5 DEF IsOrder
  <1> QED BY <1>6 DEF before

LEMMA SearchRight ==
  ASSUME IsInput(input), NEW glob \in Globs, SearchCode(glob)
  PROVE  AnswerRight(reply')
  <1> DEFINE S == Found(glob)
             before == [x \in S |-> {y \in S : ByMatch(y, x)}]
             all == Listed(S, ByMatch, Same)
             partly == \E path \in glob : Matches(path) >= ToolLimits.perFile
             wanted == MatchesIn(glob)
  <1>1. \/ reply' = ToolError("search_code", glob)
        \/ reply' = Listing("search_code", glob, all, ToolLimits.search, partly)
    BY DEF SearchCode, Answers
  <1>2. /\ IsFiniteSet(wanted) /\ S \subseteq wanted /\ S \subseteq Int \X Int
        /\ ~partly => wanted \subseteq S
    BY MatchesFound
  <1>3. all = ListOfItself(before, S)
    BY DEF Listed, Sorted, ByRank, ListOfItself
  <1>4. IsOrder(before, S)
    BY <1>2, ByMatchOrders
  <1>5. wanted = Wanted("search_code", glob)
    BY DEF Wanted
  <1>6. MostOf("search_code") = ToolLimits.search /\ ToolLimits.search \in Nat /\ partly \in BOOLEAN
    BY ToolLimitsAreNat DEF MostOf
  <1> HIDE DEF S, before, all, partly, wanted
  <1>7. IsFiniteSet(S)
    BY <1>2, FS_Subset
  <1>8. Lists(all, S) /\ ToSet(all) = S
    BY <1>3, <1>4, <1>7, ListedItself DEF Lists
  <1>9. ToSet(all) \subseteq wanted /\ (~partly => wanted \subseteq ToSet(all))
    BY <1>2, <1>8
  <1>10. AnswerRight(Listing("search_code", glob, all, ToolLimits.search, partly))
    BY <1>2, <1>5, <1>6, <1>8, <1>9, ListingRight
  <1> QED BY <1>1, <1>10, ErrorRight

LEMMA LinterRight ==
  ASSUME IsInput(input), NEW path, NEW changedOnly, GetLinterFindings(path, changedOnly)
  PROVE  AnswerRight(reply')
  <1> DEFINE S == Selected(path, changedOnly)
             before == [x \in S |-> {y \in S : Graver(y, x)}]
             items == [x \in S |-> x.id]
             all == Listed(S, Graver, IdOf)
             asked == <<path, changedOnly>>
             wanted == Wanted("get_linter_findings", asked)
  <1>1. reply' = Listing("get_linter_findings", asked, all, ToolLimits.findings, FALSE)
    BY DEF GetLinterFindings, Answers
  <1>2. S \subseteq input.findings /\ IsFiniteSet(S)
    <2>1. IsFiniteSet(input.findings) /\ S \subseteq input.findings
      BY DEF IsInput, Selected
    <2> QED BY <2>1, FS_Subset
  <1>3. \A x, y \in input.findings : x.id = y.id => x = y
    BY DEF IsInput
  <1>4. IsOrder(before, S)
    BY <1>2, GraverOrders
  <1>5. all = [k \in 1..Cardinality(S) |-> ByRank(before, S)[k].id]
    BY DEF Listed, Sorted, ByRank, IdOf
  <1>6. DOMAIN items = S /\ \A x \in S : items[x] = x.id
    OBVIOUS
  <1>7. wanted = {f.id : f \in S}
    <2>1. asked[1] = path /\ asked[2] = changedOnly
      OBVIOUS
    <2> HIDE DEF asked
    <2>2. wanted = {f.id : f \in Selected(asked[1], asked[2])}
      BY DEF Wanted
    <2> QED BY <2>1, <2>2
  <1>8. \A x, y \in S : x \in before[y] => Order(x.severity) <= Order(y.severity)
    BY DEF Graver, Order
  <1>9. MostOf("get_linter_findings") = ToolLimits.findings /\ ToolLimits.findings \in Nat
    BY ToolLimitsAreNat DEF MostOf
  <1> HIDE DEF S, before, items, all, asked, wanted
  <1>10. all = ListOf(before, S, items)
    <2>1. \A k \in 1..Cardinality(S) : ByRank(before, S)[k] \in S
      BY <1>2, <1>4, RankedIn
    <2> QED BY <1>5, <1>6, <2>1 DEF ListOf
  <1>11. OwnItems(S, items)
    BY <1>2, <1>3, <1>6 DEF OwnItems
  <1>13. wanted = {items[x] : x \in S}
    BY <1>6, <1>7
  <1>12. Lists(all, wanted) /\ ToSet(all) = wanted /\ InOrder(all, S, before, items)
    BY <1>2, <1>4, <1>10, <1>11, <1>13, ListedOnce DEF Lists
  <1>14. IsFiniteSet(wanted)
    BY <1>2, <1>6, <1>13, ImageFinite
  <1>15. ASSUME NEW f \in input.findings, NEW g \in input.findings, NEW k \in DOMAIN all, NEW l \in DOMAIN all,
                all[k] = g.id, all[l] = f.id, k < l
         PROVE  Order(g.severity) <= Order(f.severity)
    <2>1. PICK x \in S, y \in S : x \in before[y] /\ all[k] = items[x] /\ all[l] = items[y]
      BY <1>12, <1>15 DEF InOrder
    <2>2. x = g /\ y = f
      BY <1>2, <1>3, <1>6, <1>15, <2>1
    <2> QED BY <1>8, <2>1, <2>2
  <1>16. wanted = Wanted("get_linter_findings", asked)
    BY DEF wanted
  <1>17. AnswerRight(Listing("get_linter_findings", asked, all, ToolLimits.findings, FALSE))
    BY <1>9, <1>12, <1>13, <1>14, <1>15, <1>16, ListingRight
  <1> QED BY <1>1, <1>17

LEMMA RuleOrBadRight ==
  ASSUME (\E id : GetRule(id)) \/ BadCall
  PROVE  AnswerRight(reply')
  <1>1. CASE BadCall
    BY <1>1, ErrorRight DEF BadCall, Answers
  <1>2. ASSUME NEW id, GetRule(id)
        PROVE  AnswerRight(reply')
    <2> DEFINE told == <<id>>
               wanted == Wanted("get_rule", id)
    <2>1. \/ reply' = Reply("get_rule", id, told, 0, 0, FALSE)
          \/ reply' = ToolError("get_rule", id)
      BY <1>2 DEF GetRule, Answers
    <2>2. Len(told) = 1 /\ ToSet(told) = {id}
      BY DEF ToSet
    <2>3. MostOf("get_rule") = 1 /\ wanted = {id}
      BY DEF MostOf, Wanted
    <2>4. IsFiniteSet({id}) /\ Cardinality({id}) = 1
      BY FS_Singleton
    <2>5. wanted = Wanted("get_rule", id)
      OBVIOUS
    <2> HIDE DEF told, wanted
    <2>7. /\ IsFiniteSet(wanted) /\ ToSet(told) = wanted
          /\ Cardinality(ToSet(told)) = Len(told) /\ Len(told) \in Nat /\ Len(told) <= MostOf("get_rule")
      BY <2>2, <2>3, <2>4
    <2>6. AnswerRight(Reply("get_rule", id, told, 0, 0, FALSE))
      BY <2>5, <2>7, WholeAnswer
    <2> QED BY <2>1, <2>6, ErrorRight
  <1> QED BY <1>1, <1>2

\* The lines first..end of a text, as read_file shows them.
LEMMA LinesShown ==
  ASSUME NEW first \in Nat, NEW end \in Int, NEW s, s = Lines(first, end)
  PROVE  /\ ToSet(s) = first..end
         /\ Len(s) = IF end < first THEN 0 ELSE end - first + 1
         /\ Cardinality(ToSet(s)) = Len(s)
  <1> DEFINE n == end - first + 1
  <1>0. s = [i \in 1..n |-> first + i - 1]
    BY DEF Lines
  <1>1. DOMAIN s = 1..n /\ \A i \in 1..n : s[i] = first + i - 1
    BY <1>0
  <1>2. ToSet(s) = first..end
    <2>1. \A x \in ToSet(s) : x \in first..end
      BY <1>1 DEF ToSet
    <2>2. ASSUME NEW x \in first..end PROVE x \in ToSet(s)
      <3>1. x - first + 1 \in 1..n /\ first + (x - first + 1) - 1 = x
        OBVIOUS
      <3> QED BY <1>1, <3>1 DEF ToSet
    <2> QED BY <2>1, <2>2
  <1>3. ASSUME end >= first PROVE Len(s) = end - first + 1
    <2>1. n \in Nat
      BY <1>3
    <2>2. s = [k \in 1..n |-> s[k]]
      BY <1>0
    <2> HIDE DEF n
    <2>3. Len(s) = n
      BY <2>1, <2>2, IsListed
    <2> QED BY <2>3 DEF n
  <1>4. ASSUME end < first PROVE Len(s) = 0
    <2>1. 1..n = 1..0
      BY <1>4
    <2>2. s = [k \in 1..0 |-> s[k]]
      BY <1>0, <2>1
    <2> QED BY <2>2, IsListed
  <1>5. (end < first \/ end >= first) /\ ~(end < first /\ end >= first)
    OBVIOUS
  <1>6. Len(s) = IF end < first THEN 0 ELSE end - first + 1
    BY <1>3, <1>4, <1>5, Zenon
  <1>7. Cardinality(first..end) = IF first > end THEN 0 ELSE end - first + 1
    BY FS_Interval
  <1>8. first > end <=> end < first
    OBVIOUS
  <1> HIDE DEF n
  <1> QED BY <1>2, <1>6, <1>7, <1>8

\* What read_file shows of the lines asked for.
LastRead(first, last, total, limit) ==
    Min({IF last = NoLine THEN first + limit - 1 ELSE last, total, first + limit - 1})
LinesAsked(first, last, total) == {n \in 1..total : first <= n /\ (last # NoLine => n <= last)}
ReadsPart(first, end, wanted, next, limit) ==
    /\ end \in Int /\ first..end \subseteq wanted /\ end - first + 1 <= limit
    /\ next = 0 => wanted \subseteq first..end
    /\ next # 0 => (\A n \in wanted : n \notin first..end <=> n >= next) /\ next \in wanted

LEMMA PartRead ==
  ASSUME NEW total \in Nat, NEW first \in Nat \ {0}, first <= total, NEW limit \in Nat \ {0}, NEW last \in Int,
         NEW end, end = LastRead(first, last, total, limit),
         NEW wanted, wanted = LinesAsked(first, last, total),
         NEW next, next = NextLine(end, last, total)
  PROVE  ReadsPart(first, end, wanted, next, limit)
  <1> DEFINE farthest == first + limit - 1
             stop == IF last = NoLine THEN farthest ELSE last
  <1>1. end = Min({stop, total, farthest}) /\ stop \in Int /\ farthest \in Int /\ farthest >= first
    BY DEF LastRead
  <1>2. end \in {stop, total, farthest} /\ end <= stop /\ end <= total /\ end <= farthest
    <2> HIDE DEF stop, farthest
    <2>1. stop \in Int /\ total \in Int /\ farthest \in Int
      BY <1>1
    <2>2. /\ Min({stop, total, farthest}) \in {stop, total, farthest} /\ Min({stop, total, farthest}) <= stop
          /\ Min({stop, total, farthest}) <= total /\ Min({stop, total, farthest}) <= farthest
      BY <2>1, MinTriple, Zenon
    <2> QED BY <1>1, <2>2, Zenon
  <1>3. end \in Int
    BY <1>1, <1>2
  <1>4. last # NoLine => end <= last
    BY <1>2
  <1>5. last = NoLine \/ last > end => end = total \/ end = farthest
    BY <1>1, <1>2, <1>3
  <1>6. next = IF end < total /\ (last = NoLine \/ last > end) THEN end + 1 ELSE 0
    BY DEF NextLine
  <1>7. end - first + 1 <= limit
    BY <1>2, <1>3
  <1> HIDE DEF stop
  <1>8. \A n \in wanted : n \in Int /\ first <= n /\ n <= total /\ (last # NoLine => n <= last)
    BY DEF LinesAsked
  <1>9. \A n \in Int : first <= n /\ n <= total /\ (last # NoLine => n <= last) => n \in wanted
    BY DEF LinesAsked
  <1> HIDE DEF farthest
  <1>10. first..end \subseteq wanted
    BY <1>2, <1>3, <1>4, <1>9
  <1>11. ASSUME next = 0 PROVE wanted \subseteq first..end
    <2>1. ~(end < total /\ (last = NoLine \/ last > end))
      <3>1. end < total /\ (last = NoLine \/ last > end) => end + 1 > 0
        BY <1>1, <1>3, <1>5
      <3> QED BY <1>3, <1>6, <1>11, <3>1
    <2> QED BY <1>3, <1>8, <2>1
  <1>12. ASSUME next # 0
         PROVE  (\A n \in wanted : n \notin first..end <=> n >= next) /\ next \in wanted
    <2>1. next = end + 1 /\ end < total /\ (last = NoLine \/ last > end)
      BY <1>6, <1>12
    <2>2. end >= first
      BY <1>1, <1>3, <1>5, <2>1
    <2>3. next \in wanted
      BY <1>3, <1>9, <2>1, <2>2
    <2>4. \A n \in wanted : n \notin first..end <=> n >= next
      BY <1>3, <1>8, <2>1
    <2> QED BY <2>3, <2>4
  <1> QED BY <1>3, <1>7, <1>10, <1>11, <1>12 DEF ReadsPart

LEMMA ReadFileRight ==
  ASSUME IsInput(input), NEW path, NEW first \in {1, 2, 9}, NEW last \in {NoLine, 1, 4, 9},
         ReadFile(path, first, last)
  PROVE  AnswerRight(reply')
  <1> DEFINE total == IF Readable(path) THEN input.lengths[path] ELSE 0
             start == Max({1, first})
             limit == ToolLimits.read
             farthest == start + limit - 1
             end == Min({IF last = NoLine THEN farthest ELSE last, total, farthest})
             asked == <<path, first, last>>
             wanted == Wanted("read_file", asked)
             next == NextLine(end, last, total)
             s == Lines(start, end)
             none == <<>>
  <1>1. \/ reply' = ToolError("read_file", asked)
        \/ Readable(path) /\ total = 0 /\ reply' = Reply("read_file", asked, none, 0, 0, FALSE)
        \/ /\ Readable(path) /\ total # 0 /\ ~(total > 0 /\ start > total)
           /\ reply' = Reply("read_file", asked, s, 0, next, FALSE)
    BY DEF ReadFile, Answers
  <1>2. total \in Nat
    BY DEF Readable, IsInput
  <1>3. start = first /\ first \in Nat \ {0}
    BY MaxPair
  <1>4. limit \in Nat \ {0} /\ MostOf("read_file") = limit /\ last \in Int
    BY ToolLimitsAreNat, ToolAssumption DEF MostOf
  <1>5. Readable(path) => wanted = LinesAsked(first, last, total)
    <2>1. asked[1] = path /\ asked[2] = first /\ asked[3] = last
      OBVIOUS
    <2> HIDE DEF asked
    <2>2. wanted = {n \in 1..input.lengths[asked[1]] :
                       asked[2] <= n /\ (asked[3] # NoLine => n <= asked[3])}
      BY DEF Wanted
    <2> QED BY <2>1, <2>2 DEF LinesAsked
  <1>6. end = LastRead(first, last, total, limit)
    BY <1>3 DEF LastRead
  <1>7. s = Lines(first, end)
    BY <1>3
  <1>8. next = NextLine(end, last, total) /\ wanted = Wanted("read_file", asked)
    OBVIOUS
  <1>9. ToSet(none) = {} /\ Len(none) = 0 /\ Cardinality({}) = 0
    BY FS_EmptySet DEF ToSet
  <1> HIDE DEF total, start, limit, farthest, end, asked, wanted, next, s, none
  <1>10. Readable(path) => IsFiniteSet(wanted)
    <2>1. IsFiniteSet(1..total)
      BY <1>2, FS_Interval
    <2>2. LinesAsked(first, last, total) \subseteq 1..total
      BY DEF LinesAsked
    <2> QED BY <1>5, <2>1, <2>2, FS_Subset
  <1>11. CASE Readable(path) /\ total = 0 /\ reply' = Reply("read_file", asked, none, 0, 0, FALSE)
    <2>1. wanted = {}
      BY <1>5, <1>11 DEF LinesAsked
    <2>2. /\ ToSet(none) = wanted /\ Cardinality(ToSet(none)) = Len(none)
          /\ Len(none) \in Nat /\ Len(none) <= MostOf("read_file")
      BY <1>4, <1>9, <2>1
    <2>3. AnswerRight(Reply("read_file", asked, none, 0, 0, FALSE))
      BY <1>8, <1>10, <1>11, <2>2, WholeAnswer
    <2> QED BY <1>11, <2>3
  <1>12. CASE /\ Readable(path) /\ total # 0 /\ ~(total > 0 /\ start > total)
              /\ reply' = Reply("read_file", asked, s, 0, next, FALSE)
    <2>1. first <= total
      BY <1>2, <1>3, <1>12
    <2>5. wanted = LinesAsked(first, last, total) /\ next = NextLine(end, last, total)
      BY <1>5, <1>8, <1>12
    <2>6. ReadsPart(first, end, wanted, next, limit)
      BY <1>2, <1>3, <1>4, <1>6, <2>1, <2>5, PartRead
    <2>2. /\ end \in Int /\ first..end \subseteq wanted /\ end - first + 1 <= limit
          /\ next = 0 => wanted \subseteq first..end
          /\ next # 0 => wanted \ (first..end) = {n \in wanted : n >= next} /\ next \in wanted
      BY <2>6 DEF ReadsPart
    <2>3. /\ ToSet(s) = first..end /\ Cardinality(ToSet(s)) = Len(s)
          /\ Len(s) = IF end < first THEN 0 ELSE end - first + 1
      BY <1>3, <1>7, <2>2, LinesShown
    <2>4. Len(s) \in Nat /\ Len(s) <= limit
      BY <1>3, <1>4, <2>2, <2>3
    <2> QED BY <1>4, <1>8, <1>10, <1>12, <2>2, <2>3, <2>4, PlainAnswer
  <1> QED BY <1>1, <1>11, <1>12, ErrorRight

LEMMA GetIsSymbol ==
  ASSUME IInv, NEW id, Known(id)
  PROVE  \E i \in DOMAIN symbols : Get(id) = symbols[i]
  <1> DEFINE S == {i \in DOMAIN symbols : symbols[i].id = id}
  <1>1. IsSequence(symbols)
    BY DEF IInv, Sequences
  <1>2. IsFiniteSet(S) /\ S \subseteq Int
    BY <1>1, PlacesFinite
  <1>3. S # {}
    BY DEF Known
  <1>4. Max(S) \in S /\ \A j \in S : j <= Max(S)
    <2> HIDE DEF S
    <2> QED BY <1>2, <1>3, MaxInt
  <1>5. \E i \in DOMAIN symbols : symbols[i].id = id /\ \A j \in DOMAIN symbols : symbols[j].id = id => j <= i
    BY <1>4
  <1> QED BY <1>5 DEF Get

LEMMA SourceRight ==
  ASSUME IInv, TypeInv, NEW id, GetSymbolSource(id)
  PROVE  AnswerRight(reply')
  <1>1. CASE ~Known(id) \/ ~Readable(Get(id).path)
    BY <1>1, ErrorRight DEF GetSymbolSource, Answers
  <1>2. CASE Known(id) /\ Readable(Get(id).path)
    <2> DEFINE start == Get(id).start
               stop == Get(id).end
               length == input.lengths[Get(id).path]
               most == ToolLimits.source
               far == start + most - 1
               last == LastShown(Get(id), most)
               s == Lines(start, last)
               partly == last < stop
               wanted == Wanted("get_symbol_source", id)
    <2>1. reply' = Reply("get_symbol_source", id, s, 0, 0, partly)
      BY <1>2 DEF GetSymbolSource, Answers
    <2>2. start \in Nat /\ stop \in Nat /\ start <= stop /\ stop <= length /\ length \in Nat
      <3>1. PICK i \in DOMAIN symbols : Get(id) = symbols[i]
        BY <1>2, GetIsSymbol
      <3>2. SymbolsFit(symbols) /\ \A path \in DOMAIN input.lengths : input.lengths[path] \in Nat
        BY DEF TypeInv, IsInput
      <3> QED BY <1>2, <3>1, <3>2 DEF SymbolsFit, Readable
    <2>3. most \in Nat \ {0} /\ MostOf("get_symbol_source") = most
      BY ToolLimitsAreNat DEF MostOf
    <2>4. last = Min({stop, far, length})
      BY DEF LastShown
    <2>5. wanted = start..stop /\ wanted = Wanted("get_symbol_source", id)
      BY DEF Wanted
    <2>6. far \in Int /\ far = start + most - 1
      BY <2>2, <2>3
    <2>7. s = Lines(start, last) /\ partly \in BOOLEAN /\ (partly <=> last < stop)
      OBVIOUS
    <2> HIDE DEF start, stop, length, most, far, last, s, partly, wanted
    <2>8. last \in {stop, far, length} /\ last <= stop /\ last <= far
      <3>1. stop \in Int /\ far \in Int /\ length \in Int
        BY <2>2, <2>6
      <3>2. /\ Min({stop, far, length}) \in {stop, far, length}
            /\ Min({stop, far, length}) <= stop /\ Min({stop, far, length}) <= far
        BY <3>1, MinTriple, Zenon
      <3> QED BY <2>4, <3>2, Zenon
    <2>9. last \in Int /\ last >= start /\ last - start + 1 <= most
      BY <2>2, <2>3, <2>6, <2>8
    <2>10. /\ ToSet(s) = start..last /\ Cardinality(ToSet(s)) = Len(s)
           /\ Len(s) = IF last < start THEN 0 ELSE last - start + 1
      BY <2>2, <2>7, <2>9, LinesShown
    <2>11. Len(s) \in Nat /\ Len(s) <= most
      BY <2>2, <2>3, <2>9, <2>10
    <2>12. ToSet(s) \subseteq wanted /\ (~partly => wanted \subseteq ToSet(s)) /\ IsFiniteSet(wanted)
      <3>1. ~partly => last = stop
        BY <2>2, <2>7, <2>8, <2>9
      <3>2. IsFiniteSet(start..stop)
        BY <2>2, FS_Interval
      <3> QED BY <2>2, <2>5, <2>8, <2>9, <2>10, <3>1, <3>2
    <2>13. AnswerRight(Reply("get_symbol_source", id, s, 0, 0, partly))
      BY <2>3, <2>5, <2>7, <2>10, <2>11, <2>12, WholeAnswer
    <2> QED BY <2>1, <2>13
  <1> QED BY <1>1, <1>2

LEMMA AskRight ==
  ASSUME IInv, TypeInv, PackInv, Ask
  PROVE  AnswerRight(reply')
  <1>0. IsInput(input)
    BY DEF TypeInv
  <1>1. CASE \E path \in Paths, first \in {1, 2, 9}, last \in {NoLine, 1, 4, 9} : ReadFile(path, first, last)
    BY <1>0, <1>1, ReadFileRight
  <1>2. CASE \E id \in AskedIds : GetSymbolSource(id) \/ AskCallersOf(id) \/ AskCalleesOf(id) \/ ListTestsFor(id)
    BY <1>2, SourceRight, CallsRight, TestsRight
  <1>3. CASE \/ \E name \in {NoName} \cup {symbols[i].name : i \in DOMAIN symbols} : FindSymbol(name)
             \/ \E qualified \in {symbols[i].qualified : i \in DOMAIN symbols} : FindQualified(qualified)
    BY <1>3, FindRight
  <1>4. CASE \E glob \in Globs : SearchCode(glob)
    BY <1>0, <1>4, SearchRight
  <1>5. CASE \E path \in Paths \cup {NoPath}, changedOnly \in BOOLEAN : GetLinterFindings(path, changedOnly)
    BY <1>0, <1>5, LinterRight
  <1>6. CASE (\E id \in {0} \cup {input.rules[i].id : i \in DOMAIN input.rules} : GetRule(id)) \/ BadCall
    BY <1>6, RuleOrBadRight
  <1> QED BY <1>1, <1>2, <1>3, <1>4, <1>5, <1>6 DEF Ask

\* An answer is right of the index and the request, whatever else moves.
LEMMA AnswerStays ==
  ASSUME AnswerRight(reply'), UNCHANGED <<input, symbols, edges>>
  PROVE  AnswersRight'
  <1>1. /\ \A id : Known(id)' <=> Known(id)
        /\ \A id : Get(id)' = Get(id)
        /\ \A glob : MatchesIn(glob)' = MatchesIn(glob)
        /\ \A path, changedOnly : Selected(path, changedOnly)' = Selected(path, changedOnly)
        /\ CallEdges' = CallEdges
    BY DEF Known, Get, MatchesIn, Selected, CallEdges
  <1>2. \A tool, asked : Wanted(tool, asked)' = Wanted(tool, asked)
    BY <1>1 DEF Wanted
  <1>3. \A answer, wanted : Complete(answer, wanted)' <=> Complete(answer, wanted)
    BY DEF Complete, Order
  <1> QED BY <1>2, <1>3 DEF AnswersRight, AnswerRight, MostOf, Complete, Order

-----------------------------------------------------------------------------
(* All steps.                                                              *)

\* No tool has been asked before the pack is there.
AnswerInv == AnswersRight /\ (section # "done" => reply = NoReply)

LEMMA InitPack == Init => PackInv /\ AnswerInv
  <1> SUFFICES ASSUME Init PROVE PackInv /\ AnswerInv
    OBVIOUS
  <1>1. /\ section = "waiting" /\ touched = {} /\ queue = <<>> /\ item = 1 /\ used = 0
        /\ shown = <<>> /\ omitted = <<>> /\ pack = <<>> /\ symbols = <<>> /\ reply = NoReply
    BY DEF Init, IndexInit, PackInit
  <1>2. <<>> \in Seq(ToSet(<<>>)) /\ DOMAIN <<>> = {} /\ Len(<<>>) = 0
    <2>1. DOMAIN <<>> = {} /\ Len(<<>>) = 0 /\ IsSequence(<<>>)
      BY Emptied
    <2> QED BY <2>1, AsSequence
  <1>3. \A title : "waiting" \notin Since(title)
    BY SinceValues DEF Since
  <1>4. "waiting" \notin Loops
    BY DEF Loops
  <1>5. QueueRight(section, queue)
    BY <1>1, <1>2, <1>4 DEF QueueRight, Loops
  <1>6. LoopRight
    BY <1>1, <1>2, <1>4 DEF LoopRight
  <1>7. PackRight
    BY <1>1, <1>2, <1>3 DEF PackRight
  <1>8. PackInv
    BY <1>1, <1>5, <1>6, <1>7 DEF PackInv
  <1>9. AnswerInv
    <2>1. AnswerRight(reply)
      BY <1>1, ErrorRight DEF NoReply
    <2> QED BY <1>1, <2>1 DEF AnswerInv, AnswersRight
  <1> QED BY <1>8, <1>9

\* The innermost definition around a line is one of those around it.
LEMMA InnermostIsOne ==
  ASSUME NEW list, IsSequence(list), SymbolsFit(list), NEW among, among \subseteq DOMAIN list, among # {}
  PROVE  Innermost(list, among) \in among
  <1>1. IsFiniteSet(among) /\ among \subseteq Int
    BY PlacesFinite
  <1>2. \A i \in among : list[i].start \in Nat /\ list[i].end \in Nat
    BY DEF SymbolsFit
  <1> DEFINE a == [i \in among |-> list[i].end - list[i].start]
             b == [i \in among |-> 0]
             d == [i \in among |-> i]
             Before(y, x) == \/ Size(list[y]) < Size(list[x])
                             \/ Size(list[y]) = Size(list[x]) /\ y < x
             before == [x \in among |-> {y \in among : Before(y, x)}]
  <1>3. /\ a \in [among -> Int] /\ b \in [among -> Int] /\ d \in [among -> Int]
        /\ \A x, y \in among : d[x] = d[y] => x = y
    BY <1>1, <1>2
  <1>4. \A x, y \in among : Before(y, x) <=>
            IF a[y] # a[x] THEN a[y] < a[x] ELSE IF b[y] # b[x] THEN b[y] < b[x]
            ELSE IF b[y] # b[x] THEN b[y] < b[x] ELSE d[y] < d[x]
    BY <1>1, <1>2 DEF Size
  <1>5. before \in [among -> SUBSET among] /\ \A x, y \in among : y \in before[x] <=> Before(y, x)
    OBVIOUS
  <1>6. IsOrder(before, among)
    <2> HIDE DEF a, b, d, before, Before
    <2>1. ByKeys(before, among, a, b, b, d)
      BY <1>3, <1>4, <1>5 DEF ByKeys
    <2> QED BY <2>1, Lexicographic
  <1> HIDE DEF a, b, d, before
  <1>7. \E x \in among : \A y \in among : x = y \/ x \in before[y]
    BY <1>1, <1>6, FirstOf
  <1>8. \E i \in among : \A j \in among \ {i} : Before(i, j)
    BY <1>5, <1>7
  <1> QED BY <1>8 DEF Innermost

LEMMA BeginPack ==
  ASSUME PackInv, IInv, TypeInv, BeginReview
  PROVE  PackInv'
  <1>1. /\ section = "waiting" /\ section' = "pull_request"
        /\ touched' \subseteq ChangedPlaces(symbols, input.files)
        /\ UNCHANGED <<indexVars, input, queue, item, used, shown, omitted, pack>>
    BY DEF BeginReview
  <1>2. ChangedPlaces(symbols, input.files) \subseteq DOMAIN symbols
    <2> SUFFICES ASSUME NEW i \in ChangedPlaces(symbols, input.files) PROVE i \in DOMAIN symbols
      OBVIOUS
    <2>1. PICK path, n : i = Innermost(symbols, Around(symbols, path, n)) /\ Around(symbols, path, n) # {}
      BY DEF ChangedPlaces
    <2>2. Around(symbols, path, n) \subseteq DOMAIN symbols
      BY DEF Around
    <2>3. IsSequence(symbols) /\ SymbolsFit(symbols)
      BY DEF IInv, Sequences, TypeInv
    <2>4. i \in Around(symbols, path, n)
      BY <2>1, <2>2, <2>3, InnermostIsOne
    <2> QED BY <2>2, <2>4
  <1>3. touched' \subseteq DOMAIN symbols'
    BY <1>1, <1>2 DEF indexVars
  <1>4. /\ "pull_request" \notin Loops /\ "waiting" \notin Loops /\ "pull_request" \in ToSet(Sections)
        /\ "pull_request" # "waiting"
    BY SinceValues DEF Loops
  <1>5. queue = <<>> /\ pack = <<>>
    BY <1>1, <1>4 DEF PackInv, QueueRight
  <1>6. QueueRight(section, queue)'
    <2>1. <<>> \in Seq(ToSet(<<>>))
      BY Emptied, AsSequence
    <2>2. queue' = <<>> /\ section' = "pull_request"
      BY <1>1, <1>5
    <2> QED BY <1>4, <2>1, <2>2 DEF QueueRight, Loops
  <1>7. LoopRight'
    <2>1. LoopRight
      BY DEF PackInv
    <2>2. section = "waiting" /\ section' = "pull_request" /\ UNCHANGED <<queue, item, used, shown, omitted>>
      BY <1>1
    <2> QED BY <1>4, <2>1, <2>2 DEF LoopRight
  <1>8. PackRight'
    <2>1. pack' = <<>> /\ <<>> \in Seq(ToSet(<<>>)) /\ DOMAIN <<>> = {}
      BY <1>1, <1>5, Emptied, AsSequence
    <2>2. \A title \in {"rules", "symbols", "findings", "diff", "callers"} : section' \notin Since(title)
      BY <1>1, SinceValues
    <2> QED BY <2>1, <2>2 DEF PackRight, Since
  <1> QED BY <1>1, <1>3, <1>4, <1>6, <1>7, <1>8 DEF PackInv

\* Until the review begins there is nothing in the pack.
LEMMA IndexPack ==
  ASSUME PackInv, IInv, IndexStep, UNCHANGED packVars
  PROVE  PackInv'
  <1>1. section = "waiting"
    <2>1. indexPc # "done"
      BY DEF IndexStep, PassOver, BeginFile, FileFails, FileDone, Define, EndDefinition, Call, Import,
             PassNode, Walking, AllFiles, ResolveEdgeTargets
    <2> QED BY <2>1 DEF IInv, IndexInv
  <1>2. UNCHANGED <<section, touched, queue, item, used, shown, omitted, pack>>
    BY DEF packVars
  <1>3. touched = {} /\ pack = <<>> /\ queue = <<>> /\ LoopRight /\ "waiting" \notin Loops
    BY <1>1 DEF PackInv, QueueRight, Loops
  <1>4. QueueRight(section, queue)'
    <2>1. <<>> \in Seq(ToSet(<<>>))
      BY Emptied, AsSequence
    <2>2. queue' = <<>> /\ section' = "waiting"
      BY <1>1, <1>2, <1>3
    <2> QED BY <1>3, <2>1, <2>2 DEF QueueRight, Loops
  <1>5. LoopRight'
    BY <1>2, <1>3 DEF LoopRight
  <1>6. PackRight'
    <2>1. pack' = <<>> /\ <<>> \in Seq(ToSet(<<>>)) /\ DOMAIN <<>> = {}
      BY <1>2, <1>3, Emptied, AsSequence
    <2>2. \A title : section' \notin Since(title)
      BY <1>1, <1>2, SinceValues DEF Since
    <2> QED BY <2>1, <2>2 DEF PackRight, Since
  <1>7. touched' \subseteq DOMAIN symbols' /\ section' = "waiting" /\ touched' = {} /\ pack' = <<>>
    BY <1>1, <1>2, <1>3
  <1> QED BY <1>4, <1>5, <1>6, <1>7 DEF PackInv

LEMMA SamePack ==
  ASSUME PackInv, UNCHANGED <<indexVars, packVars>>
  PROVE  PackInv'
  <1>1. UNCHANGED <<input, touched, symbols, edges, section, queue, item, used, shown, omitted, pack>>
    BY DEF indexVars, packVars
  <1>2. QueueRight(section, queue)'
    <2>1. QueueRight(section', queue')
      BY <1>1 DEF PackInv
    <2> QED BY <1>1, <2>1, QueueFrame
  <1>3. LoopRight'
    BY <1>1 DEF PackInv, LoopRight
  <1>4. PackRight'
    BY <1>1, SamePackRight DEF PackInv
  <1> QED BY <1>1, <1>2, <1>3, <1>4 DEF PackInv

LEMMA StepPack ==
  ASSUME PackInv, IInv, TypeInv, PackStep, UNCHANGED indexVars
  PROVE  PackInv'
  BY PullRequestInv, NoRulesInv, NoDiffInv, NothingInv, LoopInv, EndLoopInv, RepoMapInv DEF PackStep

LEMMA NextPack == IInv /\ TypeInv /\ PackInv /\ [Next]_vars => PackInv'
  <1> SUFFICES ASSUME IInv, TypeInv, PackInv, [Next]_vars PROVE PackInv'
    OBVIOUS
  <1>1. CASE IndexStep /\ UNCHANGED <<packVars, reply>>
    BY <1>1, IndexPack
  <1>2. CASE BeginReview
    BY <1>2, BeginPack
  <1>3. CASE PackStep /\ UNCHANGED <<indexVars, reply>>
    BY <1>3, StepPack
  <1>4. CASE Ask
    BY <1>4, AskFrame, SamePack
  <1>5. CASE UNCHANGED vars
    BY <1>5, SamePack DEF vars
  <1> QED BY <1>1, <1>2, <1>3, <1>4, <1>5 DEF Next

LEMMA NextAnswer == IInv /\ TypeInv /\ PackInv /\ AnswerInv /\ [Next]_vars => AnswerInv'
  <1> SUFFICES ASSUME IInv, TypeInv, PackInv, AnswerInv, [Next]_vars PROVE AnswerInv'
    OBVIOUS
  <1>1. CASE Ask
    <2>1. UNCHANGED <<indexVars, packVars>>
      BY <1>1, AskFrame
    <2>2. section = "done" /\ section' = section
      BY <1>1, <2>1 DEF Ask, packVars, ReadFile, GetSymbolSource, FindSymbol, FindQualified, AskCallersOf,
         AskCalleesOf, ListTestsFor, OfSymbol, SearchCode, GetLinterFindings, GetRule, BadCall, Ready
    <2>3. UNCHANGED <<input, symbols, edges>>
      BY <2>1 DEF indexVars, packVars
    <2>4. AnswersRight'
      BY <1>1, <2>3, AskRight, AnswerStays
    <2> QED BY <2>2, <2>4 DEF AnswerInv
  <1>2. CASE UNCHANGED vars
    <2>1. AnswerRight(reply') /\ UNCHANGED <<input, symbols, edges, section, reply>>
      BY <1>2 DEF AnswerInv, AnswersRight, vars, indexVars, packVars
    <2>2. AnswersRight'
      BY <2>1, AnswerStays
    <2> QED BY <2>1, <2>2 DEF AnswerInv
  \* Any other step is taken before the first answer.
  <1>3. ASSUME reply' = NoReply PROVE AnswerInv'
    <2>1. AnswerRight(NoReply)'
      <3>1. /\ NoReply.error = TRUE /\ NoReply.shown = <<>> /\ Len(<<>>) = 0
            /\ NoReply.tool = "none" /\ MostOf("none") \in Nat
        BY ToolLimitsAreNat DEF NoReply, ToolError, MostOf
      <3> QED BY <3>1 DEF AnswerRight
    <2> QED BY <1>3, <2>1 DEF AnswerInv, AnswersRight
  <1>4. CASE BeginReview \/ (IndexStep /\ UNCHANGED <<packVars, reply>>)
             \/ (PackStep /\ UNCHANGED <<indexVars, reply>>)
    <2>1. UNCHANGED reply
      BY <1>4 DEF BeginReview
    <2>2. section # "done"
      <3>1. CASE BeginReview
        BY <3>1 DEF BeginReview
      <3>2. CASE IndexStep
        <4>1. indexPc # "done"
          BY <3>2 DEF IndexStep, PassOver, BeginFile, FileFails, FileDone, Define, EndDefinition, Call, Import,
                      PassNode, Walking, AllFiles, ResolveEdgeTargets
        <4> QED BY <4>1 DEF IInv, IndexInv
      <3>3. CASE PackStep
        BY <3>3 DEF PackStep, PullRequest, NoRules, NoDiff, Nothing, Show, PassBy, EndLoop, RepoMap, InLoop, Loops
      <3> QED BY <1>4, <3>1, <3>2, <3>3
    <2> QED BY <1>3, <2>1, <2>2 DEF AnswerInv
  <1> QED BY <1>1, <1>2, <1>4 DEF Next

-----------------------------------------------------------------------------
\* What the index knows of a file fits the file, and its edges have ends: whatever the
\* repository and whichever of its files fail.
THEOREM TypesInvariant == Spec => []TypeInv
  <1>1. Init => TypeInv
    BY InitTypes
  <1>2. IInv /\ WalkInv /\ WalkInv' /\ TypeInv /\ [Next]_vars => TypeInv'
    BY NextTypes
  <1> QED BY <1>1, <1>2, IndexInvariant, WalkInvariant, PTL DEF Spec

\* Each loop of the context pack goes over what its section owes, each once, and what it
\* shows is of that; what the built sections say they left out is what they left out
\* (context_pack.py).
THEOREM PackInvariant == Spec => []PackInv
  <1>1. Init => PackInv
    BY InitPack
  <1>2. IInv /\ TypeInv /\ PackInv /\ [Next]_vars => PackInv'
    BY NextPack
  <1> QED BY <1>1, <1>2, IndexInvariant, TypesInvariant, PTL DEF Spec

\* Whatever an agent asks a tool: the answer shows some of what was asked for, each once and
\* within the tool's limit, and what it shows and counts is all there is, unless it says
\* that there is more (retrieval/tools.py).
THEOREM AnswersAreRight == Spec => []AnswersRight
  <1>1. Init => AnswerInv
    BY InitPack
  <1>2. IInv /\ TypeInv /\ PackInv /\ AnswerInv /\ [Next]_vars => AnswerInv'
    BY NextAnswer
  <1>3. AnswerInv => AnswersRight
    BY DEF AnswerInv
  <1> QED BY <1>1, <1>2, <1>3, IndexInvariant, TypesInvariant, PackInvariant, PTL DEF Spec

\* What a section of the pack leaves out of its rules, diffs, edited functions and findings
\* is counted, that there are more callers is said, no budget is passed, and no section
\* that owes something is missing, but that of the callers where its first entry is too
\* long; the sections that say nothing of the rest name so many generated and credential
\* files, each once: for every repository and pull request, all limits and all lengths
\* (context_pack.py).
THEOREM OmissionsAreAnnounced == Spec => []OmissionsAnnounced
  <1>1. PackInv => OmissionsAnnounced
    BY SinceValues DEF PackInv, PackRight, OmissionsAnnounced
  <1> QED BY <1>1, PackInvariant, PTL

\* Every variable of the index and of the pack has its type: an edge points to a symbol
\* or to none, and a loop is never past the end of what it goes over.
THEOREM TypeCorrect == Spec => []TypeOK
  <1>1. IInv /\ WalkInv /\ TypeInv /\ PackInv => TypeOK
    <2> SUFFICES ASSUME IInv, WalkInv, TypeInv, PackInv PROVE TypeOK
      OBVIOUS
    <2>1. at \in 0 .. (IF files = <<>> THEN 0 ELSE Len(File.nodes) + 1)
      <3>1. at \in Nat /\ at <= (IF files = <<>> THEN 0 ELSE Len(File.nodes) + 1)
        BY DEF WalkInv, TypeInv
      <3>2. files # <<>> => Len(File.nodes) \in Nat
        BY NodesOf
      <3> QED BY <3>1, <3>2
    <2>2. \A i \in DOMAIN scope : scope[i] \in ToSet(fileSymbols)
      BY DEF IInv, IndexInv, OfFile, ToSet
    <2>3. \A e \in ToSet(edges) \cup ToSet(fileEdges) :
             e.kind \in {"calls", "imports", "contains"} /\ e.target \in Ids \cup {NoId}
      BY DEF TypeInv, EdgesTyped, SymbolIds, Ids, ToSet
    <2>4. filesIndexed \in Nat /\ filesFailed \in Nat /\ indexPc \in {"files", "resolve", "done"}
      BY DEF IInv, IndexInv, TypeInv
    <2>5. touched \subseteq DOMAIN symbols /\ section \in ToSet(Sections) \cup {"waiting"}
      BY DEF PackInv
    <2>6. item \in 1 .. (Len(queue) + 1) /\ used \in Nat /\ Len(shown) + Len(omitted) <= item - 1
      BY DEF PackInv, LoopRight
    <2>7. Len(shown) + Len(omitted) <= Len(queue)
      <3>1. IsSequence(queue) /\ IsSequence(shown) /\ IsSequence(omitted)
        BY PackIsSequence, AsSequence DEF PackInv, LoopRight
      <3>2. Len(queue) \in Nat /\ Len(shown) \in Nat /\ Len(omitted) \in Nat
        BY <3>1, PlacesFinite
      <3> QED BY <2>6, <3>2
    <2>8. \A i \in DOMAIN pack : pack[i].left \in Nat
      BY DEF PackInv, PackRight
    <2> QED BY <2>1, <2>2, <2>3, <2>4, <2>5, <2>6, <2>7, <2>8 DEF TypeOK
  <1> QED BY <1>1, IndexInvariant, WalkInvariant, TypesInvariant, PackInvariant, PTL
=============================================================================
