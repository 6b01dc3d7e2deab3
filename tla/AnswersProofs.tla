---------------------------- MODULE AnswersProofs ----------------------------
(***************************************************************************)
(* What is shown is an answer to what was asked, for any queries, matches,  *)
(* commits, texts, views, launchers and bounds: ContentSearch lists what    *)
(* its query found at one generation, Palette the rows of its query without *)
(* a gap, PDFPreview shows what the server still grants, MarkdownPreview    *)
(* the text of the document, and NpmInstall starts the release; the lists   *)
(* of SourceControl show the repository after an operation, which loses     *)
(* nothing the user was not asked about, and HunkActions applies a hunk to  *)
(* the diff it was chosen from.  Each part has its inductive invariant, one *)
(* lemma per action, and its theorems at the end.                           *)
(***************************************************************************)
EXTENDS NpmInstall, MarkdownPreview, ContentSearch, Palette, PDFPreview, SourceControl, HunkActions,
        FiniteSetTheorems, SequenceTheorems, TLAPS

(***************************************************************************)
(* ContentSearch                                                           *)
(***************************************************************************)

\* Files in the order of their results, and the shapes of the variables.
ResultLists == Seq(Nat)
Streams == [query : Queries, at : Nat, gen : Nat, results : ResultLists, painted : BOOLEAN]
Panels == [query : Queries \union {NoQuery}, active : BOOLEAN, files : ResultLists, loading : BOOLEAN,
           error : BOOLEAN, truncated : BOOLEAN]
SearchFolders == [gen : 1..Len(Matches[1]), indexed : BOOLEAN]
SearchTimers == [search : BOOLEAN, paint : BOOLEAN]

\* The type of each variable of ContentSearch.
SearchTypeInv ==
  /\ folder \in SearchFolders /\ panel \in Panels /\ answer \in Streams \union {NoStream}
  /\ searchTimers \in SearchTimers

\* The results read so far are the first of a list.
Leading(s, all) == Len(s) <= Len(all) /\ \A i \in 1..Len(s) : s[i] = all[i]

\* What the panel lists is the beginning of what its query found at some generation.
ListOK(p, g) ==
  p.files # <<>> => p.query \in Queries /\ \E h \in 1..g : Leading(p.files, Matches[p.query][h])

\* A list that stands is whole, or cut at the frame's limit and says so.
Whole(p, all) == p.files = IF p.truncated THEN SubSeq(all, 1, FrameLimit) ELSE all
WholeOK(p, g) ==
  p.active /\ p.query \in Queries /\ ~p.loading
  /\ ~p.error => \E h \in 1..g : Whole(p, Matches[p.query][h])

\* The stream under way is of the panel's query and of one generation; a list that
\* loads has a timer or a stream that will end it.
StreamOK(p, a, t, g) ==
  /\ a # NoStream =>
       /\ p.active /\ a.query = p.query /\ p.loading /\ a.gen <= g /\ ~t.search
       /\ a.gen = 0 => a.results = <<>> /\ a.at = 0
       /\ a.gen # 0 => /\ Leading(a.results, Matches[a.query][a.gen])
                       /\ Len(a.results) = a.at /\ a.at <= FrameLimit
  /\ t.search => p.active /\ p.query \in Queries /\ p.loading
  /\ t.paint => a # NoStream /\ a.gen # 0
  /\ p.active /\ p.loading => t.search \/ a # NoStream

\* The inductive invariant of the content search.
SearchInv ==
  /\ SearchTypeInv /\ ListOK(panel, folder.gen) /\ WholeOK(panel, folder.gen)
  /\ StreamOK(panel, answer, searchTimers, folder.gen)

\* The matches of a query at a generation are a sequence of files.
LEMMA MatchesAreFiles ==
  ASSUME SearchAssumption
  PROVE  /\ Queries = 1..Len(Matches) /\ Len(Matches) \in Nat \ {0} /\ Len(Matches[1]) \in Nat \ {0}
         /\ \A q \in Queries : \A g \in 1..Len(Matches[1]) : Matches[q][g] \in ResultLists
<1> DEFINE M == Matches
           T == Seq(ResultLists)
<1>1. M \in Seq(T) /\ M # <<>> /\ FrameLimit \in Nat /\ M[1] # <<>>
      /\ \A q \in DOMAIN M : Len(M[q]) = Len(M[1])
  BY DEF SearchAssumption, ResultLists
<1> HIDE DEF M, T
<1>2. DOMAIN M = 1..Len(M) /\ Len(M) \in Nat \ {0}
  BY <1>1, LenProperties, EmptySeq
<1>3. \A q \in 1..Len(M) : M[q] \in T
  BY <1>1, ElementOfSeq
<1>4. Len(M[1]) \in Nat \ {0}
  <2>1. M[1] \in T
    BY <1>2, <1>3
  <2> QED BY <1>1, <2>1, EmptySeq DEF T
<1>5. ASSUME NEW q \in 1..Len(M), NEW g \in 1..Len(M[1]) PROVE M[q][g] \in ResultLists
  <2>1. M[q] \in Seq(ResultLists) /\ Len(M[q]) = Len(M[1])
    BY <1>1, <1>2, <1>3 DEF T
  <2> QED BY <2>1, ElementOfSeq
<1> QED BY <1>2, <1>4, <1>5 DEF M, Queries

\* The variables by their types.
LEMMA SearchParts ==
  ASSUME SearchAssumption, SearchInv
  PROVE  /\ folder.gen \in 1..Len(Matches[1]) /\ folder.gen \in Nat \ {0}
            /\ folder.indexed \in BOOLEAN
         /\ panel \in Panels /\ panel.query \in Queries \union {NoQuery} /\ panel.active \in BOOLEAN
         /\ panel.files \in ResultLists /\ panel.loading \in BOOLEAN /\ panel.error \in BOOLEAN
         /\ panel.truncated \in BOOLEAN /\ searchTimers \in SearchTimers
         /\ searchTimers.search \in BOOLEAN /\ searchTimers.paint \in BOOLEAN
         /\ answer # NoStream => /\ answer \in Streams /\ answer.query \in Queries
                                    /\ answer.at \in Nat
                                 /\ answer.gen \in Nat /\ answer.results \in ResultLists
                                 /\ answer.painted \in BOOLEAN
<1>1. /\ folder \in SearchFolders /\ panel \in Panels /\ answer \in Streams \union {NoStream}
      /\ searchTimers \in SearchTimers
  BY DEF SearchInv, SearchTypeInv
<1>2. folder.gen \in 1..Len(Matches[1]) /\ folder.gen \in Nat \ {0} /\ folder.indexed \in BOOLEAN
  BY <1>1, MatchesAreFiles DEF SearchFolders
<1>3. /\ panel.query \in Queries \union {NoQuery} /\ panel.active \in BOOLEAN
      /\ panel.files \in ResultLists /\ panel.loading \in BOOLEAN /\ panel.error \in BOOLEAN
      /\ panel.truncated \in BOOLEAN
  BY <1>1 DEF Panels
<1>4. searchTimers.search \in BOOLEAN /\ searchTimers.paint \in BOOLEAN
  BY <1>1 DEF SearchTimers
<1>5. answer \in Streams => /\ answer.query \in Queries /\ answer.at \in Nat
                            /\ answer.gen \in Nat /\ answer.results \in ResultLists
                            /\ answer.painted \in BOOLEAN
  BY DEF Streams
<1> QED BY <1>1, <1>2, <1>3, <1>4, <1>5

\* The panel, and the stream, with another value of one field.
WithFiles(p, v) == [p EXCEPT !.files = v]
WithError(p, v) == [p EXCEPT !.error = v]
WithTruncated(p, v) == [p EXCEPT !.truncated = v]
WithLoading(p, v) == [p EXCEPT !.loading = v]
WithAt(a, v) == [a EXCEPT !.at = v]
WithGen(a, v) == [a EXCEPT !.gen = v]
WithResults(a, v) == [a EXCEPT !.results = v]
WithPainted(a, v) == [a EXCEPT !.painted = v]

\* The stream after a frame of results.
AfterFrame(a, n, g, rs) == WithPainted(WithResults(WithGen(WithAt(a, n), g), rs), TRUE)

\* The panel with other files.
LEMMA FilesSet ==
  ASSUME NEW p \in Panels, NEW v \in ResultLists
  PROVE  /\ WithFiles(p, v) \in Panels /\ WithFiles(p, v).files = v
         /\ WithFiles(p, v).query = p.query /\ WithFiles(p, v).active = p.active
         /\ WithFiles(p, v).loading = p.loading /\ WithFiles(p, v).error = p.error
         /\ WithFiles(p, v).truncated = p.truncated
BY DEF WithFiles, Panels

\* The panel with or without an error.
LEMMA ErrorSet ==
  ASSUME NEW p \in Panels, NEW v \in BOOLEAN
  PROVE  /\ WithError(p, v) \in Panels /\ WithError(p, v).error = v
         /\ WithError(p, v).query = p.query /\ WithError(p, v).active = p.active
         /\ WithError(p, v).loading = p.loading /\ WithError(p, v).files = p.files
         /\ WithError(p, v).truncated = p.truncated
BY DEF WithError, Panels

\* The panel whose list is whole or not.
LEMMA TruncatedSet ==
  ASSUME NEW p \in Panels, NEW v \in BOOLEAN
  PROVE  /\ WithTruncated(p, v) \in Panels /\ WithTruncated(p, v).truncated = v
         /\ WithTruncated(p, v).query = p.query /\ WithTruncated(p, v).active = p.active
         /\ WithTruncated(p, v).loading = p.loading /\ WithTruncated(p, v).files = p.files
         /\ WithTruncated(p, v).error = p.error
BY DEF WithTruncated, Panels

\* The panel that is loading or not.
LEMMA LoadingSet ==
  ASSUME NEW p \in Panels, NEW v \in BOOLEAN
  PROVE  /\ WithLoading(p, v) \in Panels /\ WithLoading(p, v).loading = v
         /\ WithLoading(p, v).query = p.query /\ WithLoading(p, v).active = p.active
         /\ WithLoading(p, v).truncated = p.truncated /\ WithLoading(p, v).files = p.files
         /\ WithLoading(p, v).error = p.error
BY DEF WithLoading, Panels

\* The stream after a frame.
LEMMA FrameSet ==
  ASSUME NEW a \in Streams, NEW n \in Nat, NEW g \in Nat, NEW rs \in ResultLists
  PROVE  /\ AfterFrame(a, n, g, rs) \in Streams /\ AfterFrame(a, n, g, rs).query = a.query
         /\ AfterFrame(a, n, g, rs).at = n /\ AfterFrame(a, n, g, rs).gen = g
         /\ AfterFrame(a, n, g, rs).results = rs
<1> DEFINE x == WithAt(a, n)
           y == WithGen(x, g)
           z == WithResults(y, rs)
           b == WithPainted(z, TRUE)
<1>1. x \in Streams /\ x.query = a.query /\ x.at = n
  BY DEF WithAt, Streams
<1> HIDE DEF x
<1>2. y \in Streams /\ y.query = a.query /\ y.at = n /\ y.gen = g
  BY <1>1 DEF WithGen, Streams
<1> HIDE DEF y
<1>3. z \in Streams /\ z.query = a.query /\ z.at = n /\ z.gen = g /\ z.results = rs
  BY <1>2 DEF WithResults, Streams
<1> HIDE DEF z
<1>4. b \in Streams /\ b.query = a.query /\ b.at = n /\ b.gen = g /\ b.results = rs
  BY <1>3 DEF WithPainted, Streams
<1>5. AfterFrame(a, n, g, rs) = b
  BY DEF AfterFrame, x, y, z
<1> HIDE DEF b
<1> QED BY <1>4, <1>5

\* Nothing is searched at first.
LEMMA SearchInits == ASSUME SearchAssumption, SearchInit PROVE SearchInv
<1> DEFINE p == [query |-> NoQuery, active |-> TRUE, files |-> <<>>, loading |-> FALSE,
                 error |-> FALSE, truncated |-> FALSE]
<1>1. 1 \in 1..Len(Matches[1]) /\ NoQuery \notin Queries
  BY MatchesAreFiles DEF NoQuery
<1>2. folder \in SearchFolders
  BY <1>1 DEF SearchInit, SearchFolders
<1>3. panel = p /\ answer = NoStream /\ searchTimers = [search |-> FALSE, paint |-> FALSE]
  BY DEF SearchInit
<1>4. p \in Panels
  BY EmptySeq DEF Panels, ResultLists
<1>5. p.files = <<>> /\ p.query = NoQuery /\ ~p.loading
  OBVIOUS
<1>6. searchTimers \in SearchTimers /\ ~searchTimers.search /\ ~searchTimers.paint
  BY <1>3 DEF SearchTimers
<1> HIDE DEF p
<1> QED BY <1>1, <1>2, <1>3, <1>4, <1>5, <1>6 DEF SearchInv, SearchTypeInv, ListOK, WholeOK, StreamOK

\* What the invariant says is of the generations until now.
LEMMA LaterGeneration ==
  ASSUME NEW p, NEW a, NEW t, NEW g \in Nat, NEW h \in Nat, g <= h,
         a # NoStream => a.gen \in Nat, ListOK(p, g), WholeOK(p, g), StreamOK(p, a, t, g)
  PROVE  ListOK(p, h) /\ WholeOK(p, h) /\ StreamOK(p, a, t, h)
<1>1. 1..g \subseteq 1..h
  OBVIOUS
<1>2. ListOK(p, h) /\ WholeOK(p, h)
  BY <1>1 DEF ListOK, WholeOK
<1>3. StreamOK(p, a, t, h)
  BY DEF StreamOK
<1> QED BY <1>2, <1>3

\* The folder moves on.
LEMMA FolderKeeps == ASSUME SearchAssumption, SearchInv, FolderChanges PROVE SearchInv'
<1>1. /\ folder' \in SearchFolders /\ folder'.gen \in Nat /\ folder.gen <= folder'.gen
  <2>1. folder \in SearchFolders
    BY DEF SearchInv, SearchTypeInv
  <2>2. Len(Matches[1]) \in Nat
    BY MatchesAreFiles
  <2>3. CASE folder.gen < Len(Matches[1]) /\ folder' = [folder EXCEPT !.gen = @ + 1]
    <3> DEFINE g == folder.gen
               i == folder.indexed
    <3>1. folder = [gen |-> g, indexed |-> i] /\ g \in 1..Len(Matches[1]) /\ i \in BOOLEAN
      BY <2>1, SearchParts DEF SearchFolders
    <3>2. g < Len(Matches[1]) /\ folder' = [folder EXCEPT !.gen = g + 1]
      BY <2>3
    <3> HIDE DEF g, i
    <3>3. folder' = [gen |-> g + 1, indexed |-> i]
      BY <3>1, <3>2
    <3>5. g + 1 \in 1..Len(Matches[1])
      BY <2>2, <3>1, <3>2
    <3>4. folder' \in SearchFolders /\ folder'.gen = g + 1
      BY <3>1, <3>3, <3>5 DEF SearchFolders
    <3> QED BY <2>2, <3>1, <3>4 DEF g
  <2>4. CASE folder' = [folder EXCEPT !.indexed = TRUE]
    <3> DEFINE g == folder.gen
               i == folder.indexed
    <3>1. folder = [gen |-> g, indexed |-> i] /\ g \in 1..Len(Matches[1]) /\ i \in BOOLEAN
      BY <2>1, SearchParts DEF SearchFolders
    <3> HIDE DEF g, i
    <3>2. folder' = [gen |-> g, indexed |-> TRUE]
      BY <2>4, <3>1
    <3>3. folder' \in SearchFolders /\ folder'.gen = g
      BY <2>2, <3>1, <3>2 DEF SearchFolders
    <3> QED BY <2>2, <3>1, <3>3 DEF g
  <2> QED BY <2>3, <2>4 DEF FolderChanges
<1>2. UNCHANGED <<panel, answer, searchTimers>>
  BY DEF FolderChanges
<1>3. /\ ListOK(panel, folder'.gen) /\ WholeOK(panel, folder'.gen)
      /\ StreamOK(panel, answer, searchTimers, folder'.gen)
  BY <1>1, SearchParts, LaterGeneration DEF SearchInv
<1> QED BY <1>1, <1>2, <1>3 DEF SearchInv, SearchTypeInv

\* A panel whose search begins anew, and one that is hidden.
LEMMA EffectKeeps ==
  ASSUME SearchAssumption, SearchInv, NEW p \in Panels, SearchEffect(p), UNCHANGED folder,
         p.active \/ (p.files = panel.files /\ p.query = panel.query)
  PROVE  SearchInv'
<1>0. answer' = NoStream /\ folder \in SearchFolders
  BY DEF SearchEffect, SearchInv, SearchTypeInv
<1>1. CASE ~p.active
  <2>1. panel' = p /\ searchTimers' = [search |-> FALSE, paint |-> FALSE]
    BY <1>1 DEF SearchEffect
  <2>2. searchTimers' \in SearchTimers /\ ~searchTimers'.search /\ ~searchTimers'.paint
    BY <2>1 DEF SearchTimers
  <2>3. ListOK(p, folder.gen)
    BY <1>1 DEF SearchInv, ListOK
  <2> QED BY <1>0, <1>1, <2>1, <2>2, <2>3 DEF SearchInv, SearchTypeInv, WholeOK, StreamOK
<1>2. CASE p.active
  <2> DEFINE l == p.query # NoQuery
             n == WithLoading(WithTruncated(WithError(WithFiles(p, <<>>), FALSE), FALSE), l)
  <2>1. /\ panel' = [p EXCEPT !.files = <<>>, !.error = FALSE, !.truncated = FALSE, !.loading = l]
        /\ searchTimers' = [search |-> l, paint |-> FALSE]
    BY <1>2 DEF SearchEffect
  <2>2. panel' = n
    BY <2>1 DEF WithFiles, WithError, WithTruncated, WithLoading
  <2>3. l \in BOOLEAN /\ p.query \in Queries \union {NoQuery}
    BY DEF Panels
  <2>4. n \in Panels /\ n.files = <<>> /\ n.query = p.query /\ (n.loading <=> l) /\ n.active
    <3> HIDE DEF l
    <3>1. <<>> \in ResultLists
      BY EmptySeq DEF ResultLists
    <3> DEFINE no == FALSE
               e == <<>>
               x == WithFiles(p, e)
               y == WithError(x, no)
               z == WithTruncated(y, no)
    <3>a. no \in BOOLEAN /\ n = WithLoading(z, l) /\ e \in ResultLists
      BY <3>1
    <3> HIDE DEF no, n, e
    <3>b. x \in Panels /\ x.files = e /\ x.query = p.query /\ x.active = p.active
      BY <3>a, FilesSet
    <3> HIDE DEF x
    <3>c. y \in Panels /\ y.files = e /\ y.query = p.query /\ y.active = p.active
      BY <3>a, <3>b, ErrorSet
    <3> HIDE DEF y
    <3>d. z \in Panels /\ z.files = e /\ z.query = p.query /\ z.active = p.active
      BY <3>a, <3>c, TruncatedSet
    <3> HIDE DEF z
    <3>2. /\ n \in Panels /\ n.files = e /\ n.query = p.query /\ n.loading = l
          /\ n.active = p.active
      BY <2>3, <3>a, <3>d, LoadingSet
    <3> QED BY <1>2, <3>2 DEF e
  <2>5. searchTimers' \in SearchTimers /\ (searchTimers'.search <=> l) /\ ~searchTimers'.paint
    BY <2>1, <2>3 DEF SearchTimers
  <2>6. NoQuery \notin Queries
    BY MatchesAreFiles DEF NoQuery
  <2> HIDE DEF n
  <2> QED BY <1>0, <2>2, <2>3, <2>4, <2>5, <2>6 DEF SearchInv, SearchTypeInv, ListOK, WholeOK,
      StreamOK
<1> QED BY <1>1, <1>2

\* The search that was due begins.
LEMMA StartKeeps == ASSUME SearchAssumption, SearchInv, SearchStarts PROVE SearchInv'
<1> DEFINE a == [query |-> panel.query, at |-> 0, gen |-> 0, results |-> <<>>, painted |-> FALSE]
<1>1. panel.active /\ panel.query \in Queries /\ panel.loading
  BY DEF SearchStarts, SearchInv, StreamOK
<1>2. /\ a \in Streams /\ a # NoStream /\ a.query = panel.query /\ a.gen = 0
      /\ a.results = <<>> /\ a.at = 0
  <2>1. a \in Streams
    BY <1>1, EmptySeq DEF Streams, ResultLists
  <2>2. a.query # NoStream.query
    BY <1>1, MatchesAreFiles DEF NoStream, NoQuery
  <2> QED BY <2>1, <2>2
<1>3. answer' = a /\ folder' = folder /\ panel' = panel
      /\ searchTimers' = [searchTimers EXCEPT !.search = FALSE]
  BY DEF SearchStarts
<1> HIDE DEF a
<1>4. searchTimers' \in SearchTimers /\ ~searchTimers'.search
      /\ searchTimers'.paint = searchTimers.paint
  BY <1>3, SearchParts DEF SearchTimers
<1>5. ~searchTimers.paint
  BY DEF SearchStarts, SearchInv, StreamOK
<1>6. StreamOK(panel, a, searchTimers', folder.gen)
  BY <1>1, <1>2, <1>4, <1>5, SearchParts DEF StreamOK
<1> QED BY <1>2, <1>3, <1>4, <1>6 DEF SearchInv, SearchTypeInv

\* A stream that fails leaves nothing under way.
LEMMA FailKeeps ==
  ASSUME SearchAssumption, SearchInv, answer # NoStream, NEW keep \in BOOLEAN, Fails(keep),
         UNCHANGED folder
  PROVE  SearchInv'
<1> DEFINE fs == IF keep THEN answer.results ELSE <<>>
           p == WithFiles(WithLoading(WithError(panel, TRUE), FALSE), fs)
<1>1. /\ panel' = [panel EXCEPT !.error = TRUE, !.loading = FALSE, !.files = fs]
      /\ answer' = NoStream /\ searchTimers' = [searchTimers EXCEPT !.paint = FALSE]
  BY DEF Fails
<1>2. fs \in ResultLists
  BY SearchParts, EmptySeq DEF ResultLists
<1>3. panel' = p
  BY <1>1 DEF WithFiles, WithError, WithLoading
<1>4. p \in Panels /\ p.query = panel.query /\ p.files = fs /\ ~p.loading /\ p.error
  <2> HIDE DEF fs
  <2> DEFINE no == FALSE
             yes == TRUE
             x == WithError(panel, yes)
             y == WithLoading(x, no)
  <2>1. no \in BOOLEAN /\ yes \in BOOLEAN /\ p = WithFiles(y, fs)
    OBVIOUS
  <2> HIDE DEF no, yes, p
  <2>2. x \in Panels /\ x.query = panel.query /\ x.error = yes
    BY <2>1, SearchParts, ErrorSet
  <2> HIDE DEF x
  <2>3. y \in Panels /\ y.query = panel.query /\ y.error = yes /\ y.loading = no
    BY <2>1, <2>2, LoadingSet
  <2> HIDE DEF y
  <2>4. p \in Panels /\ p.query = panel.query /\ p.error = yes /\ p.loading = no /\ p.files = fs
    BY <1>2, <2>1, <2>3, FilesSet
  <2> QED BY <2>4 DEF no, yes
<1>5. ListOK(p, folder.gen)
  <2>1. CASE ~keep
    BY <1>4, <2>1 DEF ListOK
  <2>2. CASE keep
    <3>1. answer.gen \in Nat /\ answer.gen <= folder.gen /\ answer.query = panel.query
          /\ panel.query \in Queries
      BY SearchParts DEF SearchInv, StreamOK
    <3>2. answer.gen = 0 => answer.results = <<>>
      BY DEF SearchInv, StreamOK
    <3>3. answer.gen # 0 => Leading(answer.results, Matches[panel.query][answer.gen])
      BY <3>1 DEF SearchInv, StreamOK
    <3>4. answer.gen # 0 => answer.gen \in 1..folder.gen
      BY <3>1, SearchParts
    <3>5. p.files = answer.results /\ p.query = panel.query
      BY <1>4, <2>2
    <3> HIDE DEF p
    <3> QED BY <3>1, <3>2, <3>3, <3>4, <3>5 DEF ListOK
  <2> QED BY <2>1, <2>2
<1> HIDE DEF p
<1>6. searchTimers' \in SearchTimers /\ ~searchTimers'.paint
      /\ searchTimers'.search = searchTimers.search
  BY <1>1, SearchParts DEF SearchTimers
<1>7. ~searchTimers.search
  BY DEF SearchInv, StreamOK
<1> QED BY <1>1, <1>3, <1>4, <1>5, <1>6, <1>7 DEF SearchInv, SearchTypeInv, WholeOK, StreamOK

\* The smaller of two numbers.
LEMMA SmallerOfTwo ==
  ASSUME NEW a \in Nat, NEW b \in Nat
  PROVE  Min({a, b}) = IF a <= b THEN a ELSE b
<1> DEFINE m == IF a <= b THEN a ELSE b
<1>1. m \in {a, b} /\ \A y \in {a, b} : m <= y
  OBVIOUS
<1>2. Min({a, b}) \in {a, b} /\ \A y \in {a, b} : Min({a, b}) <= y
  BY <1>1 DEF Min
<1> QED BY <1>2

\* A list that leads another, with one file more.
LEMMA OneMore ==
  ASSUME NEW s \in ResultLists, NEW all \in ResultLists, Leading(s, all), Len(s) < Len(all)
  PROVE  /\ s \o <<all[Len(s) + 1]>> \in ResultLists /\ Len(s \o <<all[Len(s) + 1]>>) = Len(s) + 1
         /\ Leading(s \o <<all[Len(s) + 1]>>, all)
<1> DEFINE n == Len(s)
           x == all[n + 1]
           r == s \o <<x>>
<1>1. n \in Nat /\ Len(all) \in Nat /\ \A i \in 1..n : s[i] = all[i]
  BY LenProperties DEF ResultLists, Leading
<1>2. n + 1 \in 1..Len(all)
  BY <1>1
<1>3. x \in Nat
  BY <1>2, ElementOfSeq DEF ResultLists
<1> HIDE DEF x
<1>4. <<x>> \in Seq(Nat) /\ Len(<<x>>) = 1 /\ <<x>>[1] = x
  BY <1>3
<1>5. /\ r \in Seq(Nat) /\ Len(r) = n + 1
      /\ \A i \in 1..n + 1 : r[i] = IF i <= n THEN s[i] ELSE <<x>>[i - n]
  BY <1>4, ConcatProperties DEF ResultLists
<1>6. \A i \in 1..n + 1 : r[i] = all[i]
  <2> TAKE i \in 1..n + 1
  <2>1. CASE i <= n
    BY <1>1, <1>5, <2>1
  <2>2. CASE i = n + 1
    BY <1>1, <1>4, <1>5, <2>2 DEF x
  <2> QED BY <1>1, <2>1, <2>2
<1> HIDE DEF r
<1>7. r \in ResultLists /\ Len(r) = n + 1 /\ Leading(r, all)
  BY <1>1, <1>2, <1>5, <1>6 DEF ResultLists, Leading
<1> QED BY <1>7 DEF r, x

\* The whole list, or as much of it as the server sends.
LEMMA WholeList ==
  ASSUME NEW s \in ResultLists, NEW all \in ResultLists, Leading(s, all), FrameLimit \in Nat,
         Len(s) = IF FrameLimit <= Len(all) THEN FrameLimit ELSE Len(all)
  PROVE  s = IF Len(all) > FrameLimit THEN SubSeq(all, 1, FrameLimit) ELSE all
<1>1. Len(s) \in Nat /\ Len(all) \in Nat /\ \A i \in 1..Len(s) : s[i] = all[i]
  BY LenProperties DEF ResultLists, Leading
<1>2. CASE Len(all) <= FrameLimit
  <2>1. Len(s) = Len(all)
    BY <1>1, <1>2
  <2>2. s = all
    BY <1>1, <2>1, SeqEqual DEF ResultLists
  <2> QED BY <1>1, <1>2, <2>2
<1>3. CASE Len(all) > FrameLimit
  <2> DEFINE u == SubSeq(all, 1, FrameLimit)
  <2>1. \A i \in 1..FrameLimit : all[i] \in Nat
    BY <1>1, <1>3, ElementOfSeq DEF ResultLists
  <2>2. u \in Seq(Nat) /\ Len(u) = FrameLimit /\ \A i \in 1..FrameLimit : u[i] = all[i]
    BY <1>1, <1>3 DEF ResultLists
  <2> HIDE DEF u
  <2>3. s = u
    <3>1. s \in Seq(Nat) /\ Len(s) = Len(u) /\ \A i \in 1..Len(s) : s[i] = u[i]
      BY <1>1, <1>3, <2>2 DEF ResultLists
    <3> QED BY <2>2, <3>1, SeqEqual
  <2> QED BY <1>3, <2>3 DEF u
<1> QED BY <1>1, <1>2, <1>3

\* A batch that is not the last, and the last.
LEMMA FrameKeeps == ASSUME SearchAssumption, SearchInv, FrameArrives PROVE SearchInv'
<1> DEFINE all == Found(answer.query)
           n == answer.at
           limit == Min({FrameLimit, Len(all)})
           f == Frame(answer)
           rs == answer.results \o f.results
           g == folder.gen
<1>1. /\ answer # NoStream /\ answer \in Streams /\ answer.query \in Queries /\ n \in Nat
      /\ answer.gen \in Nat /\ answer.results \in ResultLists /\ answer.painted \in BOOLEAN
  BY SearchParts DEF FrameArrives
<1>2. /\ panel.active /\ panel.query = answer.query /\ panel.loading /\ answer.gen <= g
      /\ ~searchTimers.search /\ (answer.gen = 0 => answer.results = <<>> /\ n = 0)
      /\ answer.gen # 0 => /\ Leading(answer.results, Matches[answer.query][answer.gen])
                           /\ Len(answer.results) = n /\ n <= FrameLimit
  BY <1>1 DEF SearchInv, StreamOK
<1>3. UNCHANGED folder
  BY DEF FrameArrives
<1>4. CASE Fails(FALSE)
  BY <1>1, <1>3, <1>4, FailKeeps
<1>5. CASE answer.gen \in {0, f.gen} /\ (IF f.done THEN SearchEnds(f, rs) ELSE BatchArrives(f, rs))
  <2>1. /\ all \in ResultLists /\ all = Matches[panel.query][g] /\ Len(all) \in Nat /\ g \in Nat \ {0}
        /\ FrameLimit \in Nat
    <3>1. all = Matches[panel.query][g] /\ FrameLimit \in Nat
      BY <1>2 DEF Found, SearchAssumption
    <3>2. all \in ResultLists /\ g \in Nat \ {0}
      BY <1>1, <1>2, <3>1, MatchesAreFiles, SearchParts
    <3> QED BY <3>1, <3>2, LenProperties DEF ResultLists
  <2>2. /\ f.gen = g /\ f.results = (IF n < limit THEN <<all[n + 1]>> ELSE <<>>)
        /\ (f.done <=> n + 1 > limit) /\ f.complete = folder.indexed
           /\ (f.truncated <=> Len(all) > FrameLimit)
        /\ f.truncated \in BOOLEAN
    <3> DEFINE u == IF n < limit THEN <<all[n + 1]>> ELSE <<>>
               d == n + 1 > limit
               i == folder.indexed
               t == Len(all) > FrameLimit
    <3>1. f = [gen |-> g, results |-> u, done |-> d, complete |-> i, truncated |-> t]
      BY DEF Frame
    <3>2. d \in BOOLEAN /\ t \in BOOLEAN
      OBVIOUS
    <3> HIDE DEF u, d, i, t, f
    <3>3. f.gen = g /\ f.results = u /\ f.done = d /\ f.complete = i /\ f.truncated = t
      BY <3>1
    <3> QED BY <3>2, <3>3 DEF u, d, i, t
  <2>3. limit = (IF FrameLimit <= Len(all) THEN FrameLimit ELSE Len(all)) /\ limit \in Nat
    <3> HIDE DEF all
    <3> QED BY <2>1, SmallerOfTwo
  <2>4. Leading(answer.results, all) /\ Len(answer.results) = n /\ n <= limit
    <3>1. CASE answer.gen = 0
      <4>1. answer.results = <<>> /\ n = 0 /\ Len(<<>>) = 0
        BY <1>2, <3>1
      <4> HIDE DEF limit, all
      <4> QED BY <2>1, <2>3, <4>1 DEF Leading
    <3>2. CASE answer.gen # 0
      <4>1. answer.gen = g
        BY <1>5, <2>2, <3>2
      <4>2. Leading(answer.results, all) /\ Len(answer.results) = n /\ n <= FrameLimit
        BY <1>2, <2>1, <3>2, <4>1
      <4>3. n <= Len(all)
        BY <4>2 DEF Leading
      <4> HIDE DEF limit, all
      <4> QED BY <2>1, <2>3, <4>2, <4>3
    <3> QED BY <3>1, <3>2
  <2> HIDE DEF f, limit, all
  <2>5. CASE n < limit
    <3>1. n < Len(all) /\ n + 1 <= FrameLimit /\ ~f.done
      <4>1. n + 1 <= limit /\ n < limit
        BY <1>1, <2>3, <2>5
      <4>2. ~f.done
        BY <1>1, <2>2, <2>3, <4>1
      <4>0. FrameLimit \in Nat /\ Len(all) \in Nat
        BY <2>1
      <4>3. limit <= Len(all) /\ limit <= FrameLimit
        <5>1. CASE FrameLimit <= Len(all)
          BY <2>3, <4>0, <5>1
        <5>2. CASE ~(FrameLimit <= Len(all))
          BY <2>3, <4>0, <5>2
        <5> QED BY <5>1, <5>2
      <4>4. limit \in Nat /\ Len(all) \in Nat /\ FrameLimit \in Nat /\ n \in Nat
        BY <1>1, <2>1, <2>3
      <4> HIDE DEF n
      <4>5. n < Len(all) /\ n + 1 <= FrameLimit
        BY <4>1, <4>3, <4>4
      <4> QED BY <4>2, <4>5
    <3>2. rs \in ResultLists /\ Len(rs) = n + 1 /\ Leading(rs, all)
      <4>1. rs = answer.results \o <<all[Len(answer.results) + 1]>>
        BY <2>2, <2>4, <2>5
      <4>2. Len(answer.results) < Len(all)
        BY <2>4, <3>1
      <4> HIDE DEF rs
      <4> QED BY <1>1, <2>1, <2>4, <4>1, <4>2, OneMore
    <3> HIDE DEF rs
    <3>3. BatchArrives(f, rs)
      BY <1>5, <3>1
    <3>4. answer' = [answer EXCEPT !.at = n + 1, !.gen = g, !.results = rs, !.painted = TRUE]
      BY <2>2, <3>3 DEF BatchArrives
    <3> DEFINE a == AfterFrame(answer, n + 1, g, rs)
    <3>5. answer' = a
      BY <3>4 DEF AfterFrame, WithAt, WithGen, WithResults, WithPainted
    <3>6. /\ a \in Streams /\ a.query = panel.query /\ a.at = n + 1 /\ a.gen = g /\ a.results = rs
      <4>1. n + 1 \in Nat /\ g \in Nat
        BY <1>1, <2>1
      <4> DEFINE m == n + 1
      <4>2. a = AfterFrame(answer, m, g, rs) /\ m = n + 1
        OBVIOUS
      <4>3. m \in Nat /\ g \in Nat
        BY <4>1
      <4> HIDE DEF a, m, g
      <4>4. a \in Streams /\ a.query = answer.query /\ a.at = m /\ a.gen = g /\ a.results = rs
        <5>1. answer \in Streams /\ rs \in ResultLists /\ m \in Nat /\ g \in Nat
          BY <1>1, <3>2, <4>3
        <5>2. /\ AfterFrame(answer, m, g, rs) \in Streams
              /\ AfterFrame(answer, m, g, rs).query = answer.query
              /\ AfterFrame(answer, m, g, rs).at = m /\ AfterFrame(answer, m, g, rs).gen = g
              /\ AfterFrame(answer, m, g, rs).results = rs
          BY ONLY <5>1, FrameSet
        <5> QED BY <4>2, <5>2
      <4> QED BY <1>2, <4>2, <4>4
    <3> HIDE DEF a
    <3>7. a # NoStream
      <4>1. a.query # NoStream.query
        BY <1>1, <1>2, <3>6, MatchesAreFiles DEF NoStream, NoQuery
      <4> QED BY <4>1
    <3>8. Leading(a.results, Matches[panel.query][g]) /\ Len(a.results) = a.at /\ a.at <= FrameLimit
      BY <2>1, <3>1, <3>2, <3>6
    <3>9. CASE answer.painted
      <4>1. searchTimers' = [searchTimers EXCEPT !.paint = TRUE] /\ panel' = panel
        BY <3>3, <3>9 DEF BatchArrives
      <4>2. searchTimers' \in SearchTimers /\ searchTimers'.search = searchTimers.search
        BY <4>1, SearchParts DEF SearchTimers
      <4>3. StreamOK(panel, a, searchTimers', g)
        BY <1>2, <2>1, <3>6, <3>7, <3>8, <4>2 DEF StreamOK
      <4> QED BY <1>3, <3>5, <3>6, <4>1, <4>2, <4>3 DEF SearchInv, SearchTypeInv
    <3>10. CASE ~answer.painted
      <4>1. searchTimers' = searchTimers /\ panel' = [panel EXCEPT !.files = rs]
        BY <3>3, <3>10 DEF BatchArrives
      <4>2. /\ panel' \in Panels /\ panel'.files = rs /\ panel'.query = panel.query
            /\ panel'.active = panel.active /\ panel'.loading = panel.loading
        BY <3>2, <4>1, SearchParts DEF Panels
      <4>3. StreamOK(panel', a, searchTimers', g)
        BY <1>2, <2>1, <3>6, <3>7, <3>8, <4>1, <4>2 DEF StreamOK
      <4>4. ListOK(panel', g) /\ WholeOK(panel', g)
        <5>1. panel.query \in Queries /\ Leading(rs, Matches[panel.query][g]) /\ g \in 1..g
          BY <1>1, <1>2, <2>1, <3>2
        <5>2. ListOK(panel', g)
          BY <1>2, <4>2, <5>1 DEF ListOK
        <5>3. WholeOK(panel', g)
          BY <1>2, <4>2, <5>1 DEF WholeOK
        <5> QED BY <5>2, <5>3
      <4> QED BY <1>3, <3>5, <3>6, <4>1, <4>2, <4>3, <4>4 DEF SearchInv, SearchTypeInv
    <3> QED BY <1>1, <3>9, <3>10
  <2>6. CASE ~(n < limit)
    <3>1. n = limit /\ f.done /\ f.results = <<>>
      BY <1>1, <2>2, <2>3, <2>4, <2>6
    <3>2. rs = answer.results
      BY <1>1, <3>1, ConcatEmptySeq DEF ResultLists
    <3>3. SearchEnds(f, answer.results)
      BY <1>5, <3>1, <3>2
    <3> DEFINE again == ~f.complete /\ ~f.truncated
               w == answer.results
               t == f.truncated
               p == WithLoading(WithTruncated(WithFiles(panel, w), t), again)
    <3>4. /\ panel' = [panel EXCEPT !.files = w, !.truncated = t, !.loading = again]
          /\ searchTimers' = [search |-> again, paint |-> FALSE] /\ answer' = NoStream
      BY <3>3 DEF SearchEnds
    <3>5. panel' = p
      BY <3>4 DEF WithFiles, WithTruncated, WithLoading
    <3>6. again \in BOOLEAN /\ t \in BOOLEAN
      BY <2>2
    <3>7. /\ p \in Panels /\ p.files = w /\ p.query = panel.query /\ p.active = panel.active
          /\ (p.loading <=> again) /\ p.truncated = t
      <4> HIDE DEF again, t
      <4>1. w \in ResultLists
        BY <1>1
      <4> HIDE DEF w
      <4>2. /\ p \in Panels /\ p.files = w /\ p.query = panel.query /\ p.active = panel.active
            /\ p.loading = again /\ p.truncated = t
        <5> DEFINE x == WithFiles(panel, w)
                   y == WithTruncated(x, t)
        <5>1. p = WithLoading(y, again)
          OBVIOUS
        <5> HIDE DEF p
        <5>2. x \in Panels /\ x.files = w /\ x.query = panel.query /\ x.active = panel.active
          BY <4>1, SearchParts, FilesSet
        <5> HIDE DEF x
        <5>3. /\ y \in Panels /\ y.files = w /\ y.query = panel.query /\ y.active = panel.active
              /\ y.truncated = t
          BY <3>6, <5>2, TruncatedSet
        <5> HIDE DEF y
        <5> QED BY <3>6, <5>1, <5>3, LoadingSet
      <4> QED BY <3>6, <4>2
    <3>8. searchTimers' \in SearchTimers /\ (searchTimers'.search <=> again) /\ ~searchTimers'.paint
      BY <3>4, <3>6 DEF SearchTimers
    <3> HIDE DEF p, again
    <3>9. Whole(p, Matches[p.query][g])
      <4>1. Len(w) = IF FrameLimit <= Len(all) THEN FrameLimit ELSE Len(all)
        BY <2>3, <2>4, <3>1
      <4>2. w = IF Len(all) > FrameLimit THEN SubSeq(all, 1, FrameLimit) ELSE all
        <5> HIDE DEF w
        <5>1. w \in ResultLists /\ Leading(w, all)
          BY <1>1, <2>4 DEF w
        <5> QED BY <2>1, <4>1, <5>1, WholeList
      <4>3. t <=> Len(all) > FrameLimit
        BY <2>2
      <4>4. p.files = w /\ p.query = panel.query /\ p.truncated = t /\ all = Matches[panel.query][g]
        BY <2>1, <3>7
      <4> HIDE DEF w, t, all
      <4>5. Whole(p, all)
        BY <4>2, <4>3, <4>4 DEF Whole
      <4> QED BY <4>4, <4>5
    <3>10. ListOK(p, g) /\ WholeOK(p, g) /\ StreamOK(p, NoStream, searchTimers', g)
      <4>1. panel.query \in Queries /\ Leading(w, Matches[panel.query][g]) /\ g \in 1..g
        BY <1>1, <1>2, <2>1, <2>4
      <4>2. ListOK(p, g)
        BY <3>7, <4>1 DEF ListOK
      <4>3. WholeOK(p, g)
        BY <3>9, <4>1 DEF WholeOK
      <4>4. StreamOK(p, NoStream, searchTimers', g)
        BY <1>2, <3>7, <3>8, <4>1 DEF StreamOK
      <4> QED BY <4>2, <4>3, <4>4
    <3> QED BY <1>3, <3>4, <3>5, <3>7, <3>8, <3>10 DEF SearchInv, SearchTypeInv
  <2> QED BY <2>5, <2>6
<1> QED BY <1>4, <1>5 DEF FrameArrives

\* The later batches are painted together.
LEMMA PaintKeeps == ASSUME SearchAssumption, SearchInv, Paint PROVE SearchInv'
<1> DEFINE rs == answer.results
<1>1. /\ answer # NoStream /\ answer.gen # 0 /\ answer.query = panel.query /\ panel.loading
      /\ Leading(rs, Matches[panel.query][answer.gen]) /\ answer.gen <= folder.gen
  BY DEF Paint, SearchInv, StreamOK
<1>2. rs \in ResultLists /\ panel.query \in Queries /\ answer.gen \in 1..folder.gen
  BY <1>1, SearchParts
<1>3. /\ panel' = [panel EXCEPT !.files = rs] /\ searchTimers' = [searchTimers EXCEPT !.paint = FALSE]
      /\ UNCHANGED <<folder, answer>>
  BY DEF Paint
<1>4. /\ panel' \in Panels /\ panel'.files = rs /\ panel'.query = panel.query
      /\ panel'.active = panel.active /\ panel'.loading = panel.loading
  BY <1>2, <1>3, SearchParts DEF Panels
<1>5. searchTimers' \in SearchTimers /\ ~searchTimers'.paint
      /\ searchTimers'.search = searchTimers.search
  BY <1>3, SearchParts DEF SearchTimers
<1>6. ListOK(panel', folder.gen) /\ WholeOK(panel', folder.gen)
  BY <1>1, <1>2, <1>4 DEF ListOK, WholeOK
<1>7. StreamOK(panel', answer, searchTimers', folder.gen)
  BY <1>4, <1>5 DEF SearchInv, StreamOK
<1> QED BY <1>3, <1>4, <1>5, <1>6, <1>7 DEF SearchInv, SearchTypeInv

\* Every step of the search keeps the invariant.
LEMMA SearchSteps ==
  ASSUME SearchAssumption, SearchInv, [SearchNext]_searchVars
  PROVE  SearchInv'
<1>1. CASE TypeText
  <2>1. PICK q \in Queries \union {NoQuery} : panel.active /\ Change([panel EXCEPT !.query = q])
    BY <1>1 DEF TypeText
  <2> DEFINE p == [panel EXCEPT !.query = q]
  <2>2. p \in Panels /\ p.active = panel.active
    BY SearchParts DEF Panels
  <2>3. SearchEffect(p) /\ UNCHANGED folder
    BY <2>1 DEF Change
  <2> HIDE DEF p
  <2> QED BY <2>1, <2>2, <2>3, EffectKeeps
<1>2. CASE RefreshSearch
  <2>1. SearchEffect(panel) /\ UNCHANGED folder
    BY <1>2 DEF RefreshSearch, Change
  <2> QED BY <2>1, SearchParts, EffectKeeps
<1>3. CASE \E active \in BOOLEAN : ShowPanel(active)
  <2>1. PICK active \in BOOLEAN : ShowPanel(active)
    BY <1>3
  <2> DEFINE p == [panel EXCEPT !.active = active]
  <2>2. p \in Panels /\ p.files = panel.files /\ p.query = panel.query
    BY SearchParts DEF Panels
  <2>3. SearchEffect(p) /\ UNCHANGED folder
    BY <2>1 DEF ShowPanel, Change
  <2> HIDE DEF p
  <2> QED BY <2>2, <2>3, EffectKeeps
<1>4. CASE \E timeout \in BOOLEAN : StreamFails(timeout)
  <2>1. PICK timeout \in BOOLEAN : StreamFails(timeout)
    BY <1>4
  <2>2. answer # NoStream /\ Fails(timeout) /\ UNCHANGED folder
    BY <2>1 DEF StreamFails
  <2> QED BY <2>2, FailKeeps
<1>5. CASE DroppedArrives \/ UNCHANGED searchVars
  <2>1. UNCHANGED <<folder, panel, answer, searchTimers>>
    BY <1>5 DEF DroppedArrives, searchVars
  <2> QED BY <2>1 DEF SearchInv, SearchTypeInv
<1> QED
  BY <1>1, <1>2, <1>3, <1>4, <1>5, FolderKeeps, StartKeeps, FrameKeeps, PaintKeeps DEF SearchNext

\* The list is of the query in the box, and whole or said not to be.
LEMMA SearchImplies == ASSUME SearchAssumption, SearchInv PROVE FilesAreOfQuery
<1>1. ASSUME panel.files # <<>>
      PROVE  \E g \in 1..folder.gen : IsPrefix(panel.files, Matches[panel.query][g])
  <2>1. panel.query \in Queries
        /\ \E h \in 1..folder.gen : Leading(panel.files, Matches[panel.query][h])
    BY <1>1 DEF SearchInv, ListOK
  <2>2. PICK h \in 1..folder.gen : Leading(panel.files, Matches[panel.query][h])
    BY <2>1
  <2> DEFINE s == panel.files
             all == Matches[panel.query][h]
  <2>3. s \in Seq(Nat) /\ all \in Seq(Nat)
    <3>1. h \in 1..Len(Matches[1]) /\ panel.query \in Queries
      BY <2>1, MatchesAreFiles, SearchParts
    <3> QED BY <3>1, MatchesAreFiles, SearchParts DEF ResultLists
  <2>4. Leading(s, all)
    BY <2>2
  <2> HIDE DEF s, all
  <2>5. Len(s) \in Nat /\ Len(s) <= Len(all) /\ Len(all) \in Nat /\ \A i \in 1..Len(s) : s[i] = all[i]
    BY <2>3, <2>4, LenProperties DEF Leading
  <2>6. SubSeq(s, 1, Len(s)) = SubSeq(all, 1, Len(s))
    <3> DEFINE u == SubSeq(s, 1, Len(s))
               v == SubSeq(all, 1, Len(s))
    <3>1. u \in Seq(Nat) /\ Len(u) = Len(s) /\ \A i \in 1..Len(s) : u[i] = s[i]
      <4>1. \A i \in 1..Len(s) : s[i] \in Nat
        BY <2>3, ElementOfSeq
      <4> QED BY <2>3, <2>5, <4>1
    <3>2. v \in Seq(Nat) /\ Len(v) = Len(s) /\ \A i \in 1..Len(s) : v[i] = all[i]
      <4>1. \A i \in 1..Len(s) : i \in 1..Len(all) /\ all[i] \in Nat
        <5>1. \A i \in 1..Len(s) : i \in 1..Len(all)
          BY <2>5
        <5> QED BY <2>3, <5>1, ElementOfSeq
      <4> QED BY <2>3, <2>5, <4>1
    <3> HIDE DEF u, v
    <3>3. Len(u) = Len(v) /\ \A i \in 1..Len(u) : u[i] = v[i]
      BY <2>5, <3>1, <3>2
    <3>4. u = v
      BY <3>1, <3>2, <3>3, SeqEqual
    <3> QED BY <3>4 DEF u, v
  <2>7. IsPrefix(s, all)
    BY <2>5, <2>6 DEF IsPrefix
  <2> QED BY <2>7 DEF s, all
<1>2. ASSUME panel.active, panel.query # NoQuery, ~panel.loading, ~panel.error
      PROVE  \E g \in 1..folder.gen : Whole(panel, Matches[panel.query][g])
  BY <1>2, SearchParts DEF SearchInv, WholeOK
<1>3. panel.active /\ panel.loading => searchTimers.search \/ answer # NoStream
  BY DEF SearchInv, StreamOK
<1> QED BY <1>1, <1>2, <1>3 DEF FilesAreOfQuery, Whole

(***************************************************************************)
(* Palette                                                                 *)
(***************************************************************************)

\* What may be typed, and the shapes of the variables.
Typeable == CommitQueries \union FileQueries \union {NothingTyped}
CommitPages == [query : CommitQueries, gen : Nat \ {0}, more : BOOLEAN, rows : Seq(Nat)]
CommitStates == [page : CommitPages \union {NoAnswer}, skip : Nat, loading : BOOLEAN, error : BOOLEAN]
FindStates == [query : FileQueries \union {NothingTyped}, count : Nat, complete : BOOLEAN,
               loading : BOOLEAN, error : BOOLEAN]
CommitAsks == [query : CommitQueries, skip : Nat]
FileAsks == [query : FileQueries, gen : Nat]
Askings == [commits : CommitAsks \union {NoAnswer}, files : FileAsks \union {NoAnswer}]
Boxes == [open : BOOLEAN, query : Typeable, row : Nat \ {0}, sought : Typeable]

\* The type of each variable of Palette.
PaletteTypeInv ==
  /\ served \in [gen : Nat \ {0}, indexed : BOOLEAN]
  /\ box \in Boxes /\ commits \in CommitStates /\ finds \in FindStates /\ asked \in Askings

\* The selected row is one of the rows, or the first.
RowOK(b, c, f) == b.row \in 1..Rows(b, c, f) \/ b.row = 1

\* The commits that are asked for are those of the open box, from the page's end on.
AskedOK(b, c, a) ==
  /\ c.loading <=> a # NoAnswer
  /\ a # NoAnswer => b.open /\ a.query = b.query /\ a.skip = c.skip

\* The page is of the box's query, and without a gap as long as nothing was committed.
PageOK(b, c, g) ==
  /\ c.page # NoAnswer =>
       /\ c.page.query = b.query /\ c.page.gen <= g
       /\ g = 1 => \A i \in DOMAIN c.page.rows : c.page.rows[i] = i
       /\ c.loading /\ c.skip > 0 => c.skip = Len(c.page.rows)
  /\ c.page = NoAnswer => c.skip = 0
  /\ c.page = NoAnswer /\ b.open /\ b.query \in CommitQueries => c.loading \/ c.error

\* Files that are complete are counted, and those that load are asked for.
FindsOK(f, a) ==
  /\ f.complete => f.query \in FileQueries /\ f.count = Hits[f.query]
  /\ f.loading => a # NoAnswer

\* The inductive invariant of the palette.
PaletteInv ==
  /\ PaletteTypeInv /\ RowOK(box, commits, finds) /\ AskedOK(box, commits, asked.commits)
  /\ PageOK(box, commits, served.gen) /\ FindsOK(finds, asked.files)

\* The rows of a page are a number, and depend on the query only.
LEMMA RowsAreCounted ==
  ASSUME PaletteAssumption, NEW b \in Boxes, NEW c \in CommitStates, NEW f \in FindStates
  PROVE  /\ Rows(b, c, f) \in Nat
         /\ \A d \in Boxes : d.query = b.query => Rows(d, c, f) = Rows(b, c, f)
<1>1. c.page \in CommitPages \/ c.page = NoAnswer
  BY DEF CommitStates
<1>2. ASSUME b.query \in CommitQueries PROVE CommitRows(c, b.query) \in Nat
  <2>1. CASE c.page.query # b.query
    BY <2>1 DEF CommitRows
  <2>2. CASE c.page \in CommitPages
    <3>1. Len(c.page.rows) \in Nat /\ c.page.more \in BOOLEAN
      BY <2>2, LenProperties DEF CommitPages
    <3>2. \A k \in {0, 1} : Len(c.page.rows) + k \in Nat
      BY <3>1
    <3> QED BY <3>2 DEF CommitRows
  <2>3. CASE c.page = NoAnswer
    BY <1>2, <2>3 DEF NoAnswer, CommitRows, PaletteAssumption
  <2> QED BY <1>1, <2>1, <2>2, <2>3
<1>3. f.count \in Nat
  BY DEF FindStates
<1>4. b.query \in FileQueries => b.query \notin CommitQueries
  BY DEF PaletteAssumption
<1>5. Rows(b, c, f) \in Nat
  BY <1>2, <1>3, <1>4 DEF Rows
<1> QED BY <1>5 DEF Rows

\* The active row after a change of the rows is one of them, or the first.
LEMMA ClampKeeps ==
  ASSUME PaletteAssumption, NEW b \in Boxes, NEW c \in CommitStates, NEW f \in FindStates
  PROVE  /\ Clamp(b, c, f) \in Boxes /\ Clamp(b, c, f).open = b.open
         /\ Clamp(b, c, f).query = b.query /\ RowOK(Clamp(b, c, f), c, f)
<1> DEFINE n == Rows(b, c, f)
           k == IF n = 0 THEN 1 ELSE IF b.row > n THEN n ELSE b.row
           d == [b EXCEPT !.row = k]
<1>1. n \in Nat /\ \A e \in Boxes : e.query = b.query => Rows(e, c, f) = n
  BY RowsAreCounted
<1>2. Clamp(b, c, f) = d
  BY DEF Clamp
<1>3. k \in Nat \ {0} /\ (k \in 1..n \/ k = 1)
  BY <1>1 DEF Boxes
<1> HIDE DEF n, k
<1>4. d \in Boxes /\ d.open = b.open /\ d.query = b.query /\ d.row = k
  BY <1>3 DEF Boxes
<1> HIDE DEF d
<1>5. Rows(d, c, f) = n
  BY <1>1, <1>4
<1> QED BY <1>2, <1>3, <1>4, <1>5 DEF RowOK

\* The variables by their types.
LEMMA PaletteParts ==
  ASSUME PaletteInv
  PROVE  /\ served.gen \in Nat \ {0} /\ served.indexed \in BOOLEAN
         /\ box \in Boxes /\ box.open \in BOOLEAN /\ box.query \in Typeable
         /\ box.row \in Nat \ {0} /\ box.sought \in Typeable
         /\ commits \in CommitStates /\ commits.page \in CommitPages \union {NoAnswer}
         /\ commits.skip \in Nat /\ commits.loading \in BOOLEAN /\ commits.error \in BOOLEAN
         /\ finds \in FindStates /\ finds.query \in FileQueries \union {NothingTyped}
         /\ finds.count \in Nat /\ finds.complete \in BOOLEAN /\ finds.loading \in BOOLEAN
         /\ asked \in Askings /\ asked.commits \in CommitAsks \union {NoAnswer}
         /\ asked.files \in FileAsks \union {NoAnswer}
<1>1. served \in [gen : Nat \ {0}, indexed : BOOLEAN] /\ box \in Boxes
      /\ commits \in CommitStates /\ finds \in FindStates /\ asked \in Askings
  BY DEF PaletteInv, PaletteTypeInv
<1>2. served.gen \in Nat \ {0} /\ served.indexed \in BOOLEAN
  BY <1>1
<1>3. /\ box.open \in BOOLEAN /\ box.query \in Typeable
      /\ box.row \in Nat \ {0} /\ box.sought \in Typeable
  BY <1>1 DEF Boxes
<1>4. /\ commits.page \in CommitPages \union {NoAnswer}
      /\ commits.skip \in Nat /\ commits.loading \in BOOLEAN /\ commits.error \in BOOLEAN
  BY <1>1 DEF CommitStates
<1>5. /\ finds.query \in FileQueries \union {NothingTyped}
      /\ finds.count \in Nat /\ finds.complete \in BOOLEAN /\ finds.loading \in BOOLEAN
  BY <1>1 DEF FindStates
<1>6. /\ asked.commits \in CommitAsks \union {NoAnswer}
      /\ asked.files \in FileAsks \union {NoAnswer}
  BY <1>1 DEF Askings
<1> QED BY <1>1, <1>2, <1>3, <1>4, <1>5, <1>6

\* The palette is closed at first.
LEMMA PaletteInits == ASSUME PaletteAssumption, PaletteInit PROVE PaletteInv
<1>1. PaletteTypeInv
  BY DEF PaletteInit, PaletteTypeInv, Boxes, Typeable, CommitStates, NoCommits, FindStates, Askings
<1>2. commits = NoCommits /\ asked.commits = NoAnswer /\ box.row = 1 /\ ~box.open
      /\ ~finds.complete /\ ~finds.loading
  BY DEF PaletteInit
<1> QED BY <1>1, <1>2 DEF PaletteInv, RowOK, AskedOK, PageOK, FindsOK, NoCommits

\* A new query keeps the invariant, whatever was typed or shown before.
LEMMA QueryKeeps ==
  ASSUME PaletteAssumption, PaletteInv, NEW b \in Boxes, Query(b), UNCHANGED <<served, finds>>
  PROVE  PaletteInv'
<1> DEFINE seeks == b.open /\ b.query \in CommitQueries
           c == [page |-> NoAnswer, skip |-> 0, loading |-> seeks, error |-> FALSE]
           a == IF seeks THEN [query |-> b.query, skip |-> 0] ELSE NoAnswer
<1>1. b.open \in BOOLEAN
  BY DEF Boxes
<1>2. seeks \in BOOLEAN
  OBVIOUS
<1>3. commits' = c
  BY DEF Query, NoCommits
<1>4. c \in CommitStates /\ c.page = NoAnswer /\ c.skip = 0 /\ (c.loading <=> seeks)
  BY <1>2 DEF CommitStates
<1>5. asked' = [asked EXCEPT !.commits = a]
  BY DEF Query
<1>6. /\ a \in CommitAsks \union {NoAnswer} /\ (seeks <=> a # NoAnswer)
      /\ a # NoAnswer => b.open /\ a.query = b.query /\ a.skip = 0
  BY DEF CommitAsks, NoAnswer, PaletteAssumption
<1> HIDE DEF c, a
<1>7. asked' \in Askings /\ asked'.commits = a /\ asked'.files = asked.files
  BY <1>5, <1>6, PaletteParts DEF Askings
<1>8. box' = Clamp(b, commits', finds)
  BY DEF Query
<1>9. box' \in Boxes /\ box'.open = b.open /\ box'.query = b.query /\ RowOK(box', commits', finds)
  BY <1>3, <1>4, <1>8, ClampKeeps, PaletteParts
<1>10. AskedOK(box', commits', asked'.commits) /\ PageOK(box', commits', served.gen)
  BY <1>3, <1>4, <1>6, <1>7, <1>9 DEF AskedOK, PageOK
<1>11. FindsOK(finds, asked'.files)
  BY <1>7 DEF PaletteInv
<1> QED BY <1>3, <1>4, <1>7, <1>9, <1>10, <1>11 DEF PaletteInv, PaletteTypeInv

\* Only the active row moves.
LEMMA MoveKeeps == ASSUME PaletteAssumption, PaletteInv, MoveRow PROVE PaletteInv'
<1> DEFINE n == Rows(box, commits, finds)
           k == IF box.row = n THEN 1 ELSE box.row + 1
<1>1. n \in Nat /\ n > 1 /\ \A e \in Boxes : e.query = box.query => Rows(e, commits, finds) = n
  BY RowsAreCounted, PaletteParts DEF MoveRow
<1>2. box' = [box EXCEPT !.row = k]
  BY DEF MoveRow
<1>3. RowOK(box, commits, finds)
  BY DEF PaletteInv
<1>4. k \in Nat \ {0} /\ (k \in 1..n \/ k = 1)
  BY <1>1, <1>3, PaletteParts DEF RowOK
<1> HIDE DEF n, k
<1>5. /\ box' \in Boxes /\ box'.open = box.open /\ box'.query = box.query /\ box'.row = k
  BY <1>2, <1>4, PaletteParts DEF Boxes
<1>6. RowOK(box', commits, finds)
  BY <1>1, <1>4, <1>5 DEF RowOK
<1>7. served' = served /\ commits' = commits /\ finds' = finds /\ asked' = asked
  BY DEF MoveRow
<1>8. AskedOK(box', commits, asked.commits) /\ PageOK(box', commits, served.gen)
  BY <1>5 DEF PaletteInv, AskedOK, PageOK
<1> QED BY <1>5, <1>6, <1>7, <1>8 DEF PaletteInv, PaletteTypeInv

\* Asking for more commits keeps the invariant.
LEMMA MoreKeeps ==
  ASSUME PaletteAssumption, PaletteInv, box.open, box.query \in CommitQueries, ~commits.loading,
         commits.page # NoAnswer, LoadMore, UNCHANGED <<served, finds>>
  PROVE  PaletteInv'
<1> DEFINE n == Len(commits.page.rows)
           l == commits.skip # n
           e == commits.error /\ commits.skip = n
           c == [page |-> commits.page, skip |-> n, loading |-> l, error |-> e]
<1>1. commits.page \in CommitPages /\ n \in Nat
  <2>1. commits.page \in CommitPages
    BY PaletteParts
  <2> QED BY <2>1, LenProperties DEF CommitPages
<1>2. /\ commits' = [commits EXCEPT !.skip = n, !.loading = @ \/ commits.skip # n,
                                    !.error = @ /\ commits.skip = n]
      /\ asked' = IF commits'.skip = commits.skip THEN asked
                  ELSE [asked EXCEPT !.commits = [query |-> box.query, skip |-> commits'.skip]]
      /\ box' = box
  BY DEF LoadMore
<1>3. commits = [page |-> commits.page, skip |-> commits.skip, loading |-> commits.loading,
                 error |-> commits.error]
  BY PaletteParts DEF CommitStates
<1>4. commits' = c
  <2> DEFINE x == commits.page
             y == commits.skip
             z == commits.loading
             w == commits.error
  <2> HIDE DEF n
  <2>1. commits = [page |-> x, skip |-> y, loading |-> z, error |-> w] /\ ~z
    BY <1>3
  <2>2. commits' = [commits EXCEPT !.skip = n, !.loading = z \/ y # n, !.error = w /\ y = n]
    BY <1>2
  <2> HIDE DEF x, y, z, w
  <2>3. commits' = [page |-> x, skip |-> n, loading |-> (z \/ y # n), error |-> (w /\ y = n)]
    BY <2>1, <2>2
  <2> QED BY <2>1, <2>3 DEF x, y, z, w
<1>5. c \in CommitStates /\ c.page = commits.page /\ c.skip = n /\ (c.loading <=> l)
      /\ (c.error <=> e)
  BY <1>1, PaletteParts DEF CommitStates
<1>6. asked.commits = NoAnswer
  BY DEF PaletteInv, AskedOK
<1>7. asked' \in Askings /\ asked'.files = asked.files /\ AskedOK(box, c, asked'.commits)
  <2>1. CASE ~l
    <3>1. asked' = asked
      BY <1>2, <1>4, <1>5, <2>1
    <3> QED BY <1>5, <1>6, <2>1, <3>1, PaletteParts DEF AskedOK
  <2>2. CASE l
    <3> DEFINE a == [query |-> box.query, skip |-> n]
    <3>1. asked' = [asked EXCEPT !.commits = a]
      BY <1>2, <1>4, <1>5, <2>2
    <3>2. a \in CommitAsks /\ a # NoAnswer /\ a.query = box.query /\ a.skip = n
      BY <1>1 DEF CommitAsks, NoAnswer, PaletteAssumption
    <3> HIDE DEF a
    <3>3. asked' \in Askings /\ asked'.commits = a /\ asked'.files = asked.files
      BY <3>1, <3>2, PaletteParts DEF Askings
    <3> QED BY <1>5, <2>2, <3>2, <3>3 DEF AskedOK
  <2> QED BY <2>1, <2>2
<1> HIDE DEF c
<1>8. PageOK(box, c, served.gen)
  BY <1>5 DEF PaletteInv, PageOK
<1>9. RowOK(box, c, finds)
  <2>1. Rows(box, c, finds) = Rows(box, commits, finds)
    BY <1>5 DEF Rows, CommitRows
  <2> QED BY <2>1 DEF PaletteInv, RowOK
<1> QED BY <1>2, <1>4, <1>5, <1>7, <1>8, <1>9 DEF PaletteInv, PaletteTypeInv, FindsOK

\* Enter asks for more commits or starts an operation.
LEMMA EnterKeeps == ASSUME PaletteAssumption, PaletteInv, Enter PROVE PaletteInv'
<1>1. CASE /\ box.query \in CommitQueries /\ commits.page.more
           /\ box.row = CommitRows(commits, box.query) /\ ~commits.loading /\ LoadMore
  <2>1. box.open /\ box.row \in Nat \ {0} /\ box.row <= Rows(box, commits, finds)
    BY PaletteParts DEF Enter
  <2>2. commits.page # NoAnswer
    <3> SUFFICES ASSUME commits.page = NoAnswer PROVE FALSE
      OBVIOUS
    <3>1. Rows(box, commits, finds) = 0
      BY <1>1 DEF Rows, CommitRows, NoAnswer, PaletteAssumption
    <3> QED BY <2>1, <3>1
  <2>3. served' = served /\ finds' = finds
    BY DEF Enter
  <2> QED BY <1>1, <2>1, <2>2, <2>3, MoreKeeps
<1>2. CASE UNCHANGED <<served, box, commits, finds, asked>>
  BY <1>2 DEF PaletteInv, PaletteTypeInv, RowOK, Rows, CommitRows, AskedOK, PageOK, FindsOK
<1> QED BY <1>1, <1>2 DEF Enter

\* A page of commits: the places from skip on.
LEMMA PageIsOfPlaces ==
  ASSUME PaletteAssumption, NEW q \in CommitQueries, NEW skip \in Nat
  PROVE  /\ Page(q, skip).more \in BOOLEAN /\ Page(q, skip).rows \in Seq(Nat)
         /\ \A i \in 1..Len(Page(q, skip).rows) : Page(q, skip).rows[i] = skip + i
<1> DEFINE last == IF skip + HitsPerPage < Hits[q] THEN skip + HitsPerPage ELSE Hits[q]
           n == IF last < skip THEN 0 ELSE last - skip
           rs == [i \in 1..(last - skip) |-> skip + i]
<1>1. Hits[q] \in Nat /\ HitsPerPage \in Nat
  BY DEF PaletteAssumption
<1>2. last \in Nat /\ n \in Nat /\ 1..(last - skip) = 1..n
  BY <1>1
<1>3. Page(q, skip).rows = rs /\ Page(q, skip).more \in BOOLEAN
  BY DEF Page
<1> HIDE DEF n, last
<1>4. rs \in [1..n -> Nat]
  BY <1>2
<1>5. rs \in Seq(Nat) /\ Len(rs) = n
  <2> HIDE DEF rs
  <2>1. rs \in Seq(Nat) /\ DOMAIN rs = 1..n
    BY <1>2, <1>4, SeqDef
  <2>2. DOMAIN rs = 1..Len(rs) /\ Len(rs) \in Nat
    BY <2>1, LenProperties
  <2> QED BY <1>2, <2>1, <2>2
<1>6. \A i \in 1..n : rs[i] = skip + i
  BY <1>2
<1> HIDE DEF rs
<1> QED BY <1>3, <1>5, <1>6

\* Rows put together: those of the first page, then those of the second.
LEMMA JoinedRows ==
  ASSUME NEW s \in Seq(Nat), NEW t \in Seq(Nat)
  PROVE  /\ s \o t \in Seq(Nat) /\ Len(s \o t) = Len(s) + Len(t)
         /\ \A i \in 1..Len(s) + Len(t) : (s \o t)[i] = IF i <= Len(s) THEN s[i] ELSE t[i - Len(s)]
BY ConcatProperties

\* An answer to the search for commits.
LEMMA CommitsKeep == ASSUME PaletteAssumption, PaletteInv, CommitsArrive PROVE PaletteInv'
<1> DEFINE a == asked.commits
           p == Page(a.query, a.skip)
           extends == a.skip > 0 /\ commits.page.query = a.query /\ commits.page.gen = served.gen
           rs == IF extends THEN commits.page.rows \o p.rows ELSE p.rows
           page == [query |-> a.query, gen |-> served.gen, more |-> p.more, rows |-> rs]
<1>1. a \in CommitAsks /\ a # NoAnswer /\ a.query \in CommitQueries /\ a.skip \in Nat
  <2>1. a \in CommitAsks /\ a # NoAnswer
    BY PaletteParts DEF CommitsArrive
  <2> QED BY <2>1 DEF CommitAsks
<1>2. commits.loading /\ box.open /\ a.query = box.query /\ a.skip = commits.skip
  BY <1>1 DEF PaletteInv, AskedOK
<1>3. /\ commits' = [commits EXCEPT !.loading = FALSE, !.page = page]
      /\ asked' = [asked EXCEPT !.commits = NoAnswer]
      /\ box' = Clamp(box, commits', finds) /\ served' = served /\ finds' = finds
  BY DEF CommitsArrive
<1>4. /\ p.more \in BOOLEAN /\ p.rows \in Seq(Nat)
      /\ \A i \in 1..Len(p.rows) : p.rows[i] = a.skip + i
  BY <1>1, PageIsOfPlaces
<1>5. a.skip > 0 => commits.page \in CommitPages /\ a.skip = Len(commits.page.rows)
  BY <1>2, PaletteParts DEF PaletteInv, PageOK
<1>6. /\ rs \in Seq(Nat)
      /\ served.gen = 1 => \A i \in 1..Len(rs) : rs[i] = i
  <2> HIDE DEF p
  <2>1. CASE extends
    <3>1. commits.page.rows \in Seq(Nat) /\ Len(commits.page.rows) = a.skip
      BY <1>5, <2>1 DEF CommitPages
    <3>2. served.gen = 1 => \A i \in 1..a.skip : commits.page.rows[i] = i
      <4>1. DOMAIN commits.page.rows = 1..a.skip
        BY <3>1, LenProperties
      <4>2. commits.page # NoAnswer
        BY <1>5, <2>1 DEF CommitPages, NoAnswer, PaletteAssumption
      <4> QED BY <4>1, <4>2 DEF PaletteInv, PageOK
    <3>3. Len(p.rows) \in Nat
      BY <1>4, LenProperties
    <3> DEFINE old == commits.page.rows
    <3>4. rs = old \o p.rows
      BY <2>1
    <3> HIDE DEF rs, old
    <3>5. /\ rs \in Seq(Nat) /\ Len(rs) = a.skip + Len(p.rows)
          /\ \A i \in 1..a.skip + Len(p.rows) : rs[i] = IF i <= a.skip THEN old[i] ELSE p.rows[i - a.skip]
      <4> DEFINE new == p.rows
      <4>1. old \in Seq(Nat) /\ new \in Seq(Nat) /\ Len(old) = a.skip
        BY <1>4, <3>1 DEF old
      <4>2. rs = old \o new
        BY <3>4
      <4> HIDE DEF new
      <4>3. /\ rs \in Seq(Nat) /\ Len(rs) = Len(old) + Len(new)
            /\ \A i \in 1..Len(old) + Len(new) :
                 rs[i] = IF i <= Len(old) THEN old[i] ELSE new[i - Len(old)]
        <5>1. /\ old \o new \in Seq(Nat) /\ Len(old \o new) = Len(old) + Len(new)
              /\ \A i \in 1..Len(old) + Len(new) :
                   (old \o new)[i] = IF i <= Len(old) THEN old[i] ELSE new[i - Len(old)]
          BY <4>1, JoinedRows
        <5> QED BY <4>2, <5>1
      <4> QED BY <4>1, <4>3 DEF new
    <3>6. ASSUME served.gen = 1, NEW i \in 1..Len(rs) PROVE rs[i] = i
      <4>1. CASE i <= a.skip
        <5>1. i \in 1..a.skip /\ i \in 1..a.skip + Len(p.rows)
          BY <1>1, <3>3, <3>5, <4>1
        <5>2. rs[i] = old[i]
          BY <3>5, <4>1, <5>1
        <5>3. old[i] = i
          BY <3>2, <3>6, <5>1 DEF old
        <5> QED BY <5>2, <5>3
      <4>2. CASE i > a.skip
        <5>1. i - a.skip \in 1..Len(p.rows) /\ rs[i] = p.rows[i - a.skip]
          BY <1>1, <3>3, <3>5, <4>2
        <5> DEFINE k == i - a.skip
        <5>2. p.rows[k] = a.skip + k
          <6> HIDE DEF k
          <6> QED BY ONLY <1>4, <5>1 DEF k
        <5> QED BY <1>1, <5>1, <5>2
      <4> QED BY <1>1, <3>3, <3>5, <4>1, <4>2
    <3> QED BY <3>5, <3>6
  <2>2. CASE ~extends
    <3>1. rs = p.rows
      BY <2>2
    <3>2. served.gen = 1 => a.skip = 0
      <4> SUFFICES ASSUME served.gen = 1, a.skip # 0 PROVE FALSE
        OBVIOUS
      <4>1. commits.page \in CommitPages /\ a.skip > 0
        BY <1>1, <1>5
      <4>2. commits.page # NoAnswer /\ commits.page.gen \in Nat \ {0}
        BY <4>1 DEF CommitPages, NoAnswer, PaletteAssumption
      <4>3. commits.page.query = box.query /\ commits.page.gen <= 1
        BY <4>2 DEF PaletteInv, PageOK
      <4>4. commits.page.gen = served.gen
        BY <4>2, <4>3
      <4>5. a.skip > 0 /\ commits.page.query = a.query /\ commits.page.gen = served.gen
        BY <1>2, <4>1, <4>3, <4>4
      <4> QED BY <2>2, <4>5
    <3>3. Len(p.rows) \in Nat /\ \A i \in 1..Len(p.rows) : a.skip = 0 => p.rows[i] = i
      <4>1. Len(p.rows) \in Nat
        BY <1>4, LenProperties
      <4> QED BY <1>4, <4>1
    <3> HIDE DEF rs
    <3> QED BY <1>4, <3>1, <3>2, <3>3
  <2> QED BY <2>1, <2>2
<1> HIDE DEF p, rs
<1>7. /\ page \in CommitPages /\ page # NoAnswer /\ page.query = box.query
      /\ page.gen = served.gen /\ page.rows = rs
  BY <1>1, <1>2, <1>4, <1>6, PaletteParts DEF CommitPages, NoAnswer, PaletteAssumption
<1> HIDE DEF page
<1> DEFINE c == [page |-> page, skip |-> commits.skip, loading |-> FALSE, error |-> commits.error]
<1>8. commits' = c
  <2> DEFINE y == commits.skip
             w == commits.error
             z == commits.loading
             v == commits.page
  <2>1. commits = [page |-> v, skip |-> y, loading |-> z, error |-> w]
    BY PaletteParts DEF CommitStates
  <2> HIDE DEF y, w, z, v
  <2>2. commits' = [page |-> page, skip |-> y, loading |-> FALSE, error |-> w]
    BY <1>3, <2>1
  <2> QED BY <2>2 DEF y, w
<1>9. c \in CommitStates /\ c.page = page /\ ~c.loading
  BY <1>7, PaletteParts DEF CommitStates
<1> HIDE DEF c
<1>10. asked' \in Askings /\ asked'.commits = NoAnswer /\ asked'.files = asked.files
  BY <1>3, PaletteParts DEF Askings
<1>11. box' \in Boxes /\ box'.open = box.open /\ box'.query = box.query
       /\ RowOK(box', commits', finds)
  BY <1>3, <1>8, <1>9, ClampKeeps, PaletteParts
<1>12. PageOK(box', commits', served.gen)
  <2>1. DOMAIN rs = 1..Len(rs)
    BY <1>6, LenProperties
  <2> QED BY <1>6, <1>7, <1>8, <1>9, <1>11, <2>1, PaletteParts DEF PageOK
<1>13. AskedOK(box', commits', asked'.commits) /\ FindsOK(finds, asked'.files)
  BY <1>8, <1>9, <1>10 DEF AskedOK, PaletteInv
<1> QED BY <1>3, <1>8, <1>9, <1>10, <1>11, <1>12, <1>13 DEF PaletteInv, PaletteTypeInv

\* A search for commits that fails.
LEMMA CommitsFailKeeps == ASSUME PaletteAssumption, PaletteInv, CommitsFail PROVE PaletteInv'
<1> DEFINE v == commits.page
           y == commits.skip
           c == [page |-> v, skip |-> y, loading |-> FALSE, error |-> TRUE]
<1>1. commits' = c
  <2> DEFINE w == commits.error
             z == commits.loading
  <2>1. commits = [page |-> v, skip |-> y, loading |-> z, error |-> w]
    BY PaletteParts DEF CommitStates
  <2>2. commits' = [commits EXCEPT !.loading = FALSE, !.error = TRUE]
    BY DEF CommitsFail
  <2> HIDE DEF v, y, w, z
  <2> QED BY <2>1, <2>2
<1>2. c \in CommitStates /\ c.page = commits.page /\ c.skip = commits.skip /\ ~c.loading /\ c.error
  BY PaletteParts DEF CommitStates
<1> HIDE DEF c, v, y
<1>3. /\ asked' = [asked EXCEPT !.commits = NoAnswer]
      /\ box' = box /\ served' = served /\ finds' = finds
  BY DEF CommitsFail
<1>4. asked' \in Askings /\ asked'.commits = NoAnswer /\ asked'.files = asked.files
  BY <1>3, PaletteParts DEF Askings
<1>5. Rows(box, c, finds) = Rows(box, commits, finds)
  BY <1>2 DEF Rows, CommitRows
<1>6. RowOK(box, c, finds) /\ AskedOK(box, c, NoAnswer) /\ PageOK(box, c, served.gen)
  BY <1>2, <1>5 DEF PaletteInv, RowOK, AskedOK, PageOK
<1> QED BY <1>1, <1>2, <1>3, <1>4, <1>6 DEF PaletteInv, PaletteTypeInv, FindsOK

\* The repository or the index of the folder moves on.
LEMMA ServedKeeps == ASSUME PaletteAssumption, PaletteInv, ServedChanges PROVE PaletteInv'
<1>1. /\ served' \in [gen : Nat \ {0}, indexed : BOOLEAN]
      /\ served'.gen = served.gen \/ served'.gen = served.gen + 1
  <2>1. served = [gen |-> served.gen, indexed |-> served.indexed]
    BY DEF PaletteInv, PaletteTypeInv
  <2>2. CASE served' = [served EXCEPT !.gen = @ + 1]
    BY <2>2, PaletteParts DEF PaletteInv, PaletteTypeInv
  <2>3. CASE served' = [served EXCEPT !.indexed = TRUE]
    BY <2>3, PaletteParts DEF PaletteInv, PaletteTypeInv
  <2> QED BY <2>2, <2>3 DEF ServedChanges
<1>2. UNCHANGED <<box, commits, finds, asked>>
  BY DEF ServedChanges
<1>3. commits.page # NoAnswer => commits.page.gen \in Nat
  BY PaletteParts DEF CommitPages
<1>4. PageOK(box, commits, served'.gen)
  <2>1. served'.gen = 1 => served.gen = 1
    BY <1>1, PaletteParts
  <2> QED BY <1>1, <1>3, <2>1, PaletteParts DEF PaletteInv, PageOK
<1> QED BY <1>1, <1>2, <1>4 DEF PaletteInv, PaletteTypeInv, RowOK, Rows, CommitRows

\* The steps of the search for files.
LEMMA FilesKeep ==
  ASSUME PaletteAssumption, PaletteInv, SearchFiles \/ FilesArrive \/ FilesFail
  PROVE  PaletteInv'
<1> DEFINE q == finds.query
           n == finds.count
           d == finds.complete
           l == finds.loading
           e == finds.error
<1>1. finds = [query |-> q, count |-> n, complete |-> d, loading |-> l, error |-> e]
  BY PaletteParts DEF FindStates
<1>2. /\ q \in FileQueries \union {NothingTyped} /\ n \in Nat /\ d \in BOOLEAN /\ l \in BOOLEAN
      /\ d => q \in FileQueries /\ n = Hits[q]
  BY PaletteParts DEF PaletteInv, FindsOK
<1>3. commits' = commits /\ served' = served
  BY DEF SearchFiles, FilesArrive, FilesFail
<1>5. CASE SearchFiles
  <2> DEFINE f == [query |-> q, count |-> n, complete |-> d, loading |-> TRUE, error |-> FALSE]
             a == [query |-> box.query, gen |-> served.gen]
  <2>1. box.open /\ box.query \in FileQueries
    BY <1>5 DEF SearchFiles, FilesAreDue
  <2>2. /\ box' = [box EXCEPT !.sought = box.query]
        /\ finds' = [finds EXCEPT !.loading = TRUE, !.error = FALSE]
        /\ asked' = [asked EXCEPT !.files = a]
    BY <1>5 DEF SearchFiles
  <2>3. finds' = f /\ f \in FindStates /\ f.count = finds.count /\ FindsOK(f, a)
    <3> HIDE DEF q, n, d, l, e
    <3>1. finds' = f
      BY <1>1, <2>2
    <3>2. f \in FindStates /\ f.count = n
      BY <1>2 DEF FindStates
    <3>3. a # NoAnswer
      <4>1. a.query # NoAnswer.query
        BY <2>1 DEF NoAnswer, PaletteAssumption
      <4> QED BY <4>1
    <3>4. FindsOK(f, a)
      BY <1>2, <3>3 DEF FindsOK
    <3> QED BY <3>1, <3>2, <3>4 DEF n
  <2>4. a \in FileAsks
    BY <2>1, PaletteParts DEF FileAsks
  <2> HIDE DEF f, a
  <2>5. asked' \in Askings /\ asked'.commits = asked.commits /\ asked'.files = a
    BY <2>2, <2>4, PaletteParts DEF Askings
  <2>6. box' \in Boxes /\ box'.open = box.open /\ box'.query = box.query /\ box'.row = box.row
    BY <2>1, <2>2, PaletteParts DEF Boxes
  <2>7. Rows(box', commits, f) = Rows(box, commits, finds)
    BY <2>3, <2>6 DEF Rows
  <2>8. RowOK(box', commits, f) /\ AskedOK(box', commits, asked.commits)
        /\ PageOK(box', commits, served.gen)
    BY <2>6, <2>7 DEF PaletteInv, RowOK, AskedOK, PageOK
  <2> QED BY <1>3, <2>3, <2>5, <2>6, <2>8 DEF PaletteInv, PaletteTypeInv
<1>6. CASE FilesArrive
  <2> DEFINE a == asked.files
  <2>1. PICK old \in BOOLEAN :
          finds' = [query |-> a.query, count |-> IF old THEN 0 ELSE Hits[a.query],
                    complete |-> ~old /\ served.indexed, loading |-> FALSE, error |-> FALSE]
    BY <1>6 DEF FilesArrive
  <2>2. a \in FileAsks /\ a.query \in FileQueries
    <3>1. a \in FileAsks
      BY <1>6, PaletteParts DEF FilesArrive
    <3> QED BY <3>1 DEF FileAsks
  <2>3. finds' \in FindStates /\ FindsOK(finds', NoAnswer)
    <3>1. Hits[a.query] \in Nat
      BY <2>2 DEF PaletteAssumption
    <3> QED BY <2>1, <2>2, <3>1, PaletteParts DEF FindStates, FindsOK
  <2>4. asked' = [asked EXCEPT !.files = NoAnswer] /\ box' = Clamp(box, commits, finds')
    BY <1>6 DEF FilesArrive
  <2>5. asked' \in Askings /\ asked'.commits = asked.commits /\ asked'.files = NoAnswer
    BY <2>4, PaletteParts DEF Askings
  <2>6. box' \in Boxes /\ box'.open = box.open /\ box'.query = box.query
        /\ RowOK(box', commits, finds')
    BY <2>3, <2>4, ClampKeeps, PaletteParts
  <2>7. AskedOK(box', commits, asked.commits) /\ PageOK(box', commits, served.gen)
    BY <2>6 DEF PaletteInv, AskedOK, PageOK
  <2> QED BY <1>3, <2>3, <2>5, <2>6, <2>7 DEF PaletteInv, PaletteTypeInv
<1>7. CASE FilesFail
  <2> DEFINE f == [query |-> q, count |-> n, complete |-> d, loading |-> FALSE, error |-> TRUE]
  <2>1. /\ box' = box /\ finds' = [finds EXCEPT !.loading = FALSE, !.error = TRUE]
        /\ asked' = [asked EXCEPT !.files = NoAnswer]
    BY <1>7 DEF FilesFail
  <2>2. finds' = f /\ f \in FindStates /\ f.count = finds.count /\ FindsOK(f, NoAnswer)
    <3> HIDE DEF q, n, d, l, e
    <3>1. finds' = f
      BY <1>1, <2>1
    <3>2. f \in FindStates /\ f.count = n
      BY <1>2 DEF FindStates
    <3>3. FindsOK(f, NoAnswer)
      BY <1>2 DEF FindsOK
    <3> QED BY <3>1, <3>2, <3>3 DEF n
  <2> HIDE DEF f
  <2>3. asked' \in Askings /\ asked'.commits = asked.commits /\ asked'.files = NoAnswer
    BY <2>1, PaletteParts DEF Askings
  <2>4. Rows(box, commits, f) = Rows(box, commits, finds)
    BY <2>2 DEF Rows
  <2>5. RowOK(box, commits, f) /\ AskedOK(box, commits, asked.commits)
        /\ PageOK(box, commits, served.gen)
    BY <2>4 DEF PaletteInv, RowOK
  <2> QED BY <1>3, <2>1, <2>2, <2>3, <2>5 DEF PaletteInv, PaletteTypeInv
<1> QED BY <1>5, <1>6, <1>7

\* Every step of the palette keeps the invariant.
LEMMA PaletteSteps ==
  ASSUME PaletteAssumption, PaletteInv, [PaletteNext]_paletteVars
  PROVE  PaletteInv'
<1>1. CASE OpenPalette
  <2> DEFINE b == [open |-> TRUE, query |-> NothingTyped, row |-> 1, sought |-> NothingTyped]
  <2>1. b \in Boxes
    BY DEF Boxes, Typeable
  <2>2. Query(b) /\ UNCHANGED <<served, finds>>
    BY <1>1 DEF OpenPalette
  <2> HIDE DEF b
  <2> QED BY <2>1, <2>2, QueryKeeps
<1>2. CASE ClosePalette \/ \E ok \in BOOLEAN : OperationEnds(ok)
  <2> DEFINE b == [box EXCEPT !.open = FALSE]
  <2>1. b \in Boxes
    BY PaletteParts DEF Boxes
  <2>2. \/ Query(b) /\ UNCHANGED <<served, finds>>
        \/ UNCHANGED <<served, box, commits, finds, asked>>
    BY <1>2 DEF ClosePalette, OperationEnds
  <2> HIDE DEF b
  <2>3. CASE UNCHANGED <<served, box, commits, finds, asked>>
    BY <2>3 DEF PaletteInv, PaletteTypeInv, RowOK, Rows, CommitRows, AskedOK, PageOK, FindsOK
  <2> QED BY <2>1, <2>2, <2>3, QueryKeeps
<1>3. CASE \E q \in CommitQueries \union FileQueries : TypeQuery(q)
  <2>1. PICK q \in CommitQueries \union FileQueries : TypeQuery(q)
    BY <1>3
  <2> DEFINE b == [box EXCEPT !.query = q, !.row = 1]
  <2>2. b \in Boxes
    <3>1. [box EXCEPT !.query = q] \in Boxes
      BY PaletteParts DEF Boxes, Typeable
    <3>2. \A x \in Boxes : [x EXCEPT !.row = 1] \in Boxes
      BY DEF Boxes
    <3>3. b = [[box EXCEPT !.query = q] EXCEPT !.row = 1]
      OBVIOUS
    <3> HIDE DEF b
    <3> QED BY <3>1, <3>2, <3>3
  <2>3. Query(b) /\ UNCHANGED <<served, finds>>
    BY <2>1 DEF TypeQuery
  <2> HIDE DEF b
  <2> QED BY <2>2, <2>3, QueryKeeps
<1>4. CASE UNCHANGED paletteVars
  BY <1>4 DEF paletteVars, PaletteInv, PaletteTypeInv, RowOK, Rows, CommitRows, AskedOK, PageOK,
    FindsOK
<1> QED
  BY <1>1, <1>2, <1>3, <1>4, MoveKeeps, EnterKeeps, ServedKeeps, CommitsKeep, CommitsFailKeeps,
    FilesKeep
  DEF PaletteNext

\* What the palette shows and says is true.
LEMMA PaletteImplies == ASSUME PaletteAssumption, PaletteInv PROVE PaletteIsTruthful
<1>1. commits.loading => asked.commits.query = box.query /\ box.open
  BY DEF PaletteInv, AskedOK
<1>2. ASSUME box.open, box.query \in CommitQueries, ~commits.loading, ~commits.error
      PROVE  /\ commits.page.query = box.query
             /\ served.gen = 1 => \A i \in DOMAIN commits.page.rows : commits.page.rows[i] = i
  BY <1>2 DEF PaletteInv, PageOK
<1>3. ASSUME box.query \in FileQueries, box.open, ~FilesAreDue, ~finds.loading, ~finds.error
      PROVE  finds.query = box.query /\ finds.count = Hits[box.query]
  BY <1>3 DEF PaletteInv, FindsOK, FilesAreDue
<1>4. box.row \in 1..Rows(box, commits, finds) \/ box.row = 1
  BY DEF PaletteInv, RowOK
<1>5. finds.loading => asked.files # NoAnswer
  BY DEF PaletteInv, FindsOK
<1> QED BY <1>1, <1>2, <1>3, <1>4, <1>5 DEF PaletteIsTruthful

(***************************************************************************)
(* PDFPreview                                                              *)
(***************************************************************************)

\* What is sent, the shapes of the variables, and the times at which grants expire.
Kinds == {"create", "created", "renew", "renewed", "release"}
ViewStates == [attempt : Nat, active : BOOLEAN, token : Nat, until : Nat, renewAt : Nat, shown : Nat,
               error : BOOLEAN]
Mails == [kind : Kinds, view : Views, attempt : Nat, token : Nat, ok : BOOLEAN, expires : Nat]
Expiries == UNION {[T -> Nat] : T \in SUBSET Nat}

\* The type of each variable of PDFPreview.
PreviewTypeInv ==
  /\ now \in Nat /\ grants \in [last : Nat, expires : Expiries] /\ views \in [Views -> ViewStates]
  /\ messages \subseteq Mails /\ previewActs \in [acts : Nat, losses : Nat]

\* What a message is about: a lease that is asked for or was granted, a renewal, or a
\* lease that no view holds.
Answering(m) == m.kind \in {"create", "created"}
Holding(m) == m.kind = "created" /\ m.ok
Renewing(m) == m.kind \in {"renew", "renewed"}
Carrying(m) == Holding(m) \/ m.kind = "release"
Confirming(m) == Holding(m) \/ (m.kind = "renewed" /\ m.ok /\ Ours(m))

\* A grant lasts no longer than a lease from now on, under a token that was used.
GrantsOK ==
  \A t \in DOMAIN grants.expires :
    t # NoLease /\ t <= grants.last /\ grants.expires[t] <= now + LeaseTime

\* A view shows the lease it holds, and no two views hold one.
TokensOK ==
  /\ \A v \in Views : views[v].shown = views[v].token /\ views[v].token <= grants.last
  /\ \A v, w \in Views : views[v].token = views[w].token /\ views[v].token # NoLease => v = w

\* A message is of the view's attempt or of an earlier one; an answer that grants finds
\* its view without a lease, a renewal finds it with the one it is for, and nobody
\* holds what a message carries.
MessageOK(m) ==
  /\ m.attempt <= views[m.view].attempt /\ m.token <= grants.last
  /\ Answering(m) /\ Ours(m) => views[m.view].token = NoLease
  /\ Renewing(m) /\ Ours(m) => views[m.view].token = m.token /\ m.token # NoLease
  /\ Carrying(m) => m.token # NoLease /\ \A v \in Views : views[v].token # m.token

\* One answer for each attempt, and no lease is carried twice.
PairOK(m, o) ==
  /\ Answering(m) /\ Answering(o) /\ m.view = o.view /\ m.attempt = o.attempt => m = o
  /\ Holding(m) /\ Holding(o) /\ m.token = o.token => m = o
  /\ Holding(m) /\ o.kind = "release" => m.token # o.token
MessagesOK == (\A m \in messages : MessageOK(m)) /\ (\A m, o \in messages : PairOK(m, o))

\* The server serves what a view, or a message to it, says that it serves.
ServedUntil(t, until) == now < until => t \in DOMAIN grants.expires /\ until <= grants.expires[t]
ServedOK ==
  /\ \A v \in Views : views[v].token # NoLease => ServedUntil(views[v].token, views[v].until)
  /\ \A m \in messages : Confirming(m) => ServedUntil(m.token, m.expires)

\* As long as nothing was lost, each grant is held by a view or carried by a message.
Accounted(t) == (\E v \in Views : views[v].token = t) \/ \E m \in messages : m.token = t
                /\ Carrying(m)
AccountedOK == previewActs.losses = 0 => \A t \in DOMAIN grants.expires : Accounted(t)

\* The inductive invariant of the previews.
PreviewInv == PreviewTypeInv /\ GrantsOK /\ TokensOK /\ MessagesOK /\ ServedOK /\ AccountedOK

\* The variables by their types.
LEMMA PreviewParts ==
  ASSUME PreviewAssumption, PreviewInv
  PROVE  /\ now \in Nat /\ LeaseTime \in Nat /\ grants.last \in Nat
         /\ grants = [last |-> grants.last, expires |-> grants.expires]
         /\ grants.expires \in [DOMAIN grants.expires -> Nat] /\ DOMAIN grants.expires \in SUBSET Nat
         /\ views \in [Views -> ViewStates] /\ messages \subseteq Mails
         /\ previewActs \in [acts : Nat, losses : Nat] /\ previewActs.losses \in Nat
<1>1. /\ now \in Nat /\ grants \in [last : Nat, expires : Expiries] /\ views \in [Views -> ViewStates]
      /\ messages \subseteq Mails /\ previewActs \in [acts : Nat, losses : Nat]
  BY DEF PreviewInv, PreviewTypeInv
<1>2. grants.last \in Nat /\ grants = [last |-> grants.last, expires |-> grants.expires]
  BY <1>1
<1>3. grants.expires \in Expiries
  BY <1>1
<1>4. PICK T \in SUBSET Nat : grants.expires \in [T -> Nat]
  BY <1>3 DEF Expiries
<1>5. DOMAIN grants.expires = T
  BY <1>4
<1> QED BY <1>1, <1>2, <1>4, <1>5 DEF PreviewAssumption

\* A view by its fields.
LEMMA ViewFields ==
  ASSUME PreviewAssumption, PreviewInv, NEW v \in Views
  PROVE  /\ views[v] \in ViewStates /\ views[v].attempt \in Nat /\ views[v].active \in BOOLEAN
         /\ views[v].token \in Nat /\ views[v].until \in Nat /\ views[v].renewAt \in Nat
         /\ views[v].shown \in Nat /\ views[v].error \in BOOLEAN
<1>1. views[v] \in ViewStates
  BY PreviewParts
<1> QED BY <1>1 DEF ViewStates

\* A message by its fields.
LEMMA MailFields ==
  ASSUME NEW m \in Mails
  PROVE  /\ m.kind \in Kinds /\ m.view \in Views /\ m.attempt \in Nat /\ m.token \in Nat
         /\ m.ok \in BOOLEAN /\ m.expires \in Nat
BY DEF Mails

\* Nothing is granted at first.
LEMMA PreviewInits == ASSUME PreviewAssumption, PreviewInit PROVE PreviewInv
<1> DEFINE e == <<>>
<1>1. e \in [{} -> Nat] /\ DOMAIN e = {}
  OBVIOUS
<1>2. e \in Expiries
  <2>1. {} \in SUBSET Nat
    OBVIOUS
  <2> QED BY <1>1, <2>1 DEF Expiries
<1>3. grants = [last |-> 0, expires |-> e]
  BY DEF PreviewInit
<1> HIDE DEF e
<1>4. grants \in [last : Nat, expires : Expiries] /\ DOMAIN grants.expires = {} /\ grants.last = 0
  BY <1>1, <1>2, <1>3
<1>5. Blank \in ViewStates /\ Blank.token = NoLease /\ Blank.shown = NoLease
  BY DEF Blank, ViewStates, NoLease
<1>6. views \in [Views -> ViewStates] /\ \A v \in Views : views[v].token = 0 /\ views[v].shown = 0
  BY <1>5 DEF PreviewInit, NoLease
<1>7. now \in Nat /\ messages = {} /\ previewActs \in [acts : Nat, losses : Nat]
  BY DEF PreviewInit
<1>8. GrantsOK /\ AccountedOK
  BY <1>4 DEF GrantsOK, AccountedOK
<1>9. TokensOK /\ MessagesOK /\ ServedOK
  BY <1>4, <1>6, <1>7 DEF TokensOK, MessagesOK, ServedOK, NoLease
<1> QED BY <1>4, <1>6, <1>7, <1>8, <1>9 DEF PreviewInv, PreviewTypeInv

\* Time passes.
LEMMA TickKeeps == ASSUME PreviewAssumption, PreviewInv, Tick PROVE PreviewInv'
<1>1. now' = now + 1 /\ now' \in Nat /\ UNCHANGED <<grants, views, messages, previewActs>>
  BY PreviewParts DEF Tick
<1>2. GrantsOK'
  BY <1>1, PreviewParts DEF PreviewInv, GrantsOK
<1>3. \A t : \A until \in Nat : ServedUntil(t, until) => ServedUntil(t, until)'
  BY <1>1, PreviewParts DEF ServedUntil
<1>4. ServedOK'
  <2>1. ASSUME NEW v \in Views,
        views[v].token # NoLease PROVE ServedUntil(views[v].token, views[v].until)'
    <3>1. ServedUntil(views[v].token, views[v].until) /\ views[v].until \in Nat
      BY <2>1, ViewFields DEF PreviewInv, ServedOK
    <3> QED BY <1>1, <3>1, PreviewParts DEF ServedUntil
  <2>2. ASSUME NEW m \in messages, Confirming(m) PROVE ServedUntil(m.token, m.expires)'
    <3>1. ServedUntil(m.token, m.expires) /\ m.expires \in Nat
      BY <2>2, PreviewParts, MailFields DEF PreviewInv, ServedOK
    <3> QED BY <1>1, <3>1, PreviewParts DEF ServedUntil
  <2> QED BY <1>1, <2>1, <2>2 DEF ServedOK, Confirming, Holding, Ours
<1>5. TokensOK' /\ MessagesOK' /\ AccountedOK'
  BY <1>1 DEF PreviewInv, TokensOK, MessagesOK, AccountedOK, MessageOK, PairOK, Answering, Holding,
    Renewing,
    Carrying, Ours, Accounted
<1> QED BY <1>1, <1>2, <1>4, <1>5 DEF PreviewInv, PreviewTypeInv

\* The grants of the server, by the tokens kept and the one granted.
LEMMA OnlyKept ==
  ASSUME PreviewAssumption, PreviewInv, NEW T \in SUBSET DOMAIN grants.expires
  PROVE  /\ Only(T) \in Expiries /\ DOMAIN Only(T) = T
         /\ \A t \in T : Only(T)[t] = grants.expires[t]
<1>1. Only(T) \in [T -> Nat] /\ T \in SUBSET Nat
  BY PreviewParts DEF Only
<1>2. Only(T) \in Expiries
  BY <1>1 DEF Expiries
<1> QED BY <1>1, <1>2 DEF Only

\* What is granted is granted from now on for the time of a lease.
LEMMA Granted ==
  ASSUME PreviewAssumption, PreviewInv, NEW T \in SUBSET DOMAIN grants.expires, NEW t \in Nat
  PROVE  /\ Grant(T, t) \in Expiries /\ DOMAIN Grant(T, t) = T \union {t}
         /\ Grant(T, t)[t] = now + LeaseTime
         /\ \A u \in T : u # t => Grant(T, t)[u] = grants.expires[u]
<1>1. Grant(T, t) \in [T \union {t} -> Nat] /\ T \union {t} \in SUBSET Nat
  BY PreviewParts DEF Grant
<1>2. Grant(T, t) \in Expiries
  BY <1>1 DEF Expiries
<1> QED BY <1>1, <1>2 DEF Grant

\* An answer of the server: the request's view and attempt, with what it says.
Reply(m, k, ok, t, until) ==
  [kind |-> k, view |-> m.view, attempt |-> m.attempt, token |-> t, ok |-> ok, expires |-> until]
Outcome(m) == IF m.kind = "create" THEN "created" ELSE "renewed"

\* What Answer sends.
LEMMA AnswerSends ==
  ASSUME PreviewAssumption, PreviewInv, NEW m \in messages, NEW ok, NEW t, Answer(m, ok, t)
  PROVE  messages' = (messages \ {m}) \union {Reply(m, Outcome(m), ok, t, now + LeaseTime)}
<1> DEFINE n == [m EXCEPT !.kind = IF @ = "create" THEN "created" ELSE "renewed", !.ok = ok,
    !.token = t,
                          !.expires = now + LeaseTime]
           a == m.kind
           b == m.view
           c == m.attempt
           d == m.token
           e == m.ok
           f == m.expires
           k == Outcome(m)
           u == now + LeaseTime
           R(x, w, y, z) == [kind |-> x, view |-> b, attempt |-> c, token |-> y, ok |-> w,
           expires |-> z]
<1>1. messages' = (messages \ {m}) \union {n}
  BY DEF Answer, Send
<1>2. m = R(a, e, d, f)
  BY PreviewParts DEF Mails
<1>3. n = [[[[m EXCEPT !.kind = k] EXCEPT !.ok = ok] EXCEPT !.token = t] EXCEPT !.expires = u]
  BY DEF Outcome
<1>4. Reply(m, Outcome(m), ok, t, now + LeaseTime) = R(k, ok, t, u)
  BY DEF Reply
<1> HIDE DEF a, b, c, d, e, f, k, u, n
<1>5. [m EXCEPT !.kind = k] = R(k, e, d, f)
  BY <1>2
<1>6. [R(k, e, d, f) EXCEPT !.ok = ok] = R(k, ok, d, f)
  OBVIOUS
<1>7. [R(k, ok, d, f) EXCEPT !.token = t] = R(k, ok, t, f)
  OBVIOUS
<1>8. [R(k, ok, t, f) EXCEPT !.expires = u] = R(k, ok, t, u)
  OBVIOUS
<1>9. n = R(k, ok, t, u)
  BY <1>3, <1>5, <1>6, <1>7, <1>8
<1> HIDE DEF R
<1> QED BY <1>1, <1>4, <1>9

\* The fields of an answer.
LEMMA ReplyFields ==
  ASSUME PreviewAssumption, PreviewInv, NEW m \in messages, NEW k \in Kinds, NEW ok \in BOOLEAN,
         NEW t \in Nat, NEW until \in Nat
  PROVE  /\ Reply(m, k, ok, t, until) \in Mails /\ Reply(m, k, ok, t, until).kind = k
         /\ Reply(m, k, ok, t, until).view = m.view /\ Reply(m, k, ok, t, until).attempt = m.attempt
         /\ Reply(m, k, ok, t, until).token = t /\ Reply(m, k, ok, t, until).ok = ok
         /\ Reply(m, k, ok, t, until).expires = until
<1>1. m.view \in Views /\ m.attempt \in Nat
  BY PreviewParts, MailFields
<1> QED BY <1>1 DEF Reply, Mails

\* Messages that go away, or are answered by one that is bound to the same attempt.
LEMMA MessagesSwap ==
  ASSUME PreviewAssumption, PreviewInv, views' = views, grants'.last \in Nat,
         grants.last <= grants'.last,
         NEW m \in messages, NEW n \in Mails, messages' = (messages \ {m}) \union {n},
         n.view = m.view, n.attempt = m.attempt, Answering(n) <=> Answering(m),
         Renewing(n) <=> Renewing(m),
         Renewing(n) => n.token = m.token, n.token <= grants'.last,
         Holding(n) => n.token > grants.last, n.kind # "release"
  PROVE  MessagesOK'
<1>0. /\ \A v \in Views : views[v].token \in Nat /\ views[v].token <= grants.last
      /\ n.token \in Nat /\ grants.last \in Nat /\ \A o \in messages : o.token \in Nat
         /\ o.token <= grants.last
  BY PreviewParts, ViewFields, MailFields DEF PreviewInv, TokensOK, MessagesOK, MessageOK
<1>1. \A o \in Mails : (Ours(o)' <=> Ours(o))
  BY DEF Ours
<1>2. ASSUME NEW o \in messages PROVE MessageOK(o)'
  <2>1. MessageOK(o) /\ o \in Mails
    BY PreviewParts DEF PreviewInv, MessagesOK
  <2> QED BY <1>0, <1>1, <2>1 DEF MessageOK, Answering, Renewing, Carrying, Holding
<1>3. MessageOK(n)'
  <2>1. MessageOK(m) /\ m \in Mails /\ (Ours(n) <=> Ours(m))
    BY PreviewParts DEF PreviewInv, MessagesOK, Ours
  <2>2. (Answering(n) /\ Ours(n) => views[n.view].token = NoLease)
        /\ (Renewing(n) /\ Ours(n) => views[n.view].token = n.token /\ n.token # NoLease)
    BY <2>1 DEF MessageOK
  <2>3. Carrying(n) => n.token # NoLease /\ \A v \in Views : views[v].token # n.token
    BY <1>0 DEF Carrying, NoLease
  <2>4. n.attempt <= views[n.view].attempt /\ n.token <= grants'.last
    BY <2>1 DEF MessageOK
  <2> QED BY <1>1, <2>2, <2>3, <2>4 DEF MessageOK, Answering, Renewing, Carrying, Holding
<1>4. ASSUME NEW o \in messages \ {m} PROVE PairOK(n, o) /\ PairOK(o, n)
  <2>1. PairOK(m, o) /\ PairOK(o, m) /\ m # o
    BY DEF PreviewInv, MessagesOK
  <2>2. ~(Answering(n) /\ Answering(o) /\ n.view = o.view /\ n.attempt = o.attempt)
    BY <2>1 DEF PairOK
  <2>3. ~(Holding(n) /\ (Holding(o) \/ o.kind = "release") /\ n.token = o.token)
    BY <1>0
  <2> QED BY <2>2, <2>3 DEF PairOK
<1>5. PairOK(n, n)
  BY DEF PairOK, Holding
<1>6. \A x, y \in messages' : PairOK(x, y)
  BY <1>4, <1>5 DEF PreviewInv, MessagesOK
<1>7. \A x, y \in messages' : PairOK(x, y)'
  BY <1>6 DEF PairOK, Answering, Holding
<1> QED BY <1>2, <1>3, <1>7 DEF MessagesOK

\* Messages that only go away.
LEMMA MessagesGo ==
  ASSUME PreviewAssumption, PreviewInv, views' = views, grants'.last = grants.last,
         messages' \subseteq messages
  PROVE  MessagesOK'
<1>1. \A o \in messages : MessageOK(o) => MessageOK(o)'
  BY DEF MessageOK, Answering, Renewing, Carrying, Holding, Ours
<1>2. \A x, y \in messages : PairOK(x, y) => PairOK(x, y)'
  BY DEF PairOK, Answering, Holding
<1> QED BY <1>1, <1>2 DEF PreviewInv, MessagesOK

\* Grants that live on keep what was told of them.
LEMMA LiveLonger ==
  ASSUME PreviewAssumption, PreviewInv, grants'.expires \in Expiries, NEW x,
         \A t \in Live \ {x} : t \in DOMAIN grants'.expires
         /\ grants.expires[t] <= grants'.expires[t],
         NEW t, NEW until \in Nat, t # x, ServedUntil(t, until), now < until
  PROVE  t \in DOMAIN grants'.expires /\ until <= grants'.expires[t]
<1>1. t \in DOMAIN grants.expires /\ until <= grants.expires[t] /\ grants.expires[t] \in Nat
  BY PreviewParts DEF ServedUntil
<1>2. t \in Live
  BY <1>1, PreviewParts DEF Live
<1>3. PICK T \in SUBSET Nat : grants'.expires \in [T -> Nat]
  BY DEF Expiries
<1>4. t \in DOMAIN grants'.expires /\ grants.expires[t] <= grants'.expires[t]
  BY <1>2
<1>5. grants'.expires[t] \in Nat
  BY <1>3, <1>4
<1> QED BY <1>1, <1>4, <1>5

\* A step of the server: what it grants, to whom, and what it says of it.
LEMMA ServerKeeps ==
  ASSUME PreviewAssumption, PreviewInv, UNCHANGED <<now, views, previewActs>>,
         grants' \in [last : Nat, expires : Expiries], grants.last <= grants'.last,
         NEW x, \A t \in Live \ {x} : t \in DOMAIN grants'.expires
         /\ grants.expires[t] <= grants'.expires[t],
         \A t \in DOMAIN grants'.expires :
           t # NoLease /\ t <= grants'.last /\ grants'.expires[t] <= now + LeaseTime,
         messages' \subseteq Mails, MessagesOK',
         \A v \in Views : views[v].token # NoLease => views[v].token # x,
         \A m \in messages' : Confirming(m) =>
           (m \in messages /\ m.token # x) \/ (m.token \in DOMAIN grants'.expires
           /\ m.expires <= grants'.expires[m.token]),
         previewActs.losses = 0 => \A t \in DOMAIN grants'.expires :
           (\E v \in Views : views[v].token = t) \/ \E m \in messages' : m.token = t /\ Carrying(m)
  PROVE  PreviewInv'
<1>1. GrantsOK'
  BY DEF GrantsOK
<1>2. TokensOK'
  <2>1. ASSUME NEW v \in Views PROVE views[v].token <= grants'.last
    BY PreviewParts, ViewFields DEF PreviewInv, TokensOK
  <2> QED BY <2>1 DEF PreviewInv, TokensOK
<1>3. grants'.expires \in Expiries
  OBVIOUS
<1>4. ASSUME NEW v \in Views,
      views[v].token # NoLease PROVE ServedUntil(views[v].token, views[v].until)'
  <2>1. ServedUntil(views[v].token, views[v].until) /\ views[v].until \in Nat /\ views[v].token # x
    BY <1>4, ViewFields DEF PreviewInv, ServedOK
  <2>2. ServedUntil(views[v].token, views[v].until)' <=>
          (now < views[v].until => views[v].token \in DOMAIN grants'.expires
          /\ views[v].until <= grants'.expires[views[v].token])
    BY DEF ServedUntil
  <2> DEFINE a == views[v].token
             b == views[v].until
  <2>3. ServedUntil(a, b)' <=> (now < b => a \in DOMAIN grants'.expires /\ b <= grants'.expires[a])
    BY <2>2
  <2>4. b \in Nat /\ a # x /\ ServedUntil(a, b) /\ a \in Nat
    BY <2>1, ViewFields
  <2>5. now < b => a \in DOMAIN grants'.expires /\ b <= grants'.expires[a]
    <3> HIDE DEF a, b
    <3> QED BY <2>4, <1>3, LiveLonger
  <2> QED BY <2>3, <2>5
<1>5. ASSUME NEW m \in messages', Confirming(m)' PROVE ServedUntil(m.token, m.expires)'
  <2>1. Confirming(m)
    BY <1>5 DEF Confirming, Holding, Ours
  <2>2. ServedUntil(m.token, m.expires)' <=>
          (now < m.expires => m.token \in DOMAIN grants'.expires
          /\ m.expires <= grants'.expires[m.token])
    BY DEF ServedUntil
  <2>3. CASE m \in messages /\ m.token # x
    <3>1. ServedUntil(m.token, m.expires) /\ m.expires \in Nat
      BY <2>1, <2>3, PreviewParts, MailFields DEF PreviewInv, ServedOK
    <3> QED BY <2>2, <2>3, <3>1, <1>3, LiveLonger
  <2>4. CASE m.token \in DOMAIN grants'.expires /\ m.expires <= grants'.expires[m.token]
    BY <2>2, <2>4
  <2> QED BY <2>1, <2>3, <2>4
<1>6. ServedOK'
  BY <1>4, <1>5 DEF ServedOK
<1>7. AccountedOK'
  BY DEF AccountedOK, Accounted, Carrying, Holding
<1>8. PreviewTypeInv'
  BY DEF PreviewInv, PreviewTypeInv
<1> QED BY <1>1, <1>2, <1>6, <1>7, <1>8 DEF PreviewInv

\* What has not expired is a part of what is granted, and what is granted is bounded.
LEMMA LiveFields ==
  ASSUME PreviewAssumption, PreviewInv
  PROVE  /\ Live \in SUBSET DOMAIN grants.expires
         /\ \A t \in DOMAIN grants.expires : /\ t \in Nat /\ grants.expires[t] \in Nat
                                             /\ t # NoLease /\ t <= grants.last
                                                /\ grants.expires[t] <= now + LeaseTime
<1>1. grants.expires \in [DOMAIN grants.expires -> Nat] /\ DOMAIN grants.expires \in SUBSET Nat
  BY PreviewParts
<1>2. GrantsOK
  BY DEF PreviewInv
<1> QED BY <1>1, <1>2 DEF Live, GrantsOK

\* A message on its way by what the invariant says of it.
LEMMA MessageParts ==
  ASSUME PreviewAssumption, PreviewInv, NEW m \in messages
  PROVE  /\ m \in Mails /\ MessageOK(m) /\ m.token \in Nat /\ m.token <= grants.last
         /\ Confirming(m) => ServedUntil(m.token, m.expires) /\ m.token # NoLease
<1>1. m \in Mails /\ MessageOK(m) /\ (Confirming(m) => ServedUntil(m.token, m.expires))
  BY PreviewParts DEF PreviewInv, MessagesOK, ServedOK
<1>2. Confirming(m) => m.token # NoLease
  BY <1>1 DEF MessageOK, Confirming, Carrying, Renewing
<1> QED BY <1>1, <1>2, MailFields DEF MessageOK

\* The record of the grants by its fields.
LEMMA GrantFields ==
  ASSUME NEW g, NEW l \in Nat, NEW e \in Expiries, g = [last |-> l, expires |-> e]
  PROVE  g \in [last : Nat, expires : Expiries] /\ g.last = l /\ g.expires = e
OBVIOUS

\* A lease is granted.
LEMMA CreateKeeps ==
  ASSUME PreviewAssumption, PreviewInv, NEW m \in messages, m.kind = "create",
         UNCHANGED <<now, views, previewActs>>,
         grants' = [last |-> grants.last + 1, expires |-> Grant(Live, grants.last + 1)],
         Answer(m, TRUE, grants.last + 1)
  PROVE  PreviewInv'
<1> DEFINE t == grants.last + 1
           e == Grant(Live, t)
           yes == TRUE
           u == now + LeaseTime
           n == Reply(m, "created", yes, t, u)
<1>1. grants.last \in Nat /\ t \in Nat /\ u \in Nat /\ now \in Nat
  BY PreviewParts
<1>2. m \in Mails /\ MessageOK(m) /\ yes \in BOOLEAN
  BY MessageParts
<1>3. messages' = (messages \ {m}) \union {n}
  BY <1>1, AnswerSends DEF Outcome
<1>4. n \in Mails /\ n.kind = "created" /\ n.view = m.view /\ n.attempt = m.attempt /\ n.token = t
      /\ n.ok = TRUE /\ n.expires = u
  <2> DEFINE c == "created"
             r == Reply(m, c, yes, t, u)
  <2>1. c \in Kinds /\ n = r
    BY DEF Kinds
  <2>2. yes = TRUE /\ c = "created"
    OBVIOUS
  <2> HIDE DEF t, u, n, yes, c
  <2>3. /\ r \in Mails /\ r.kind = c /\ r.view = m.view /\ r.attempt = m.attempt /\ r.token = t
        /\ r.ok = yes /\ r.expires = u
    BY <1>1, <1>2, <2>1, ReplyFields
  <2> HIDE DEF r
  <2> QED BY <2>1, <2>2, <2>3
<1>5. /\ e \in Expiries /\ DOMAIN e = Live \union {t} /\ e[t] = u
      /\ \A x \in Live : x # t => e[x] = grants.expires[x]
  BY <1>1, LiveFields, Granted
<1>6. grants' = [last |-> t, expires |-> e]
  OBVIOUS
<1> HIDE DEF t, e, n, u
<1>7. grants' \in [last : Nat, expires : Expiries] /\ grants'.last = t /\ grants'.expires = e
  BY <1>1, <1>5, <1>6
<1>8. grants.last < t
  BY <1>1 DEF t
<1>9. \A x \in Live \ {t} : x \in DOMAIN grants'.expires /\ grants.expires[x] <= grants'.expires[x]
  BY <1>5, <1>7, LiveFields
<1>10. \A x \in DOMAIN grants'.expires : x # NoLease /\ x <= grants'.last
       /\ grants'.expires[x] <= now + LeaseTime
  BY <1>1, <1>5, <1>7, <1>8, LiveFields, PreviewParts DEF u, NoLease
<1>11. MessagesOK'
  BY <1>1, <1>2, <1>3, <1>4, <1>7, <1>8, MessagesSwap DEF Answering, Renewing
<1>12. \A v \in Views : views[v].token # t
  BY <1>1, <1>8, ViewFields DEF PreviewInv, TokensOK
<1>13. \A o \in messages' : Confirming(o) =>
         (o \in messages /\ o.token # t) \/ (o.token \in DOMAIN grants'.expires
         /\ o.expires <= grants'.expires[o.token])
  BY <1>1, <1>3, <1>4, <1>5, <1>7, <1>8, MessageParts
<1>14. ASSUME previewActs.losses = 0, NEW x \in DOMAIN grants'.expires
       PROVE  (\E v \in Views : views[v].token = x) \/ \E o \in messages' : o.token = x /\ Carrying(o)
  <2>1. CASE x = t
    BY <1>3, <1>4, <2>1 DEF Carrying, Holding
  <2>2. CASE x \in Live
    <3>1. Accounted(x)
      BY <1>14, <2>2, LiveFields DEF PreviewInv, AccountedOK
    <3>2. ~Carrying(m)
      BY DEF Carrying, Holding
    <3> QED BY <1>3, <3>1, <3>2 DEF Accounted
  <2> QED BY <1>5, <1>7, <2>1, <2>2
<1>15. messages' \subseteq Mails
  BY <1>3, <1>4, PreviewParts
<1>16. grants.last <= grants'.last
  BY <1>1, <1>7, <1>8
<1> QED BY <1>7, <1>9, <1>10, <1>11, <1>12, <1>13, <1>14, <1>15, <1>16, ServerKeeps

\* What expired goes away.
LEMMA ExpiredGo ==
  ASSUME PreviewAssumption, PreviewInv, UNCHANGED <<now, views, previewActs>>,
         NEW T \in SUBSET DOMAIN grants.expires, grants' = [grants EXCEPT !.expires = Only(T)],
         NEW x, Live \ {x} \subseteq T,
         messages' \subseteq Mails, MessagesOK',
         \A v \in Views : views[v].token # NoLease => views[v].token # x,
         \A m \in messages' : Confirming(m) => m \in messages /\ m.token # x,
         previewActs.losses = 0 => \A t \in T :
           (\E v \in Views : views[v].token = t) \/ \E m \in messages' : m.token = t /\ Carrying(m)
  PROVE  PreviewInv'
<1> DEFINE e == Only(T)
<1>1. e \in Expiries /\ DOMAIN e = T /\ \A t \in T : e[t] = grants.expires[t]
  BY OnlyKept
<1>2. grants' = [grants EXCEPT !.expires = e]
  OBVIOUS
<1> HIDE DEF e
<1>3. grants = [last |-> grants.last, expires |-> grants.expires] /\ grants.last \in Nat
  BY PreviewParts
<1>4. grants' = [last |-> grants.last, expires |-> e]
  BY <1>2, <1>3
<1>5. grants' \in [last : Nat, expires : Expiries] /\ grants'.last = grants.last
      /\ grants'.expires = e
  BY <1>1, <1>3, <1>4
<1>6. \A t \in Live \ {x} : t \in DOMAIN grants'.expires /\ grants.expires[t] <= grants'.expires[t]
  BY <1>1, <1>5, LiveFields
<1>7. \A t \in DOMAIN grants'.expires : t # NoLease /\ t <= grants'.last
      /\ grants'.expires[t] <= now + LeaseTime
  BY <1>1, <1>5, LiveFields
<1>8. grants.last <= grants'.last
  BY <1>3, <1>5
<1> QED BY <1>1, <1>5, <1>6, <1>7, <1>8, ServerKeeps

\* A lease is refused: every place is taken, or the lease has gone.
LEMMA LeaseRefusedKeeps ==
  ASSUME PreviewAssumption, PreviewInv, NEW m \in messages, m.kind \in {"create", "renew"},
         UNCHANGED <<now, views, previewActs>>, grants' = [grants EXCEPT !.expires = Only(Live)],
         NEW t \in Nat, t = NoLease \/ t = m.token, m.kind = "renew" => t = m.token,
         Answer(m, FALSE, t)
  PROVE  PreviewInv'
<1> DEFINE no == FALSE
           u == now + LeaseTime
           k == Outcome(m)
           n == Reply(m, k, no, t, u)
<1>1. grants.last \in Nat /\ u \in Nat /\ now \in Nat
  BY PreviewParts
<1>2. m \in Mails /\ MessageOK(m) /\ no \in BOOLEAN /\ m.token <= grants.last /\ m.token \in Nat
  BY MessageParts
<1>3. messages' = (messages \ {m}) \union {n}
  BY <1>1, AnswerSends
<1>4. k \in Kinds /\ (m.kind = "create" => k = "created") /\ (m.kind = "renew" => k = "renewed")
  BY DEF Kinds, Outcome
<1> HIDE DEF k, u
<1>5. n \in Mails /\ n.kind = k /\ n.view = m.view /\ n.attempt = m.attempt /\ n.token = t
      /\ n.ok = FALSE
  <2>1. no = FALSE
    OBVIOUS
  <2> HIDE DEF no
  <2>2. n \in Mails /\ n.kind = k /\ n.view = m.view /\ n.attempt = m.attempt /\ n.token = t
        /\ n.ok = no
    BY <1>1, <1>2, <1>4, ReplyFields
  <2> HIDE DEF n
  <2> QED BY <2>1, <2>2
<1> HIDE DEF n
<1>6. grants = [last |-> grants.last, expires |-> grants.expires]
  BY PreviewParts
<1>7. grants'.last = grants.last
  BY <1>6
<1>8. t <= grants.last
  BY <1>1, <1>2 DEF NoLease
<1>9. (Answering(n) <=> Answering(m)) /\ (Renewing(n) <=> Renewing(m)) /\ ~Holding(n)
      /\ n.kind # "release"
  BY <1>4, <1>5 DEF Answering, Renewing, Holding
<1>10. Renewing(n) => n.token = m.token
  BY <1>4, <1>5 DEF Renewing
<1>11. MessagesOK'
  BY <1>1, <1>2, <1>3, <1>5, <1>7, <1>8, <1>9, <1>10, MessagesSwap
<1>12. messages' \subseteq Mails
  BY <1>3, <1>5, PreviewParts
<1>13. \A v \in Views : views[v].token # NoLease => views[v].token # NoLease
  OBVIOUS
<1>14. ~Confirming(n) /\ ~Carrying(m)
  BY <1>4, <1>5 DEF Confirming, Carrying, Holding
<1>15. \A o \in messages' : Confirming(o) => o \in messages /\ o.token # NoLease
  BY <1>3, <1>14, MessageParts
<1>16. ASSUME previewActs.losses = 0, NEW x \in Live
       PROVE  (\E v \in Views : views[v].token = x) \/ \E o \in messages' : o.token = x /\ Carrying(o)
  <2>1. Accounted(x)
    BY <1>16, LiveFields DEF PreviewInv, AccountedOK
  <2> QED BY <1>3, <1>14, <2>1 DEF Accounted
<1>17. Live \in SUBSET DOMAIN grants.expires
  BY LiveFields
<1> QED BY <1>11, <1>12, <1>13, <1>15, <1>16, <1>17, ExpiredGo

\* A lease is renewed: it is served longer than the view knows.
LEMMA RenewKeeps ==
  ASSUME PreviewAssumption, PreviewInv, NEW m \in messages, m.kind = "renew", m.token \in Live,
         UNCHANGED <<now, views, previewActs>>,
         grants' = [grants EXCEPT !.expires = Grant(Live, m.token)], Answer(m, TRUE, m.token)
  PROVE  PreviewInv'
<1> DEFINE t == m.token
           e == Grant(Live, t)
           yes == TRUE
           u == now + LeaseTime
           n == Reply(m, "renewed", yes, t, u)
<1>1. grants.last \in Nat /\ t \in Nat /\ u \in Nat /\ now \in Nat
  BY PreviewParts, MessageParts
<1>2. m \in Mails /\ MessageOK(m) /\ yes \in BOOLEAN /\ t <= grants.last
  BY MessageParts
<1>3. messages' = (messages \ {m}) \union {n}
  BY <1>1, AnswerSends DEF Outcome
<1>4. n \in Mails /\ n.kind = "renewed" /\ n.view = m.view /\ n.attempt = m.attempt /\ n.token = t
      /\ n.ok = TRUE /\ n.expires = u
  <2> DEFINE c == "renewed"
             r == Reply(m, c, yes, t, u)
  <2>1. c \in Kinds /\ n = r
    BY DEF Kinds
  <2>2. yes = TRUE /\ c = "renewed"
    OBVIOUS
  <2> HIDE DEF t, u, n, yes, c
  <2>3. /\ r \in Mails /\ r.kind = c /\ r.view = m.view /\ r.attempt = m.attempt /\ r.token = t
        /\ r.ok = yes /\ r.expires = u
    BY <1>1, <1>2, <2>1, ReplyFields
  <2> HIDE DEF r
  <2> QED BY <2>1, <2>2, <2>3
<1>5. /\ e \in Expiries /\ DOMAIN e = Live \union {t} /\ e[t] = u
      /\ \A x \in Live : x # t => e[x] = grants.expires[x]
  BY <1>1, LiveFields, Granted
<1>6. grants' = [grants EXCEPT !.expires = e] /\ t \in Live
  OBVIOUS
<1> HIDE DEF e, n, u
<1>7. grants = [last |-> grants.last, expires |-> grants.expires]
  BY PreviewParts
<1>8. grants' = [last |-> grants.last, expires |-> e]
  BY <1>6, <1>7
<1>9. grants' \in [last : Nat, expires : Expiries] /\ grants'.last = grants.last
      /\ grants'.expires = e
  <2>1. grants' = [last |-> grants.last, expires |-> e] /\ e \in Expiries /\ grants.last \in Nat
    BY <1>1, <1>5, <1>8
  <2> QED BY ONLY <2>1, GrantFields, Zenon
<1>10. DOMAIN e = Live /\ \A x \in Live : grants.expires[x] <= e[x] /\ e[x] <= u
  BY <1>1, <1>5, <1>6, LiveFields DEF u
<1>11. \A x \in Live \ {NoLease} : x \in DOMAIN grants'.expires
       /\ grants.expires[x] <= grants'.expires[x]
  BY <1>9, <1>10
<1>12. \A x \in DOMAIN grants'.expires : x # NoLease /\ x <= grants'.last
       /\ grants'.expires[x] <= now + LeaseTime
  BY <1>9, <1>10, LiveFields DEF u
<1>13. MessagesOK'
  BY <1>1, <1>2, <1>3, <1>4, <1>9, MessagesSwap DEF Answering, Renewing, Holding
<1>14. \A o \in messages' : Confirming(o) =>
         (o \in messages /\ o.token # NoLease) \/ (o.token \in DOMAIN grants'.expires
         /\ o.expires <= grants'.expires[o.token])
  BY <1>1, <1>3, <1>4, <1>5, <1>6, <1>9, <1>10, MessageParts
<1>15. ASSUME previewActs.losses = 0, NEW x \in DOMAIN grants'.expires
       PROVE  (\E v \in Views : views[v].token = x) \/ \E o \in messages' : o.token = x /\ Carrying(o)
  <2>1. Accounted(x)
    BY <1>9, <1>10, <1>15, LiveFields DEF PreviewInv, AccountedOK
  <2>2. ~Carrying(m)
    BY DEF Carrying, Holding
  <2> QED BY <1>3, <2>1, <2>2 DEF Accounted
<1>16. messages' \subseteq Mails
  BY <1>3, <1>4, PreviewParts
<1>17. grants.last <= grants'.last
  BY <1>1, <1>9
<1> QED BY <1>9, <1>11, <1>12, <1>13, <1>14, <1>15, <1>16, <1>17, ServerKeeps

\* A lease is given back: nobody shows it any more.
LEMMA RevokeKeeps ==
  ASSUME PreviewAssumption, PreviewInv, NEW m \in messages, Revoke(m),
         UNCHANGED <<now, views, previewActs>>
  PROVE  PreviewInv'
<1> DEFINE T == DOMAIN grants.expires \ {m.token}
<1>1. m.kind = "release" /\ grants' = [grants EXCEPT !.expires = Only(T)]
      /\ messages' = messages \ {m}
  BY DEF Revoke, Send
<1>2. m \in Mails /\ MessageOK(m)
  BY MessageParts
<1>3. m.token # NoLease /\ \A v \in Views : views[v].token # m.token
  BY <1>1, <1>2 DEF MessageOK, Carrying
<1>4. T \in SUBSET DOMAIN grants.expires /\ Live \ {m.token} \subseteq T
  BY LiveFields
<1>5. \A o \in messages' : Confirming(o) => o \in messages /\ o.token # m.token
  <2>1. ASSUME NEW o \in messages', Confirming(o) PROVE o.token # m.token
    <3>1. o \in messages /\ MessageOK(o) /\ o \in Mails /\ PairOK(o, m)
      BY <1>1, MessageParts DEF PreviewInv, MessagesOK
    <3>2. CASE Holding(o)
      BY <1>1, <3>1, <3>2 DEF PairOK
    <3>3. CASE o.kind = "renewed" /\ Ours(o)
      BY <1>3, <3>1, <3>3, MailFields DEF MessageOK, Renewing
    <3> QED BY <2>1, <3>2, <3>3 DEF Confirming
  <2> QED BY <1>1, <2>1
<1>6. grants = [last |-> grants.last, expires |-> grants.expires]
  BY PreviewParts
<1>7. grants'.last = grants.last
  BY <1>1, <1>6
<1>8. MessagesOK' /\ messages' \subseteq Mails
  BY <1>1, <1>7, MessagesGo, PreviewParts
<1>9. ASSUME previewActs.losses = 0, NEW x \in T
      PROVE  (\E v \in Views : views[v].token = x) \/ \E o \in messages' : o.token = x /\ Carrying(o)
  <2>1. Accounted(x)
    BY <1>9 DEF PreviewInv, AccountedOK
  <2> QED BY <1>1, <2>1 DEF Accounted
<1> HIDE DEF T
<1> QED BY <1>1, <1>3, <1>4, <1>5, <1>8, <1>9, ExpiredGo

\* The server's steps.
LEMMA ServerStepKeeps == ASSUME PreviewAssumption, PreviewInv, ServePreview PROVE PreviewInv'
<1>1. PICK m \in messages : (Create(m) \/ Renew(m) \/ Revoke(m))
      /\ UNCHANGED <<now, views, previewActs>>
  BY DEF ServePreview
<1>2. CASE Create(m)
  <2>1. m.kind = "create" /\ NoLease \in Nat
    BY <1>2 DEF Create, NoLease
  <2>2. CASE Cardinality(Live) < MaxGrants
    <3>1. grants' = [last |-> grants.last + 1, expires |-> Grant(Live, grants.last + 1)]
          /\ Answer(m, TRUE, grants.last + 1)
      BY <1>2, <2>2 DEF Create
    <3> QED BY <1>1, <2>1, <3>1, CreateKeeps
  <2>3. CASE ~(Cardinality(Live) < MaxGrants)
    <3>1. grants' = [grants EXCEPT !.expires = Only(Live)] /\ Answer(m, FALSE, NoLease)
      BY <1>2, <2>3 DEF Create
    <3> QED BY <1>1, <2>1, <3>1, LeaseRefusedKeeps
  <2> QED BY <2>2, <2>3
<1>3. CASE Renew(m)
  <2>1. m.kind = "renew" /\ m.token \in Nat
    BY <1>3, MessageParts DEF Renew
  <2>2. CASE m.token \in Live
    <3>1. grants' = [grants EXCEPT !.expires = Grant(Live, m.token)] /\ Answer(m, TRUE, m.token)
      BY <1>3, <2>2 DEF Renew
    <3> QED BY <1>1, <2>1, <2>2, <3>1, RenewKeeps
  <2>3. CASE m.token \notin Live
    <3>1. grants' = [grants EXCEPT !.expires = Only(Live)] /\ Answer(m, FALSE, m.token)
      BY <1>3, <2>3 DEF Renew
    <3> QED BY <1>1, <2>1, <3>1, LeaseRefusedKeeps
  <2> QED BY <2>2, <2>3
<1> QED BY <1>1, <1>2, <1>3, RevokeKeeps

\* Expired grants go.
LEMMA GoneKeeps == ASSUME PreviewAssumption, PreviewInv, GrantExpires PROVE PreviewInv'
<1>1. grants' = [grants EXCEPT !.expires = Only(Live)]
      /\ UNCHANGED <<now, views, messages, previewActs>>
  BY DEF GrantExpires
<1>2. grants = [last |-> grants.last, expires |-> grants.expires] /\ messages \subseteq Mails
  BY PreviewParts
<1>3. grants'.last = grants.last
  BY <1>1, <1>2
<1>4. MessagesOK' /\ messages' \subseteq Mails
  BY <1>1, <1>2, <1>3, MessagesGo
<1>5. Live \in SUBSET DOMAIN grants.expires
  BY LiveFields
<1>6. \A o \in messages' : Confirming(o) => o \in messages /\ o.token # NoLease
  BY <1>1, MessageParts
<1>7. ASSUME previewActs.losses = 0, NEW x \in Live
      PROVE  (\E v \in Views : views[v].token = x) \/ \E o \in messages' : o.token = x /\ Carrying(o)
  <2>1. Accounted(x)
    BY <1>7, LiveFields DEF PreviewInv, AccountedOK
  <2> QED BY <1>1, <2>1 DEF Accounted
<1>8. \A v \in Views : views[v].token # NoLease => views[v].token # NoLease
  OBVIOUS
<1> QED BY <1>1, <1>4, <1>5, <1>6, <1>7, <1>8, ExpiredGo

\* A view that keeps what it holds, while messages go, come or are answered.
LEMMA SameKeeps ==
  ASSUME PreviewAssumption, PreviewInv, UNCHANGED <<now, grants>>,
         previewActs' \in [acts : Nat, losses : Nat],
         NEW v \in Views, NEW x \in ViewStates, views' = [views EXCEPT ![v] = x],
         x.attempt = views[v].attempt, x.active = views[v].active, x.token = views[v].token,
         x.shown = views[v].shown, x.token # NoLease => ServedUntil(x.token, x.until),
         NEW old, NEW new, messages' = (messages \ old) \union new, new \subseteq Mails,
         \A n \in new : MessageOK(n) /\ ~Confirming(n),
         \A n \in new, o \in messages \ old : PairOK(n, o) /\ PairOK(o, n),
         \A n, o \in new : PairOK(n, o),
         previewActs'.losses = 0 => previewActs.losses = 0,
         previewActs'.losses = 0 => \A o \in old \intersect messages :
           Carrying(o) => \E n \in new : n.token = o.token /\ Carrying(n)
  PROVE  PreviewInv'
<1>1. /\ \A w \in Views : /\ views'[w].token = views[w].token /\ views'[w].attempt = views[w].attempt
                          /\ views'[w].active = views[w].active /\ views'[w].shown = views[w].shown
      /\ \A w \in Views : w # v => views'[w].until = views[w].until
      /\ views'[v].until = x.until /\ views' \in [Views -> ViewStates]
  BY PreviewParts
<1>2. \A o \in Mails : (Ours(o)' <=> Ours(o)) /\ (MessageOK(o) => MessageOK(o)')
      /\ (Confirming(o)' => Confirming(o))
  <2> SUFFICES ASSUME NEW o \in Mails
               PROVE  (Ours(o)' <=> Ours(o)) /\ (MessageOK(o) => MessageOK(o)')
                      /\ (Confirming(o)' => Confirming(o))
    OBVIOUS
  <2>1. o.view \in Views
    BY MailFields
  <2>2. Ours(o)' <=> Ours(o)
    BY <1>1, <2>1 DEF Ours
  <2>3. MessageOK(o) => MessageOK(o)'
    BY <1>1, <2>1, <2>2 DEF MessageOK, Answering, Renewing, Carrying, Holding
  <2>4. Confirming(o)' => Confirming(o)
    BY <2>2 DEF Confirming, Holding
  <2> QED BY <2>2, <2>3, <2>4
<1>3. messages' \subseteq Mails
  BY PreviewParts
<1>4. MessagesOK'
  <2>1. \A o \in messages' : MessageOK(o)'
    BY <1>2, <1>3, MessageParts
  <2>2. \A o, p \in messages' : PairOK(o, p)
    BY DEF PreviewInv, MessagesOK
  <2>3. \A o, p : PairOK(o, p) => PairOK(o, p)'
    BY DEF PairOK, Answering, Holding
  <2> QED BY <2>1, <2>2, <2>3 DEF MessagesOK
<1>5. GrantsOK' /\ TokensOK'
  BY <1>1 DEF PreviewInv, GrantsOK, TokensOK
<1>6. \A t, until : ServedUntil(t, until) => ServedUntil(t, until)'
  BY DEF ServedUntil
<1>7. ServedOK'
  <2>1. ASSUME NEW w \in Views,
        views'[w].token # NoLease PROVE ServedUntil(views'[w].token, views'[w].until)
    <3>1. CASE w = v
      BY <1>1, <2>1, <3>1
    <3>2. CASE w # v
      BY <1>1, <2>1, <3>2 DEF PreviewInv, ServedOK
    <3> QED BY <3>1, <3>2
  <2>2. ASSUME NEW o \in messages', Confirming(o)' PROVE ServedUntil(o.token, o.expires)
    <3>1. Confirming(o) /\ o \in messages
      BY <1>2, <1>3, <2>2
    <3> QED BY <3>1, MessageParts
  <2> QED BY <1>6, <2>1, <2>2 DEF ServedOK
<1>8. AccountedOK'
  <2>1. ASSUME previewActs'.losses = 0, NEW t \in DOMAIN grants.expires
        PROVE  (\E w \in Views : views'[w].token = t) \/ \E o \in messages' : o.token = t
               /\ Carrying(o)
    <3>1. Accounted(t)
      BY <2>1 DEF PreviewInv, AccountedOK
    <3> QED BY <1>1, <2>1, <3>1 DEF Accounted
  <2> QED BY <2>1 DEF AccountedOK, Accounted, Carrying, Holding
<1>9. PreviewTypeInv'
  BY <1>1, <1>3 DEF PreviewInv, PreviewTypeInv
<1> QED BY <1>4, <1>5, <1>7, <1>8, <1>9 DEF PreviewInv

\* A view that holds nothing any more: what it held is given back.
LEMMA DropKeeps ==
  ASSUME PreviewAssumption, PreviewInv, UNCHANGED <<now, grants>>,
         previewActs' \in [acts : Nat, losses : Nat],
         previewActs'.losses = previewActs.losses,
         NEW v \in Views, NEW x \in ViewStates, views' = [views EXCEPT ![v] = x],
         x.token = NoLease, x.shown = NoLease, views[v].attempt <= x.attempt,
         x.active => views[v].attempt < x.attempt,
         NEW old, NEW new, messages' = (messages \ old) \union Released(v) \union new,
         \A o \in old \intersect messages : ~Carrying(o),
         new \subseteq Mails, \A n, o \in new : n = o,
         \A n \in new : /\ n.kind = "create" /\ n.view = v /\ n.attempt = x.attempt
                           /\ n.token = NoLease
                        /\ views[v].attempt < x.attempt
  PROVE  PreviewInv'
<1>1. /\ \A w \in Views : w # v => views'[w] = views[w]
      /\ views'[v] = x /\ views' \in [Views -> ViewStates]
  BY PreviewParts
<1>2. x.attempt \in Nat /\ views[v].attempt \in Nat /\ views[v].token \in Nat /\ grants.last \in Nat
      /\ views[v].token <= grants.last
  BY PreviewParts, ViewFields DEF ViewStates, PreviewInv, TokensOK
<1>3. ASSUME NEW r \in Released(v)
      PROVE  /\ r \in Mails /\ r.kind = "release" /\ r.view = v /\ r.attempt = 0
                /\ r.token = views[v].token
             /\ views[v].token # NoLease
  <2> DEFINE k == "release"
             no == FALSE
             z == 0
             t == views[v].token
             q == [kind |-> k, view |-> v, attempt |-> z, token |-> t, ok |-> no, expires |-> z]
  <2>1. r = q /\ t # NoLease /\ t \in Nat
    BY <1>2 DEF Released, Message
  <2>2. k \in Kinds /\ no \in BOOLEAN /\ z \in Nat /\ k = "release" /\ z = 0
    BY DEF Kinds
  <2> HIDE DEF k, no, z, t
  <2>3. q \in Mails /\ q.kind = k /\ q.view = v /\ q.attempt = z /\ q.token = t
    BY <2>1, <2>2 DEF Mails
  <2> HIDE DEF q
  <2> QED BY <2>1, <2>2, <2>3 DEF t
<1>4. views[v].token # NoLease => \E r \in Released(v) : TRUE
  BY DEF Released
<1>5. \A o \in messages : o.view = v => ~Ours(o)'
  <2>1. ASSUME NEW o \in messages, o.view = v, Ours(o)' PROVE FALSE
    <3>1. x.active /\ x.attempt = o.attempt
      BY <1>1, <2>1 DEF Ours
    <3>2. o.attempt \in Nat /\ o.attempt <= views[v].attempt
      BY <2>1, MessageParts, MailFields DEF MessageOK
    <3> QED BY <1>2, <3>1, <3>2
  <2> QED BY <2>1
<1>6. \A o \in messages : o.view # v => (Ours(o)' <=> Ours(o))
  BY <1>1, PreviewParts, MailFields DEF Ours
<1>7. ASSUME NEW o \in messages PROVE MessageOK(o)'
  <2>1. o \in Mails /\ MessageOK(o) /\ o.view \in Views /\ o.attempt \in Nat
    BY MessageParts, MailFields
  <2>2. Carrying(o) => \A w \in Views : views'[w].token # o.token
    BY <1>1, <2>1 DEF MessageOK
  <2>3. o.attempt <= views'[o.view].attempt
    BY <1>1, <1>2, <2>1 DEF MessageOK
  <2>4. Ours(o)' => Ours(o) /\ views'[o.view] = views[o.view]
    BY <1>1, <1>5, <1>6, <2>1
  <2> QED BY <2>1, <2>2, <2>3, <2>4 DEF MessageOK, Answering, Renewing, Carrying, Holding
<1>8. ASSUME NEW r \in Released(v) PROVE MessageOK(r)'
  <2>1. \A w \in Views : views'[w].token # r.token
    BY <1>1, <1>3 DEF PreviewInv, TokensOK
  <2> QED BY <1>1, <1>2, <1>3, <2>1 DEF MessageOK, Answering, Renewing
<1>9. ASSUME NEW n \in new PROVE MessageOK(n)'
  BY <1>1, <1>2 DEF MessageOK, Answering, Renewing, Carrying, Holding, NoLease
<1>10. messages' \subseteq Mails
  BY <1>3, PreviewParts
<1>11. MessagesOK'
  <2>1. ASSUME NEW o \in messages, NEW r \in Released(v) PROVE PairOK(o, r) /\ PairOK(r, o)
    <3>1. Holding(o) => o.token # r.token
      BY <1>3, MessageParts DEF MessageOK, Carrying
    <3> QED BY <1>3, <3>1 DEF PairOK, Answering, Holding
  <2>2. ASSUME NEW o \in messages, NEW n \in new PROVE PairOK(o, n) /\ PairOK(n, o)
    <3>1. o.view = v => o.attempt # n.attempt
      BY <1>2, MessageParts, MailFields DEF MessageOK
    <3> QED BY <3>1 DEF PairOK, Holding
  <2>3. ASSUME NEW n \in new, NEW r \in Released(v) PROVE PairOK(n, r) /\ PairOK(r, n)
    BY <1>3 DEF PairOK, Answering, Holding
  <2>4. ASSUME NEW r \in Released(v), NEW s \in Released(v) PROVE PairOK(r, s)
    BY <1>3 DEF PairOK, Answering, Holding
  <2>5. ASSUME NEW n \in new, NEW o \in new PROVE PairOK(n, o)
    BY DEF PairOK, Holding
  <2>6. \A o, p \in messages' : PairOK(o, p)
    BY <2>1, <2>2, <2>3, <2>4, <2>5 DEF PreviewInv, MessagesOK
  <2>7. \A o, p : PairOK(o, p) => PairOK(o, p)'
    BY DEF PairOK, Answering, Holding
  <2> QED BY <1>7, <1>8, <1>9, <2>6, <2>7 DEF MessagesOK
<1>12. GrantsOK' /\ TokensOK'
  <2>1. \A w \in Views : views'[w].shown = views'[w].token /\ views'[w].token <= grants.last
    BY <1>1, <1>2 DEF PreviewInv, TokensOK, NoLease
  <2>2. \A w, y \in Views : views'[w].token = views'[y].token /\ views'[w].token # NoLease => w = y
    BY <1>1 DEF PreviewInv, TokensOK
  <2> QED BY <2>1, <2>2 DEF PreviewInv, GrantsOK, TokensOK
<1>13. \A t, until : ServedUntil(t, until) => ServedUntil(t, until)'
  BY DEF ServedUntil
<1>14. ServedOK'
  <2>1. ASSUME NEW w \in Views,
        views'[w].token # NoLease PROVE ServedUntil(views'[w].token, views'[w].until)
    BY <1>1, <2>1 DEF PreviewInv, ServedOK
  <2>2. ASSUME NEW o \in messages', Confirming(o)' PROVE ServedUntil(o.token, o.expires)
    <3>1. o \in messages
      BY <1>3, <2>2 DEF Confirming, Holding
    <3>2. Confirming(o)
      BY <1>5, <1>6, <2>2, <3>1 DEF Confirming, Holding
    <3> QED BY <3>1, <3>2, MessageParts
  <2> QED BY <1>13, <2>1, <2>2 DEF ServedOK
<1>15. AccountedOK'
  <2>1. ASSUME previewActs'.losses = 0, NEW t \in DOMAIN grants.expires
        PROVE  (\E w \in Views : views'[w].token = t) \/ \E o \in messages' : o.token = t
               /\ Carrying(o)
    <3>1. Accounted(t) /\ t # NoLease
      BY <2>1, LiveFields DEF PreviewInv, AccountedOK
    <3>2. CASE \E w \in Views : views[w].token = t /\ w # v
      BY <1>1, <3>2
    <3>3. CASE views[v].token = t
      BY <1>3, <1>4, <3>1, <3>3 DEF Carrying
    <3>4. CASE \E o \in messages : o.token = t /\ Carrying(o)
      BY <3>4
    <3> QED BY <3>1, <3>2, <3>3, <3>4 DEF Accounted
  <2> QED BY <2>1 DEF AccountedOK, Accounted, Carrying, Holding
<1>16. PreviewTypeInv'
  BY <1>1, <1>10 DEF PreviewInv, PreviewTypeInv
<1> QED BY <1>11, <1>12, <1>14, <1>15, <1>16 DEF PreviewInv

\* A message that a view sends.
LEMMA SentFields ==
  ASSUME NEW k \in Kinds, NEW v \in Views, NEW n \in Nat, NEW t \in Nat
  PROVE  /\ Message(k, v, n, t) \in Mails /\ Message(k, v, n, t).kind = k
            /\ Message(k, v, n, t).view = v
         /\ Message(k, v, n, t).attempt = n /\ Message(k, v, n, t).token = t
            /\ ~Message(k, v, n, t).ok
<1> DEFINE no == FALSE
           z == 0
           r == [kind |-> k, view |-> v, attempt |-> n, token |-> t, ok |-> no, expires |-> z]
<1>1. Message(k, v, n, t) = r /\ no \in BOOLEAN /\ z \in Nat /\ ~no
  BY DEF Message
<1> HIDE DEF no, z
<1>2. r \in Mails /\ r.kind = k /\ r.view = v /\ r.attempt = n /\ r.token = t /\ ~r.ok
  BY <1>1 DEF Mails
<1> HIDE DEF r
<1> QED BY <1>1, <1>2

\* A view by one field that changes.
LEMMA ActiveSet ==
  ASSUME NEW x \in ViewStates, NEW b \in BOOLEAN, NEW y, y = [x EXCEPT !.active = b]
  PROVE  /\ y \in ViewStates /\ y.active = b /\ y.attempt = x.attempt /\ y.token = x.token
         /\ y.until = x.until /\ y.renewAt = x.renewAt /\ y.shown = x.shown /\ y.error = x.error
BY DEF ViewStates

\* The same for the token.
LEMMA TokenSet ==
  ASSUME NEW x \in ViewStates, NEW b \in Nat, NEW y, y = [x EXCEPT !.token = b]
  PROVE  /\ y \in ViewStates /\ y.active = x.active /\ y.attempt = x.attempt /\ y.token = b
         /\ y.until = x.until /\ y.renewAt = x.renewAt /\ y.shown = x.shown /\ y.error = x.error
BY DEF ViewStates

\* The same for the time until which the view knows of its lease.
LEMMA UntilSet ==
  ASSUME NEW x \in ViewStates, NEW b \in Nat, NEW y, y = [x EXCEPT !.until = b]
  PROVE  /\ y \in ViewStates /\ y.active = x.active /\ y.attempt = x.attempt /\ y.token = x.token
         /\ y.until = b /\ y.renewAt = x.renewAt /\ y.shown = x.shown /\ y.error = x.error
BY DEF ViewStates

\* The same for the time of the renewal.
LEMMA RenewAtSet ==
  ASSUME NEW x \in ViewStates, NEW b \in Nat, NEW y, y = [x EXCEPT !.renewAt = b]
  PROVE  /\ y \in ViewStates /\ y.active = x.active /\ y.attempt = x.attempt /\ y.token = x.token
         /\ y.until = x.until /\ y.renewAt = b /\ y.shown = x.shown /\ y.error = x.error
BY DEF ViewStates

\* The same for what is on screen.
LEMMA ShownSet ==
  ASSUME NEW x \in ViewStates, NEW b \in Nat, NEW y, y = [x EXCEPT !.shown = b]
  PROVE  /\ y \in ViewStates /\ y.active = x.active /\ y.attempt = x.attempt /\ y.token = x.token
         /\ y.until = x.until /\ y.renewAt = x.renewAt /\ y.shown = b /\ y.error = x.error
BY DEF ViewStates

\* The same for the error.
LEMMA ErrorShown ==
  ASSUME NEW x \in ViewStates, NEW b \in BOOLEAN, NEW y, y = [x EXCEPT !.error = b]
  PROVE  /\ y \in ViewStates /\ y.active = x.active /\ y.attempt = x.attempt /\ y.token = x.token
         /\ y.until = x.until /\ y.renewAt = x.renewAt /\ y.shown = x.shown /\ y.error = b
BY DEF ViewStates

\* The same for the attempt.
LEMMA AttemptSet ==
  ASSUME NEW x \in ViewStates, NEW b \in Nat, NEW y, y = [x EXCEPT !.attempt = b]
  PROVE  /\ y \in ViewStates /\ y.active = x.active /\ y.attempt = b /\ y.token = x.token
         /\ y.until = x.until /\ y.renewAt = x.renewAt /\ y.shown = x.shown /\ y.error = x.error
BY DEF ViewStates

\* What a view is that was closed.
ClosedView(v) == [Stopped(views[v]) EXCEPT !.shown = NoLease]

\* A view that was closed, or whose lease expired, holds nothing.
LEMMA ClosedFields ==
  ASSUME PreviewAssumption, PreviewInv, NEW v \in Views, NEW x, x \in {ClosedView(v), Expired(v)}
  PROVE  /\ x \in ViewStates /\ x.token = NoLease /\ x.shown = NoLease /\ ~x.active
         /\ x.attempt = views[v].attempt
<1> DEFINE no == FALSE
           yes == TRUE
           none == NoLease
           a == [views[v] EXCEPT !.active = no]
           b == [a EXCEPT !.token = none]
           c == [b EXCEPT !.shown = none]
           d == [c EXCEPT !.error = yes]
<1>1. views[v] \in ViewStates /\ no \in BOOLEAN /\ yes \in BOOLEAN /\ none \in Nat /\ ~no
  BY ViewFields DEF NoLease
<1>2. ClosedView(v) = c /\ Expired(v) = d
  BY DEF ClosedView, Expired, Stopped
<1> HIDE DEF no, yes
<1>3. a \in ViewStates /\ a.active = no /\ a.attempt = views[v].attempt
  BY <1>1, ActiveSet
<1> HIDE DEF a, none
<1>4. b \in ViewStates /\ b.active = no /\ b.attempt = views[v].attempt /\ b.token = none
  BY <1>1, <1>3, TokenSet
<1> HIDE DEF b
<1>5. c \in ViewStates /\ c.active = no /\ c.attempt = views[v].attempt /\ c.token = none
      /\ c.shown = none
  BY <1>1, <1>4, ShownSet
<1> HIDE DEF c
<1>6. d \in ViewStates /\ d.active = no /\ d.attempt = views[v].attempt /\ d.token = none
      /\ d.shown = none
  BY <1>1, <1>5, ErrorShown
<1> HIDE DEF d
<1> QED BY <1>1, <1>2, <1>5, <1>6 DEF none

\* The counters of what the user does and of what is lost.
LEMMA ActCounts ==
  ASSUME PreviewAssumption, PreviewInv
  PROVE  /\ Act => previewActs' \in [acts : Nat, losses : Nat]
            /\ previewActs'.losses = previewActs.losses
         /\ UNCHANGED previewActs => previewActs' \in [acts : Nat, losses : Nat]
            /\ previewActs'.losses = previewActs.losses
<1>1. previewActs \in [acts : Nat, losses : Nat]
  BY PreviewParts
<1> QED BY <1>1 DEF Act

\* A preview is opened, or opened once more.
LEMMA MountKeeps ==
  ASSUME PreviewAssumption, PreviewInv, NEW v \in Views, MountPreview(v)
  PROVE  PreviewInv'
<1> DEFINE n == views[v].attempt + 1
           none == NoLease
           yes == TRUE
           k == "create"
           y == [Blank EXCEPT !.attempt = n]
           x == [y EXCEPT !.active = yes]
           new == {Message(k, v, n, none)}
<1>1. /\ Act /\ UNCHANGED <<now, grants>> /\ views' = [views EXCEPT ![v] = x]
      /\ messages' = (messages \ {}) \union Released(v) \union new
  BY DEF MountPreview, Send
<1>2. Blank \in ViewStates /\ Blank.token = NoLease /\ Blank.shown = NoLease /\ none \in Nat
      /\ yes \in BOOLEAN
      /\ k \in Kinds /\ k = "create"
  BY DEF Blank, ViewStates, NoLease, Kinds
<1>3. n \in Nat /\ views[v].attempt \in Nat /\ views[v].attempt < n
  BY ViewFields
<1> HIDE DEF yes, k, n
<1>4. y \in ViewStates /\ y.attempt = n /\ y.token = NoLease /\ y.shown = NoLease
  BY <1>2, <1>3, AttemptSet
<1> HIDE DEF y
<1>5. x \in ViewStates /\ x.attempt = n /\ x.token = NoLease /\ x.shown = NoLease
  BY <1>2, <1>4, ActiveSet
<1> HIDE DEF x
<1>6. /\ Message(k, v, n, none) \in Mails /\ Message(k, v, n, none).kind = k
      /\ Message(k, v, n, none).view = v /\ Message(k, v, n, none).attempt = n
      /\ Message(k, v, n, none).token = none
  BY <1>2, <1>3, SentFields
<1>7. new \subseteq Mails /\ (\A o, p \in new : o = p)
  BY <1>6
<1>8. \A o \in new : /\ o.kind = "create" /\ o.view = v /\ o.attempt = x.attempt /\ o.token = NoLease
                     /\ views[v].attempt < x.attempt
  BY <1>2, <1>3, <1>5, <1>6 DEF none
<1> HIDE DEF new
<1>9. \A o \in {} \intersect messages : ~Carrying(o)
  OBVIOUS
<1>10. previewActs' \in [acts : Nat, losses : Nat] /\ previewActs'.losses = previewActs.losses
  BY <1>1, ActCounts
<1>11. views[v].attempt <= x.attempt /\ views[v].attempt < x.attempt
  BY <1>3, <1>5
<1> QED BY <1>1, <1>5, <1>7, <1>8, <1>9, <1>10, <1>11, DropKeeps

\* A view that is closed, or whose lease is over: the message that said so was no lease.
LEMMA ViewGoneKeeps ==
  ASSUME PreviewAssumption, PreviewInv, UNCHANGED <<now, grants>>,
         Act \/ UNCHANGED previewActs, NEW v \in Views, NEW x, x \in {ClosedView(v), Expired(v)},
         views' = [views EXCEPT ![v] = x],
         NEW old, messages' = (messages \ old) \union Released(v),
         \A o \in old \intersect messages : ~Carrying(o)
  PROVE  PreviewInv'
<1>1. /\ x \in ViewStates /\ x.token = NoLease /\ x.shown = NoLease /\ ~x.active
      /\ x.attempt = views[v].attempt /\ views[v].attempt \in Nat
  BY ClosedFields, ViewFields
<1>2. previewActs' \in [acts : Nat, losses : Nat] /\ previewActs'.losses = previewActs.losses
  BY ActCounts
<1> DEFINE new == {}
<1>3. messages' = (messages \ old) \union Released(v) \union new /\ new \subseteq Mails
      /\ (\A n, o \in new : n = o)
  OBVIOUS
<1>4. \A n \in new : /\ n.kind = "create" /\ n.view = v /\ n.attempt = x.attempt /\ n.token = NoLease
                     /\ views[v].attempt < x.attempt
  OBVIOUS
<1> HIDE DEF new
<1>5. views[v].attempt <= x.attempt
  BY <1>1
<1> QED BY <1>1, <1>2, <1>3, <1>4, <1>5, DropKeeps

\* The preview is closed.
LEMMA CloseKeeps ==
  ASSUME PreviewAssumption, PreviewInv, NEW v \in Views, Close(v) \/ ExpiryDue(v)
  PROVE  PreviewInv'
<1>1. /\ UNCHANGED <<now, grants>> /\ (Act \/ UNCHANGED previewActs)
      /\ messages' = (messages \ {}) \union Released(v)
      /\ \E x \in {ClosedView(v), Expired(v)} : views' = [views EXCEPT ![v] = x]
  BY DEF Close, ExpiryDue, Send, ClosedView
<1>2. \A o \in {} \intersect messages : ~Carrying(o)
  OBVIOUS
<1> QED BY <1>1, <1>2, ViewGoneKeeps

\* What the view holds of its lease is what the server said.
LEMMA HeldServed ==
  ASSUME PreviewAssumption, PreviewInv, NEW v \in Views
  PROVE  views[v].token # NoLease => ServedUntil(views[v].token, views[v].until)
BY DEF PreviewInv, ServedOK

\* Messages go, and views keep what they hold.
LEMMA GoKeeps ==
  ASSUME PreviewAssumption, PreviewInv, UNCHANGED <<now, grants>>,
         previewActs' \in [acts : Nat, losses : Nat],
         NEW v \in Views, NEW x \in ViewStates, views' = [views EXCEPT ![v] = x],
         x.attempt = views[v].attempt, x.active = views[v].active, x.token = views[v].token,
         x.shown = views[v].shown, x.token # NoLease => ServedUntil(x.token, x.until),
         NEW old, messages' = messages \ old,
         previewActs'.losses = 0 => previewActs.losses = 0,
         previewActs'.losses = 0 => \A o \in old \intersect messages : ~Carrying(o)
  PROVE  PreviewInv'
<1> DEFINE new == {}
<1>1. messages' = (messages \ old) \union new /\ new \subseteq Mails
      /\ (\A n \in new : MessageOK(n) /\ ~Confirming(n))
      /\ (\A n \in new, o \in messages \ old : PairOK(n, o) /\ PairOK(o, n))
      /\ (\A n, o \in new : PairOK(n, o))
  OBVIOUS
<1>2. previewActs'.losses = 0 => \A o \in old \intersect messages :
        Carrying(o) => \E n \in new : n.token = o.token /\ Carrying(n)
  OBVIOUS
<1> HIDE DEF new
<1> QED BY <1>1, <1>2, SameKeeps

\* A lease that comes too late is given back.
LEMMA CreatedLateKeeps ==
  ASSUME PreviewAssumption, PreviewInv, NEW m \in messages, CreatedLate(m)
  PROVE  PreviewInv'
<1> DEFINE v == m.view
           x == views[v]
           old == {m}
<1>1. m.kind = "created" /\ ~Ours(m) /\ UNCHANGED <<now, grants, views, previewActs>>
  BY DEF CreatedLate
<1>2. m \in Mails /\ MessageOK(m) /\ v \in Views /\ m.token \in Nat /\ m.token <= grants.last
  BY MessageParts, MailFields
<1>3. x \in ViewStates /\ (x.token # NoLease => ServedUntil(x.token, x.until)) /\ x.attempt \in Nat
  BY <1>2, ViewFields, HeldServed
<1>4. views' = [views EXCEPT ![v] = x]
  BY <1>1, <1>2, PreviewParts
<1>5. previewActs' \in [acts : Nat, losses : Nat] /\ previewActs'.losses = previewActs.losses
  BY <1>1, ActCounts
<1>6. CASE ~m.ok
  <2>1. messages' = messages \ old
    BY <1>6 DEF CreatedLate, Send
  <2>2. \A o \in old \intersect messages : ~Carrying(o)
    BY <1>1, <1>6 DEF Carrying, Holding
  <2> HIDE DEF old, v, x
  <2> QED BY <1>1, <1>2, <1>3, <1>4, <1>5, <2>1, <2>2, GoKeeps DEF x
<1>7. CASE m.ok
  <2> DEFINE k == "release"
             z == 0
             r == Message(k, v, z, m.token)
             new == {r}
  <2>1. messages' = (messages \ old) \union new
    BY <1>7 DEF CreatedLate, Send
  <2>2. k \in Kinds /\ z \in Nat /\ k = "release" /\ z = 0
    BY DEF Kinds
  <2> HIDE DEF k, z
  <2>3. r \in Mails /\ r.kind = k /\ r.view = v /\ r.attempt = z /\ r.token = m.token
    BY <1>2, <2>2, SentFields
  <2> HIDE DEF r
  <2>4. m.token # NoLease /\ \A w \in Views : views[w].token # m.token
    BY <1>1, <1>2, <1>7 DEF MessageOK, Carrying, Holding
  <2>5. MessageOK(r) /\ ~Confirming(r) /\ Carrying(r)
    BY <1>2, <1>3, <2>2, <2>3, <2>4 DEF MessageOK, Confirming, Carrying, Holding, Answering, Renewing
  <2>6. ASSUME NEW o \in messages \ old PROVE PairOK(r, o) /\ PairOK(o, r)
    <3>1. PairOK(o, m)
      BY DEF PreviewInv, MessagesOK
    <3>2. Holding(o) => o.token # m.token
      BY <1>1, <1>7, <3>1 DEF PairOK, Holding
    <3> QED BY <2>2, <2>3, <3>2 DEF PairOK, Answering, Holding
  <2>7. PairOK(r, r)
    BY <2>2, <2>3 DEF PairOK, Answering, Holding
  <2>8. /\ new \subseteq Mails /\ (\A n \in new : MessageOK(n) /\ ~Confirming(n))
        /\ (\A n \in new, o \in messages \ old : PairOK(n, o) /\ PairOK(o, n))
        /\ (\A n, o \in new : PairOK(n, o))
    BY <2>3, <2>5, <2>6, <2>7
  <2>9. \A o \in old \intersect messages : Carrying(o) => \E n \in new : n.token = o.token
        /\ Carrying(n)
    BY <2>3, <2>5
  <2> HIDE DEF new, old, v, x
  <2> QED BY <1>1, <1>2, <1>3, <1>4, <1>5, <2>1, <2>8, <2>9, SameKeeps DEF x
<1> QED BY <1>2, <1>6, <1>7, MailFields

\* A lease is granted to the view that asked for it.
LEMMA HeldKeeps ==
  ASSUME PreviewAssumption, PreviewInv, UNCHANGED <<now, grants, previewActs>>,
         NEW m \in messages, m.kind = "created", Ours(m), m.ok,
         NEW x \in ViewStates, views' = [views EXCEPT ![m.view] = x],
         x.attempt = views[m.view].attempt, x.active = views[m.view].active,
         x.token = m.token, x.shown = m.token, x.until = m.expires, messages' = messages \ {m}
  PROVE  PreviewInv'
<1> DEFINE v == m.view
<1>1. /\ m \in Mails /\ MessageOK(m) /\ v \in Views /\ m.token \in Nat /\ m.token <= grants.last
      /\ ServedUntil(m.token, m.expires) /\ Holding(m)
  BY MessageParts, MailFields DEF Confirming, Holding
<1>2. m.token # NoLease /\ (\A w \in Views : views[w].token # m.token) /\ views[v].token = NoLease
  BY <1>1 DEF MessageOK, Carrying, Answering
<1>3. /\ \A w \in Views : w # v => views'[w] = views[w]
      /\ views'[v] = x /\ views' \in [Views -> ViewStates]
  BY <1>1, PreviewParts
<1>4. \A o \in Mails : Ours(o)' <=> Ours(o)
  BY <1>3, MailFields DEF Ours
<1>5. ASSUME NEW o \in messages, o # m PROVE MessageOK(o)'
  <2>1. o \in Mails /\ MessageOK(o) /\ o.view \in Views /\ PairOK(o, m)
    BY MessageParts, MailFields DEF PreviewInv, MessagesOK
  <2>2. Carrying(o) => \A w \in Views : views'[w].token # o.token
    <3>1. Carrying(o) => o.token # m.token
      <4>1. PairOK(m, o)
        BY DEF PreviewInv, MessagesOK
      <4> QED BY <1>1, <1>5, <4>1, <2>1 DEF PairOK, Carrying
    <3> QED BY <1>3, <2>1, <3>1 DEF MessageOK
  <2>3. o.attempt <= views'[o.view].attempt
    BY <1>3, <2>1 DEF MessageOK
  <2>4. Answering(o) /\ Ours(o) => o.view # v
    BY <1>5, <2>1 DEF PairOK, Ours, Answering
  <2>5. Renewing(o) /\ Ours(o) => o.view # v
    BY <1>2, <2>1 DEF MessageOK
  <2>6. (Answering(o) /\ Ours(o)' => views'[o.view].token = NoLease)
        /\ (Renewing(o) /\ Ours(o)' => views'[o.view].token = o.token /\ o.token # NoLease)
    BY <1>3, <1>4, <2>1, <2>4, <2>5 DEF MessageOK
  <2> QED BY <2>1, <2>2, <2>3, <2>6 DEF MessageOK, Answering, Renewing, Carrying, Holding
<1>6. MessagesOK'
  <2>1. \A o, p : PairOK(o, p) => PairOK(o, p)'
    BY DEF PairOK, Answering, Holding
  <2> QED BY <1>5, <2>1 DEF PreviewInv, MessagesOK
<1>7. GrantsOK' /\ TokensOK'
  <2>1. \A w \in Views : views'[w].shown = views'[w].token /\ views'[w].token <= grants.last
    BY <1>1, <1>3 DEF PreviewInv, TokensOK
  <2>2. \A w, y \in Views : views'[w].token = views'[y].token /\ views'[w].token # NoLease => w = y
    BY <1>2, <1>3 DEF PreviewInv, TokensOK
  <2> QED BY <2>1, <2>2 DEF PreviewInv, GrantsOK, TokensOK
<1>8. \A t, until : ServedUntil(t, until) => ServedUntil(t, until)'
  BY DEF ServedUntil
<1>9. ServedOK'
  <2>1. ASSUME NEW w \in Views,
        views'[w].token # NoLease PROVE ServedUntil(views'[w].token, views'[w].until)
    <3>1. CASE w = v
      BY <1>1, <1>3, <3>1
    <3>2. CASE w # v
      BY <1>3, <2>1, <3>2 DEF PreviewInv, ServedOK
    <3> QED BY <3>1, <3>2
  <2>2. ASSUME NEW o \in messages', Confirming(o)' PROVE ServedUntil(o.token, o.expires)
    <3>1. o \in messages /\ o \in Mails
      BY MessageParts
    <3>2. Confirming(o)
      BY <1>4, <2>2, <3>1 DEF Confirming, Holding
    <3> QED BY <3>1, <3>2, MessageParts
  <2> QED BY <1>8, <2>1, <2>2 DEF ServedOK
<1>10. AccountedOK'
  <2>1. ASSUME previewActs'.losses = 0, NEW t \in DOMAIN grants.expires
        PROVE  (\E w \in Views : views'[w].token = t) \/ \E o \in messages' : o.token = t
               /\ Carrying(o)
    <3>1. Accounted(t) /\ t # NoLease
      BY <2>1, LiveFields DEF PreviewInv, AccountedOK
    <3>2. CASE \E w \in Views : views[w].token = t
      BY <1>2, <1>3, <3>1, <3>2
    <3>3. CASE \E o \in messages : o.token = t /\ Carrying(o)
      BY <1>1, <1>3, <3>3
    <3> QED BY <3>1, <3>2, <3>3 DEF Accounted
  <2> QED BY <2>1 DEF AccountedOK, Accounted, Carrying, Holding
<1>11. PreviewTypeInv'
  BY <1>3 DEF PreviewInv, PreviewTypeInv
<1> QED BY <1>6, <1>7, <1>9, <1>10, <1>11 DEF PreviewInv

\* The answer to a view that asked for a lease.
LEMMA CreatedKeeps ==
  ASSUME PreviewAssumption, PreviewInv, NEW m \in messages, Created(m)
  PROVE  PreviewInv'
<1> DEFINE v == m.view
           yes == TRUE
           next == now + 1
           t == m.token
           a == [views[v] EXCEPT !.token = t]
           b == [a EXCEPT !.shown = t]
           c == [b EXCEPT !.until = m.expires]
           x == [c EXCEPT !.renewAt = next]
           e == [views[v] EXCEPT !.error = yes]
<1>1. m.kind = "created" /\ Ours(m) /\ UNCHANGED <<now, grants, previewActs>>
      /\ messages' = messages \ {m}
  BY DEF Created, Send
<1>2. v \in Views /\ t \in Nat /\ m.expires \in Nat /\ next \in Nat /\ yes \in BOOLEAN
  BY MessageParts, MailFields, PreviewParts
<1>3. views[v] \in ViewStates
  BY <1>2, ViewFields
<1>4. CASE m.ok
  <2>1. views' = [views EXCEPT ![m.view] = x]
    <3>1. views' = [views EXCEPT ![m.view] =
                      [views[m.view] EXCEPT !.token = m.token, !.shown = m.token, !.until = m.expires,
                                            !.renewAt = now + 1]]
      BY <1>4 DEF Created
    <3> QED BY <3>1
  <2> HIDE DEF next, t
  <2>2. a \in ViewStates /\ a.token = t /\ a.attempt = views[v].attempt /\ a.active = views[v].active
    BY <1>2, <1>3, TokenSet
  <2> HIDE DEF a
  <2>3. b \in ViewStates /\ b.token = t /\ b.shown = t /\ b.attempt = views[v].attempt
        /\ b.active = views[v].active
    BY <1>2, <2>2, ShownSet
  <2> HIDE DEF b
  <2>4. c \in ViewStates /\ c.token = t /\ c.shown = t /\ c.attempt = views[v].attempt
        /\ c.active = views[v].active
        /\ c.until = m.expires
    BY <1>2, <2>3, UntilSet
  <2> HIDE DEF c
  <2>5. x \in ViewStates /\ x.token = t /\ x.shown = t /\ x.attempt = views[v].attempt
        /\ x.active = views[v].active
        /\ x.until = m.expires
    BY <1>2, <2>4, RenewAtSet
  <2> HIDE DEF x
  <2> QED BY <1>1, <1>4, <2>1, <2>5, HeldKeeps DEF t
<1>5. CASE ~m.ok
  <2> DEFINE old == {m}
  <2>1. views' = [views EXCEPT ![v] = e] /\ messages' = messages \ old
    BY <1>1, <1>5 DEF Created
  <2> HIDE DEF yes
  <2>2. /\ e \in ViewStates /\ e.token = views[v].token /\ e.attempt = views[v].attempt
        /\ e.active = views[v].active /\ e.shown = views[v].shown /\ e.until = views[v].until
    BY <1>2, <1>3, ErrorShown
  <2> HIDE DEF e
  <2>3. e.token # NoLease => ServedUntil(e.token, e.until)
    BY <1>2, <2>2, HeldServed
  <2>4. \A o \in old \intersect messages : ~Carrying(o)
    BY <1>1, <1>5 DEF Carrying, Holding
  <2>5. previewActs' \in [acts : Nat, losses : Nat] /\ previewActs'.losses = previewActs.losses
    BY <1>1, ActCounts
  <2> HIDE DEF old, v
  <2> QED BY <1>1, <1>2, <2>1, <2>2, <2>3, <2>4, <2>5, GoKeeps
<1> QED BY <1>4, <1>5

\* The renewal of a lease is asked for.
LEMMA RenewalKeeps ==
  ASSUME PreviewAssumption, PreviewInv, NEW v \in Views, RenewalDue(v)
  PROVE  PreviewInv'
<1> DEFINE next == now + 1
           x == [views[v] EXCEPT !.renewAt = next]
           t == views[v].token
           n == views[v].attempt
           k == "renew"
           r == Message(k, v, n, t)
           new == {r}
<1>1. /\ t # NoLease /\ UNCHANGED <<now, grants, previewActs>>
         /\ messages' = (messages \ {}) \union new
      /\ views' = [views EXCEPT ![v] = x]
  BY DEF RenewalDue, Send
<1>2. /\ next \in Nat /\ t \in Nat /\ n \in Nat /\ views[v] \in ViewStates /\ k \in Kinds
         /\ k = "renew"
      /\ t <= grants.last
  BY PreviewParts, ViewFields DEF Kinds, PreviewInv, TokensOK
<1> HIDE DEF next, k
<1>3. /\ x \in ViewStates /\ x.token = t /\ x.attempt = n /\ x.active = views[v].active
      /\ x.shown = views[v].shown /\ x.until = views[v].until
  BY <1>2, RenewAtSet
<1> HIDE DEF x
<1>4. x.token # NoLease => ServedUntil(x.token, x.until)
  BY <1>3, HeldServed
<1> HIDE DEF t, n
<1>5. r \in Mails /\ r.kind = k /\ r.view = v /\ r.attempt = n /\ r.token = t
  BY <1>2, SentFields
<1> HIDE DEF r
<1>6. MessageOK(r) /\ ~Confirming(r)
  BY <1>1, <1>2, <1>5 DEF MessageOK, Confirming, Carrying, Holding, Answering, t, n
<1>7. \A o : PairOK(r, o) /\ PairOK(o, r)
  BY <1>2, <1>5 DEF PairOK, Answering, Holding
<1>8. /\ new \subseteq Mails /\ (\A m \in new : MessageOK(m) /\ ~Confirming(m))
      /\ (\A m \in new, o \in messages \ {} : PairOK(m, o) /\ PairOK(o, m))
      /\ (\A m, o \in new : PairOK(m, o))
  BY <1>5, <1>6, <1>7
<1>9. \A o \in {} \intersect messages : Carrying(o) => \E m \in new : m.token = o.token /\ Carrying(m)
  OBVIOUS
<1>10. previewActs' \in [acts : Nat, losses : Nat] /\ previewActs'.losses = previewActs.losses
  BY <1>1, ActCounts
<1> HIDE DEF new
<1> QED BY <1>1, <1>3, <1>4, <1>8, <1>9, <1>10, SameKeeps DEF t, n

\* The lease is extended as far as the server says, or it has gone.
LEMMA RenewedKeeps ==
  ASSUME PreviewAssumption, PreviewInv, NEW m \in messages, Renewed(m)
  PROVE  PreviewInv'
<1> DEFINE v == m.view
           old == {m}
<1>1. m.kind = "renewed" /\ UNCHANGED <<now, grants, previewActs>>
  BY DEF Renewed
<1>2. m \in Mails /\ MessageOK(m) /\ v \in Views /\ m.token \in Nat /\ m.expires \in Nat
  BY MessageParts, MailFields
<1>3. views[v] \in ViewStates
      /\ (views[v].token # NoLease => ServedUntil(views[v].token, views[v].until))
  BY <1>2, ViewFields, HeldServed
<1>4. \A o \in old \intersect messages : ~Carrying(o)
  BY <1>1 DEF Carrying, Holding
<1>5. previewActs' \in [acts : Nat, losses : Nat] /\ previewActs'.losses = previewActs.losses
  BY <1>1, ActCounts
<1>6. CASE ~Ours(m)
  <2> DEFINE x == views[v]
  <2>1. messages' = messages \ old /\ views' = views
    BY <1>6 DEF Renewed, Send
  <2>2. views' = [views EXCEPT ![v] = x]
    BY <1>2, <2>1, PreviewParts
  <2> HIDE DEF old, v, x
  <2> QED BY <1>1, <1>2, <1>3, <1>4, <1>5, <2>1, <2>2, GoKeeps DEF x
<1>7. CASE Ours(m) /\ m.ok
  <2> DEFINE u == m.expires
             x == [views[v] EXCEPT !.until = u]
  <2>1. messages' = messages \ old /\ views' = [views EXCEPT ![v] = x]
    BY <1>7 DEF Renewed, Send
  <2> HIDE DEF u
  <2>2. /\ x \in ViewStates /\ x.token = views[v].token /\ x.attempt = views[v].attempt
        /\ x.active = views[v].active /\ x.shown = views[v].shown /\ x.until = u
    BY <1>2, <1>3, UntilSet DEF u
  <2> HIDE DEF x
  <2>3. views[v].token = m.token /\ ServedUntil(m.token, u)
    BY <1>1, <1>2, <1>7, MessageParts DEF MessageOK, Renewing, Confirming, u
  <2>4. x.token # NoLease => ServedUntil(x.token, x.until)
    BY <2>2, <2>3
  <2> HIDE DEF old, v
  <2> QED BY <1>1, <1>2, <1>4, <1>5, <2>1, <2>2, <2>4, GoKeeps
<1>8. CASE Ours(m) /\ ~m.ok
  <2>1. messages' = (messages \ old) \union Released(v) /\ views' = [views EXCEPT ![v] = Expired(v)]
    BY <1>8 DEF Renewed, Send
  <2>2. Expired(v) \in {ClosedView(v), Expired(v)}
    OBVIOUS
  <2> HIDE DEF old, v
  <2> QED BY <1>1, <1>2, <1>4, <2>1, <2>2, ViewGoneKeeps
<1> QED BY <1>6, <1>7, <1>8

\* A request or an answer is lost.
LEMMA LoseKeeps ==
  ASSUME PreviewAssumption, PreviewInv, NEW m \in messages, Lose(m)
  PROVE  PreviewInv'
<1> DEFINE v == m.view
           old == {m}
           yes == TRUE
           e == [views[v] EXCEPT !.error = yes]
           x == IF m.kind \in {"create", "created"} /\ Ours(m) THEN e ELSE views[v]
<1>1. /\ previewActs' = [previewActs EXCEPT !.losses = @ + 1] /\ UNCHANGED <<now, grants>>
      /\ views' = [views EXCEPT ![v] = x] /\ messages' = messages \ old
  BY DEF Lose, Send
<1>2. v \in Views /\ yes \in BOOLEAN
  BY MessageParts, MailFields
<1>3. views[v] \in ViewStates
      /\ (views[v].token # NoLease => ServedUntil(views[v].token, views[v].until))
  BY <1>2, ViewFields, HeldServed
<1> HIDE DEF yes
<1>4. /\ e \in ViewStates /\ e.token = views[v].token /\ e.attempt = views[v].attempt
      /\ e.active = views[v].active /\ e.shown = views[v].shown /\ e.until = views[v].until
  BY <1>2, <1>3, ErrorShown
<1> HIDE DEF e
<1>5. /\ x \in ViewStates /\ x.token = views[v].token /\ x.attempt = views[v].attempt
      /\ x.active = views[v].active /\ x.shown = views[v].shown /\ x.until = views[v].until
  BY <1>3, <1>4
<1> HIDE DEF x
<1>6. x.token # NoLease => ServedUntil(x.token, x.until)
  BY <1>3, <1>5
<1>7. previewActs' \in [acts : Nat, losses : Nat] /\ previewActs'.losses # 0
  BY <1>1, PreviewParts
<1> HIDE DEF old, v
<1> QED BY <1>1, <1>2, <1>5, <1>6, <1>7, GoKeeps

\* Every step keeps the invariant.
LEMMA PreviewSteps == ASSUME PreviewAssumption, PreviewInv, PreviewNext PROVE PreviewInv'
<1>1. CASE Tick
  BY <1>1, TickKeeps
<1>2. CASE ServePreview
  BY <1>2, ServerStepKeeps
<1>3. CASE GrantExpires
  BY <1>3, GoneKeeps
<1>4. CASE \E v \in Views : MountPreview(v) \/ Close(v) \/ RenewalDue(v) \/ ExpiryDue(v)
  <2>1. PICK v \in Views : MountPreview(v) \/ Close(v) \/ RenewalDue(v) \/ ExpiryDue(v)
    BY <1>4
  <2> QED BY <2>1, MountKeeps, CloseKeeps, RenewalKeeps
<1>5. CASE \E m \in messages : CreatedLate(m) \/ Created(m) \/ Renewed(m) \/ Lose(m)
  <2>1. PICK m \in messages : CreatedLate(m) \/ Created(m) \/ Renewed(m) \/ Lose(m)
    BY <1>5
  <2> QED BY <2>1, CreatedLateKeeps, CreatedKeeps, RenewedKeeps, LoseKeeps
<1> QED BY <1>1, <1>2, <1>3, <1>4, <1>5 DEF PreviewNext

\* Nothing changes.
LEMMA PreviewStutters == ASSUME PreviewInv, UNCHANGED previewVars PROVE PreviewInv'
BY DEF previewVars, PreviewInv, PreviewTypeInv, GrantsOK, TokensOK, MessagesOK, MessageOK, PairOK,
  ServedOK, ServedUntil,
       AccountedOK, Accounted, Confirming, Holding, Answering, Renewing, Carrying, Ours

\* What is on screen is served; what is kept is held by a view.
LEMMA PreviewImplies == ASSUME PreviewAssumption, PreviewInv PROVE PreviewsAreGranted
<1>1. ASSUME NEW v \in Views, views[v].shown # NoLease, now < views[v].until
      PROVE  views[v].shown \in Live /\ views[v].until <= grants.expires[views[v].shown]
  <2>1. views[v].shown = views[v].token /\ views[v].until \in Nat
    BY ViewFields DEF PreviewInv, TokensOK
  <2>2. ServedUntil(views[v].token, views[v].until)
    BY <1>1, <2>1, HeldServed
  <2>3. views[v].token \in DOMAIN grants.expires /\ views[v].until <= grants.expires[views[v].token]
    BY <1>1, <2>2 DEF ServedUntil
  <2>4. now \in Nat /\ grants.expires[views[v].token] \in Nat
    BY <2>3, LiveFields, PreviewParts
  <2>5. now < grants.expires[views[v].token]
    BY <1>1, <2>1, <2>3, <2>4
  <2> QED BY <2>1, <2>3, <2>5 DEF Live
<1>2. ASSUME messages = {}, previewActs.losses = 0 PROVE Live \subseteq {views[v].token : v \in Views}
  <2>1. ASSUME NEW t \in Live PROVE t \in {views[v].token : v \in Views}
    <3>1. Accounted(t)
      BY <1>2, LiveFields DEF PreviewInv, AccountedOK
    <3> QED BY <1>2, <3>1 DEF Accounted
  <2> QED BY <2>1
<1> QED BY <1>1, <1>2 DEF PreviewsAreGranted

(***************************************************************************)
(* MarkdownPreview                                                         *)
(***************************************************************************)

\* The shapes of the variables.
TextsOrNone == MarkdownTexts \union {NoText}
Jobs == [text : TextsOrNone, effect : Nat]
PreviewStates ==
  [text : MarkdownTexts, effect : Nat \ {0}, value : TextsOrNone, tree : TextsOrNone, error : BOOLEAN]
ClientStates == [at : {"none", "open", "disposed"}, running : Jobs, pending : Jobs]

\* The type of each variable of MarkdownPreview.
MarkdownTypeInv ==
  /\ source \in [text : MarkdownTexts, active : BOOLEAN, pause : BOOLEAN]
  /\ preview \in PreviewStates
  /\ parser \in ClientStates

\* A revision is not newer than the effect, and the one that the effect waits for
\* is of the debounced text.
JobInv(job) == job.effect <= preview.effect /\ (IsCurrent(job) => job.text = preview.text)

\* The client of the worker knows of no effect later than the preview's.
ClientInv ==
  /\ JobInv(parser.running) /\ JobInv(parser.pending)
  /\ parser.running = NoJob => parser.pending = NoJob
  /\ parser.at # "open" => parser.running = NoJob

\* Whatever is not shown yet is waited for, and the debounced text is behind the
\* document only while the pause lasts.
EffectInv ==
  /\ preview.tree # NoText => preview.tree = preview.value
  /\ source.active /\ ~source.pause => preview.text = source.text
  /\ source.active /\ preview.value # preview.text =>
       IsCurrent(parser.running) \/ IsCurrent(parser.pending)

\* The inductive invariant of the preview.
MInv == MarkdownTypeInv /\ ClientInv /\ EffectInv

\* What an effect leaves behind: it waits for a revision of its own, or the state is
\* already of its text, or the preview is hidden.
LEMMA EffectStep ==
  ASSUME MarkdownAssumption,
         NEW STATE p, NEW STATE w, NEW STATE active, active \in BOOLEAN, p \in PreviewStates,
         p.tree # NoText => p.tree = p.value,
         w \in ClientStates,
         w.running.effect <= p.effect, w.pending.effect <= p.effect,
         w.running = NoJob => w.pending = NoJob,
         w.at # "open" => w.running = NoJob,
         Effect(p, active, w)
  PROVE  /\ preview' \in PreviewStates
         /\ parser' \in ClientStates
         /\ preview'.text = p.text
         /\ preview'.tree # NoText => preview'.tree = preview'.value
         /\ ClientInv'
         /\ active /\ preview'.value # preview'.text =>
              (IsCurrent(parser.running) \/ IsCurrent(parser.pending))'
<1> USE DEF PreviewStates, ClientStates, MarkdownAssumption
<1> DEFINE q == [p EXCEPT !.effect = @ + 1]
<1>1. /\ q \in PreviewStates
      /\ q.text = p.text /\ q.value = p.value /\ q.tree = p.tree /\ q.effect = p.effect + 1
  OBVIOUS
<1>2. NoJob \in Jobs /\ NoJob.effect = 0 /\ NoWorker.running = NoJob /\ NoWorker.pending = NoJob
      /\ NoWorker.at = "none" /\ NoWorker \in ClientStates
  BY DEF NoJob, NoWorker, Jobs, TextsOrNone
<1>3. CASE ~active \/ q.value = q.text
  <2>1. preview' = q /\ parser' = w
    BY <1>3 DEF Effect
  <2>2. w.running.effect # q.effect /\ w.pending.effect # q.effect
    BY <1>1 DEF Jobs
  <2> QED
    BY <1>1, <1>3, <2>1, <2>2 DEF ClientInv, JobInv, IsCurrent, Jobs
<1>4. CASE active /\ q.value # q.text /\ w.at = "disposed"
  <2>1. preview' = Failing(q) /\ parser' = NoWorker
    BY <1>4 DEF Effect
  <2>2. /\ preview' \in PreviewStates
        /\ preview'.text = q.text /\ preview'.value = q.text /\ preview'.tree = NoText
    BY <1>1, <2>1 DEF Failing, TextsOrNone
  <2> QED
    BY <1>1, <1>2, <2>1, <2>2 DEF ClientInv, JobInv, IsCurrent
<1>5. CASE active /\ q.value # q.text /\ w.at # "disposed"
  <2> DEFINE job == [text |-> q.text, effect |-> q.effect]
  <2>1. preview' = q /\ parser' = Parse(w, job)
    BY <1>5 DEF Effect
  <2>2. job \in Jobs /\ job # NoJob /\ job.effect = q.effect /\ job.text = q.text
    BY <1>1 DEF Jobs, NoJob, TextsOrNone
  <2>3. CASE w.running = NoJob
    <3>1. parser' = [w EXCEPT !.at = "open", !.running = job]
      BY <2>1, <2>3 DEF Parse
    <3>2. /\ parser' \in ClientStates
          /\ parser'.running = job /\ parser'.pending = NoJob /\ parser'.at = "open"
      BY <2>2, <2>3, <3>1
    <3> QED
      BY <1>1, <1>2, <2>1, <2>2, <3>2 DEF ClientInv, JobInv, IsCurrent
  <2>4. CASE w.running # NoJob
    <3>1. parser' = [w EXCEPT !.pending = job]
      BY <2>1, <2>4 DEF Parse
    <3>2. /\ parser' \in ClientStates
          /\ parser'.running = w.running /\ parser'.pending = job /\ parser'.at = "open"
      BY <2>2, <2>4, <3>1
    <3>3. w.running.effect # q.effect /\ w.running.effect <= q.effect
      BY <1>1 DEF Jobs
    <3> QED
      BY <1>1, <2>1, <2>2, <2>4, <3>2, <3>3 DEF ClientInv, JobInv, IsCurrent
  <2> QED
    BY <2>3, <2>4
<1> QED
  BY <1>3, <1>4, <1>5

\* The first effect has asked for a parse of the text that the document has.
LEMMA InitMInv == ASSUME MarkdownAssumption PROVE MarkdownInit => MInv
<1> USE DEF PreviewStates, ClientStates, MarkdownAssumption
<1> SUFFICES ASSUME MarkdownInit PROVE MInv
  OBVIOUS
<1>1. /\ source.text \in MarkdownTexts /\ source.active = TRUE /\ source.pause = TRUE
      /\ source \in [text : MarkdownTexts, active : BOOLEAN, pause : BOOLEAN]
  BY DEF MarkdownInit
<1>2. /\ parser \in ClientStates
      /\ parser.at = "open" /\ parser.pending = NoJob
      /\ parser.running = [text |-> source.text, effect |-> 1]
  BY <1>1 DEF MarkdownInit, NoWorker, NoJob, Jobs, TextsOrNone
<1>3. /\ preview \in PreviewStates
      /\ preview.text = source.text /\ preview.effect = 1 /\ preview.tree = NoText
  BY <1>1 DEF MarkdownInit, TextsOrNone
<1> QED
  BY <1>1, <1>2, <1>3 DEF MInv, MarkdownTypeInv, ClientInv, EffectInv, JobInv, IsCurrent, NoJob

\* Edits, pauses, answers, failures and crashes keep the invariant.
LEMMA NextMInv ==
  ASSUME MarkdownAssumption, MInv, [MarkdownNext]_markdownVars
  PROVE  MInv'
<1> USE DEF MInv, MarkdownTypeInv, PreviewStates, ClientStates, MarkdownAssumption
<1>0. NoJob \in Jobs /\ NoJob.effect = 0 /\ NoWorker.running = NoJob /\ NoWorker.pending = NoJob
      /\ NoWorker.at = "none" /\ NoWorker \in ClientStates
  BY DEF NoJob, NoWorker, Jobs, TextsOrNone
<1>1. ASSUME NEW t \in MarkdownTexts, Edit(t) PROVE MInv'
  <2>1. /\ preview' = preview /\ parser' = parser
        /\ source' \in [text : MarkdownTexts, active : BOOLEAN, pause : BOOLEAN]
        /\ source'.active = source.active /\ source'.pause = source.active
    BY <1>1 DEF Edit
  <2> QED
    BY <2>1 DEF ClientInv, EffectInv, JobInv, IsCurrent
<1>2. ASSUME PauseEnds PROVE MInv'
  <2>1. /\ source' \in [text : MarkdownTexts, active : BOOLEAN, pause : BOOLEAN]
        /\ source'.active = source.active /\ source'.text = source.text
    BY <1>2 DEF PauseEnds
  <2>2. CASE preview.text = source.text
    BY <1>2, <2>1, <2>2 DEF PauseEnds, ClientInv, EffectInv, JobInv, IsCurrent
  <2>3. CASE preview.text # source.text
    <3> DEFINE p == [preview EXCEPT !.text = source.text]
    <3>1. Effect(p, source.active, parser)
      BY <1>2, <2>3 DEF PauseEnds
    <3>2. /\ p \in PreviewStates
          /\ p.text = source.text /\ p.effect = preview.effect
          /\ p.tree # NoText => p.tree = p.value
      BY DEF EffectInv
    <3>3. source.active \in BOOLEAN
      OBVIOUS
    <3> HIDE DEF p
    <3>4. /\ preview' \in PreviewStates
          /\ parser' \in ClientStates
          /\ preview'.text = p.text
          /\ preview'.tree # NoText => preview'.tree = preview'.value
          /\ ClientInv'
          /\ source.active /\ preview'.value # preview'.text =>
               (IsCurrent(parser.running) \/ IsCurrent(parser.pending))'
      BY <3>1, <3>2, <3>3, EffectStep DEF ClientInv, JobInv
    <3> QED
      BY <2>1, <3>2, <3>4 DEF EffectInv
  <2> QED
    BY <2>2, <2>3
<1>3. ASSUME Activate PROVE MInv'
  <2> DEFINE p == [preview EXCEPT !.text = IF source.active THEN @ ELSE source.text]
  <2>1. /\ source' \in [text : MarkdownTexts, active : BOOLEAN, pause : BOOLEAN]
        /\ source'.active = ~source.active /\ source'.pause = ~source.active
        /\ source'.text = source.text
    BY <1>3 DEF Activate
  <2>2. Effect(p, ~source.active, NoWorker)
    BY <1>3 DEF Activate
  <2>3. /\ p \in PreviewStates
        /\ p.effect = preview.effect
        /\ p.tree # NoText => p.tree = p.value
    BY DEF EffectInv
  <2>4. (~source.active) \in BOOLEAN
    OBVIOUS
  <2>6. NoWorker.running.effect <= p.effect /\ NoWorker.pending.effect <= p.effect
    BY <1>0, <2>3
  <2> HIDE DEF p
  <2>5. /\ preview' \in PreviewStates
        /\ parser' \in ClientStates
        /\ preview'.tree # NoText => preview'.tree = preview'.value
        /\ ClientInv'
        /\ ~source.active /\ preview'.value # preview'.text =>
             (IsCurrent(parser.running) \/ IsCurrent(parser.pending))'
    BY <1>0, <2>2, <2>3, <2>4, <2>6, EffectStep
  <2> QED
    BY <2>1, <2>5 DEF EffectInv
<1>4. ASSUME ParseEnds PROVE MInv'
  <2>1. /\ source' = source /\ parser.running # NoJob
        /\ parser' \in ClientStates
        /\ parser'.running = parser.pending /\ parser'.pending = NoJob /\ parser'.at = parser.at
    BY <1>0, <1>4 DEF ParseEnds
  <2>2. CASE IsCurrent(parser.running)
    <3>1. /\ preview' \in PreviewStates
          /\ preview'.text = preview.text /\ preview'.value = parser.running.text
          /\ preview'.tree = parser.running.text /\ preview'.effect = preview.effect + 1
      <4> DEFINE q == [preview EXCEPT !.value = parser.running.text, !.tree = parser.running.text,
                                      !.error = FALSE, !.effect = @ + 1]
      <4>1. /\ q \in PreviewStates
            /\ q.text = preview.text /\ q.value = parser.running.text
            /\ q.tree = parser.running.text /\ q.effect = preview.effect + 1
        <5>1. parser.running.text \in TextsOrNone /\ preview.effect + 1 \in Nat \ {0}
          BY DEF Jobs
        <5>2. preview \in PreviewStates
          OBVIOUS
        <5> HIDE DEF MInv, MarkdownTypeInv
        <5> QED
          BY <5>1, <5>2
      <4>2. preview' = q
        BY <1>4, <2>2 DEF ParseEnds
      <4> QED
        BY <4>1, <4>2
    <3> QED
      BY <1>0, <2>1, <2>2, <3>1 DEF ClientInv, EffectInv, JobInv, IsCurrent, Jobs
  <2>3. CASE ~IsCurrent(parser.running)
    <3>1. preview' = preview
      BY <1>4, <2>3 DEF ParseEnds
    <3> QED
      BY <1>0, <2>1, <2>3, <3>1 DEF ClientInv, EffectInv, JobInv, IsCurrent, Jobs
  <2> QED
    BY <2>2, <2>3
<1>5. ASSUME UNCHANGED source, parser' = NoWorker,
             preview' = [Failing(preview) EXCEPT !.effect = @ + 1]
      PROVE  MInv'
  <2>1. /\ preview' \in PreviewStates
        /\ preview'.text = preview.text /\ preview'.value = preview.text /\ preview'.tree = NoText
    <3>1. /\ Failing(preview) \in PreviewStates
          /\ Failing(preview).text = preview.text /\ Failing(preview).value = preview.text
          /\ Failing(preview).tree = NoText
      BY DEF Failing, TextsOrNone
    <3> QED
      BY <1>5, <3>1
  <2>2. ClientInv'
    BY <1>0, <1>5, <2>1 DEF ClientInv, JobInv, IsCurrent
  <2>3. EffectInv'
    BY <1>5, <2>1 DEF EffectInv
  <2> QED
    BY <1>0, <1>5, <2>1, <2>2, <2>3
<1>6. ASSUME ParseFails PROVE MInv'
  <2>1. CASE IsCurrent(parser.running)
    <3>1. /\ UNCHANGED source /\ parser' = NoWorker
          /\ preview' = [Failing(preview) EXCEPT !.effect = @ + 1]
      BY <1>6, <2>1 DEF ParseFails
    <3> QED
      BY <1>5, <3>1
  <2>2. CASE ~IsCurrent(parser.running)
    <3>1. /\ source' = source /\ preview' = preview /\ parser.running # NoJob
          /\ parser' \in ClientStates
          /\ parser'.running = parser.pending /\ parser'.pending = NoJob /\ parser'.at = parser.at
      BY <1>0, <1>6, <2>2 DEF ParseFails
    <3> QED
      BY <1>0, <2>2, <3>1 DEF ClientInv, EffectInv, JobInv, IsCurrent, Jobs
  <2> QED
    BY <2>1, <2>2
<1>7. ASSUME WorkerCrashes PROVE MInv'
  <2>1. CASE IsCurrent(parser.running) \/ IsCurrent(parser.pending)
    <3>1. /\ UNCHANGED source /\ parser' = NoWorker
          /\ preview' = [Failing(preview) EXCEPT !.effect = @ + 1]
      BY <1>7, <2>1 DEF WorkerCrashes
    <3> QED
      BY <1>5, <3>1
  <2>2. CASE ~(IsCurrent(parser.running) \/ IsCurrent(parser.pending))
    <3>1. /\ source' = source /\ preview' = preview
          /\ parser' \in ClientStates
          /\ parser'.running = NoJob /\ parser'.pending = NoJob
      BY <1>0, <1>7, <2>2 DEF WorkerCrashes
    <3> QED
      BY <1>0, <2>2, <3>1 DEF ClientInv, EffectInv, JobInv, IsCurrent
  <2> QED
    BY <2>1, <2>2
<1>8. CASE UNCHANGED markdownVars
  BY <1>8 DEF markdownVars, ClientInv, EffectInv, JobInv, IsCurrent
<1> QED
  BY <1>1, <1>2, <1>3, <1>4, <1>6, <1>7, <1>8 DEF MarkdownNext

\* With nothing running nothing waits either, so the preview is of the text.
LEMMA MarkdownImplies == MInv => PreviewIsOfText
BY DEF MInv, ClientInv, EffectInv, PreviewIsOfText, IsCurrent

(***************************************************************************)
(* NpmInstall                                                              *)
(***************************************************************************)

\* The steps of a launcher, what it has of the archive and of its content, and the shapes of
\* the variables.
Steps == {"down", "download", "verify", "extract", "extracting", "copy", "copying", "rename",
          "compare", "clean", "return", "running"}
Archives == {"none", "release", "other"}
Contents == {"none", "part", "release", "other"}
Caches ==
  [executable : {"none", "release"}, notices : {"none", "part", "whole"},
   copier : Launchers \union {0}, torn : BOOLEAN, launches : Nat]
Processes ==
  [at : Steps, archive : Archives, extracted : Contents, ok : BOOLEAN, started : Contents]

\* The type of each variable of NpmInstall.
LauncherTypeInv == cache \in Caches /\ launchers \in [Launchers -> Processes]

\* What a launcher has in hand at each step, and what must be there by then.
ProcessInv(p) ==
  /\ p.at \in {"extract", "extracting"} => p.archive = "release"
  /\ p.at \in {"copy", "copying", "rename", "compare"} => p.extracted = "release"
  /\ p.at \in {"copying", "rename", "compare"} => cache.notices # "none"
  /\ p.at = "compare" \/ p.at = "return" \/ (p.at = "clean" /\ p.ok) => cache.executable = "release"
  /\ p.at = "running" => p.started = "release"
  /\ p.at \in Steps \ {"down", "clean", "return", "running"} => p.ok

\* The notices are there with the executable, and torn or being copied when not whole.
NoticesInv ==
  /\ cache.executable # "none" => cache.notices # "none"
  /\ cache.notices = "part" =>
       cache.torn \/ \E l \in Launchers : l = cache.copier /\ At(l, "copying")

\* The inductive invariant of the launchers.
LInv == LauncherTypeInv /\ NoticesInv /\ \A l \in Launchers : ProcessInv(launchers[l])

\* No launcher runs yet, and the cache is empty.
LEMMA InitLInv == LauncherInit => LInv
<1> SUFFICES ASSUME LauncherInit PROVE LInv
  OBVIOUS
<1>1. Fresh \in Processes /\ Fresh.at = "down"
  BY DEF Fresh, Processes, Steps, Archives, Contents
<1> QED
  BY <1>1 DEF LauncherInit, LInv, LauncherTypeInv, Caches, NoticesInv, ProcessInv, Steps

\* A step of one launcher: the executable, once there, stays the release's, and there
\* are notices from then on, so what is said of the others stays true.
LEMMA LauncherStep ==
  ASSUME LInv, NEW l \in Launchers, NEW p \in Processes,
         launchers' = [launchers EXCEPT ![l] = p], cache' \in Caches,
         cache'.executable = cache.executable \/ cache'.executable = "release",
         cache'.notices = cache.notices \/ cache'.notices # "none",
         NoticesInv', ProcessInv(launchers[l])'
  PROVE  LInv'
<1>1. launchers' \in [Launchers -> Processes]
      /\ \A k \in Launchers \ {l} : launchers'[k] = launchers[k]
  BY DEF LInv, LauncherTypeInv
<1>2. ASSUME NEW k \in Launchers, k # l PROVE ProcessInv(launchers[k])'
  <2>1. launchers'[k] = launchers[k] /\ ProcessInv(launchers[k])
    BY <1>1, <1>2 DEF LInv
  <2> QED
    BY <2>1 DEF LInv, LauncherTypeInv, Caches, ProcessInv, Steps
<1> QED
  BY <1>1, <1>2 DEF LInv, LauncherTypeInv

\* A step that leaves the cache alone and ends no copy.
LEMMA OwnStep ==
  ASSUME LInv, NEW l \in Launchers, NEW p \in Processes, UNCHANGED cache,
         ~At(l, "copying"), launchers' = [launchers EXCEPT ![l] = p], ProcessInv(p)
  PROVE  LInv'
<1>1. launchers'[l] = p /\ \A k \in Launchers \ {l} : launchers'[k] = launchers[k]
  BY DEF LInv, LauncherTypeInv
<1>2. NoticesInv'
  BY <1>1 DEF LInv, NoticesInv, At
<1>3. ProcessInv(launchers[l])'
  BY <1>1 DEF ProcessInv
<1> QED
  BY <1>2, <1>3, LauncherStep DEF LInv, LauncherTypeInv

\* Every step of every launcher keeps the invariant, one that kills it included.
LEMMA NextLInv == LInv /\ [LauncherNext]_launcherVars => LInv'
<1> SUFFICES ASSUME LInv, [LauncherNext]_launcherVars PROVE LInv'
  OBVIOUS
<1> USE DEF Processes, Steps, Archives, Contents
<1>0. ASSUME NEW l \in Launchers
      PROVE  launchers[l] \in Processes /\ ProcessInv(launchers[l]) /\ cache \in Caches
  BY DEF LInv, LauncherTypeInv
<1>1. ASSUME NEW l \in Launchers, Launch(l) PROVE LInv'
  <2> DEFINE p == [Fresh EXCEPT !.at = IF cache.executable = "none" THEN "download" ELSE "return"]
  <2>1. launchers' = [launchers EXCEPT ![l] = p] /\ cache' = [cache EXCEPT !.launches = @ + 1]
    BY <1>1 DEF Launch
  <2>2. p \in Processes /\ p.ok /\ p.at = IF cache.executable = "none" THEN "download" ELSE "return"
    BY DEF Fresh
  <2> HIDE DEF p
  <2>3. launchers'[l] = p /\ \A k \in Launchers \ {l} : launchers'[k] = launchers[k]
    BY <2>1 DEF LInv, LauncherTypeInv
  <2>4. /\ cache' \in Caches /\ cache'.executable = cache.executable
        /\ cache'.notices = cache.notices /\ cache'.copier = cache.copier /\ cache'.torn = cache.torn
    BY <1>0, <2>1 DEF Caches
  <2>5. NoticesInv'
    BY <1>1, <2>3, <2>4 DEF LInv, NoticesInv, At, Launch
  <2>6. ProcessInv(launchers[l])'
    BY <1>0, <2>2, <2>3, <2>4 DEF ProcessInv, Caches
  <2> QED
    BY <2>1, <2>2, <2>4, <2>5, <2>6, LauncherStep
<1>2. ASSUME NEW l \in Launchers, Downloaded(l) PROVE LInv'
  <2>1. ASSUME NEW a \in {"release", "other"},
               launchers' = [launchers EXCEPT ![l].at = "verify", ![l].archive = a]
        PROVE  LInv'
    <3> DEFINE p == [launchers[l] EXCEPT !.at = "verify", !.archive = a]
    <3>1. p \in Processes /\ ProcessInv(p) /\ launchers' = [launchers EXCEPT ![l] = p]
      BY <1>0, <1>2, <2>1 DEF Downloaded, At, ProcessInv
    <3> QED
      BY <1>2, <3>1, OwnStep DEF Downloaded, At
  <2>2. ASSUME Go(l, "down") PROVE LInv'
    <3> DEFINE p == [launchers[l] EXCEPT !.at = "down"]
    <3>1. p \in Processes /\ ProcessInv(p) /\ launchers' = [launchers EXCEPT ![l] = p]
      BY <1>0, <2>2 DEF Go, ProcessInv
    <3> QED
      BY <1>2, <3>1, OwnStep DEF Downloaded, At
  <2> QED
    BY <1>2, <2>1, <2>2 DEF Downloaded
<1>3. ASSUME NEW l \in Launchers, Verified(l) PROVE LInv'
  <2> DEFINE p == [launchers[l] EXCEPT
                     !.at = IF launchers[l].archive = "release" THEN "extract" ELSE "down"]
  <2>1. p \in Processes /\ ProcessInv(p) /\ launchers' = [launchers EXCEPT ![l] = p]
    BY <1>0, <1>3 DEF Verified, At, Go, ProcessInv, Caches
  <2> QED
    BY <1>3, <2>1, OwnStep DEF Verified, At
<1>4. ASSUME NEW l \in Launchers, ExtractionStarts(l) PROVE LInv'
  <2> DEFINE p == [launchers[l] EXCEPT !.at = "extracting", !.extracted = "part"]
  <2>1. p \in Processes /\ ProcessInv(p) /\ launchers' = [launchers EXCEPT ![l] = p]
    BY <1>0, <1>4 DEF ExtractionStarts, At, Go, ProcessInv, Caches
  <2> QED
    BY <1>4, <2>1, OwnStep DEF ExtractionStarts, At
<1>5. ASSUME NEW l \in Launchers, ExtractionEnds(l) PROVE LInv'
  <2> DEFINE p == [launchers[l] EXCEPT !.at = "copy", !.extracted = launchers[l].archive]
             q == [launchers[l] EXCEPT !.at = "clean", !.ok = FALSE]
  <2>1. launchers' = [launchers EXCEPT ![l] = p] \/ launchers' = [launchers EXCEPT ![l] = q]
    BY <1>5 DEF ExtractionEnds
  <2>2. p \in Processes /\ ProcessInv(p)
    BY <1>0, <1>5 DEF ExtractionEnds, At, ProcessInv
  <2>3. q \in Processes /\ ProcessInv(q)
    BY <1>0, <1>5 DEF ExtractionEnds, At, ProcessInv
  <2> QED
    BY <1>5, <2>1, <2>2, <2>3, OwnStep DEF ExtractionEnds, At
<1>6. ASSUME NEW l \in Launchers, CopyStarts(l) PROVE LInv'
  <2>1. CASE cache' = [cache EXCEPT !.notices = "part", !.copier = l] /\ Go(l, "copying")
    <3> DEFINE p == [launchers[l] EXCEPT !.at = "copying"]
    <3>1. p \in Processes /\ p.at = "copying" /\ p.extracted = "release" /\ p.ok
      BY <1>0, <1>6 DEF CopyStarts, At, ProcessInv
    <3>2. launchers' = [launchers EXCEPT ![l] = p]
      BY <2>1 DEF Go
    <3> HIDE DEF p
    <3>3. launchers'[l] = p
      BY <3>2 DEF LInv, LauncherTypeInv
    <3>4. /\ cache' \in Caches /\ cache'.executable = cache.executable
          /\ cache'.notices = "part" /\ cache'.copier = l
      BY <1>0, <2>1 DEF Caches
    <3>5. NoticesInv' /\ ProcessInv(launchers[l])'
      BY <3>1, <3>3, <3>4 DEF NoticesInv, ProcessInv, At
    <3> QED
      BY <3>1, <3>2, <3>4, <3>5, LauncherStep
  <2>2. CASE UNCHANGED cache /\ launchers' = [launchers EXCEPT ![l].at = "clean", ![l].ok = FALSE]
    <3> DEFINE p == [launchers[l] EXCEPT !.at = "clean", !.ok = FALSE]
    <3>1. p \in Processes /\ ProcessInv(p) /\ launchers' = [launchers EXCEPT ![l] = p]
      BY <1>0, <2>2 DEF ProcessInv
    <3> QED
      BY <1>6, <2>2, <3>1, OwnStep DEF CopyStarts, At
  <2> QED
    BY <1>6, <2>1, <2>2 DEF CopyStarts
<1>7. ASSUME NEW l \in Launchers, CopyEnds(l) PROVE LInv'
  <2> DEFINE p == [launchers[l] EXCEPT !.at = "rename"]
  <2>1. /\ p \in Processes /\ p.at = "rename" /\ p.extracted = "release" /\ p.ok
        /\ cache.notices # "none"
    BY <1>0, <1>7 DEF CopyEnds, At, ProcessInv
  <2>2. launchers' = [launchers EXCEPT ![l] = p]
    BY <1>7 DEF CopyEnds, Go
  <2> HIDE DEF p
  <2>3. launchers'[l] = p /\ \A k \in Launchers \ {l} : launchers'[k] = launchers[k]
    BY <2>2 DEF LInv, LauncherTypeInv
  <2>4. /\ cache' \in Caches /\ cache'.executable = cache.executable
        /\ cache'.copier = cache.copier /\ cache'.torn = cache.torn
        /\ cache'.notices = IF cache.copier = l THEN "whole" ELSE cache.notices
    BY <1>0, <1>7 DEF CopyEnds, Caches
  <2>5. NoticesInv'
    BY <2>1, <2>3, <2>4 DEF LInv, NoticesInv, At
  <2>6. ProcessInv(launchers[l])'
    BY <2>1, <2>3, <2>4 DEF ProcessInv
  <2> QED
    BY <2>1, <2>2, <2>4, <2>5, <2>6, LauncherStep
<1>8. ASSUME NEW l \in Launchers, Renamed(l) PROVE LInv'
  <2>1. CASE cache' = [cache EXCEPT !.executable = launchers[l].extracted] /\ Go(l, "clean")
    <3> DEFINE p == [launchers[l] EXCEPT !.at = "clean"]
    <3>1. /\ p \in Processes /\ p.at = "clean" /\ launchers[l].extracted = "release"
          /\ cache.notices # "none" /\ ~At(l, "copying")
      BY <1>0, <1>8 DEF Renamed, At, ProcessInv
    <3>2. launchers' = [launchers EXCEPT ![l] = p]
      BY <2>1 DEF Go
    <3> HIDE DEF p
    <3>3. launchers'[l] = p /\ \A k \in Launchers \ {l} : launchers'[k] = launchers[k]
      BY <3>2 DEF LInv, LauncherTypeInv
    <3>4. /\ cache' \in Caches /\ cache'.executable = "release" /\ cache'.copier = cache.copier
          /\ cache'.notices = cache.notices /\ cache'.torn = cache.torn
      BY <1>0, <2>1, <3>1 DEF Caches
    <3>5. NoticesInv'
      BY <3>1, <3>3, <3>4 DEF LInv, NoticesInv, At
    <3>6. ProcessInv(launchers[l])'
      BY <3>1, <3>3, <3>4 DEF ProcessInv
    <3> QED
      BY <3>1, <3>2, <3>4, <3>5, <3>6, LauncherStep
  <2>2. CASE cache.executable # "none" /\ Go(l, "compare") /\ UNCHANGED cache
    <3> DEFINE p == [launchers[l] EXCEPT !.at = "compare"]
    <3>1. p \in Processes /\ ProcessInv(p) /\ launchers' = [launchers EXCEPT ![l] = p]
      BY <1>0, <1>8, <2>2 DEF Renamed, At, Go, ProcessInv, Caches
    <3> QED
      BY <1>8, <2>2, <3>1, OwnStep DEF Renamed, At
  <2>3. CASE UNCHANGED cache /\ launchers' = [launchers EXCEPT ![l].at = "clean", ![l].ok = FALSE]
    <3> DEFINE p == [launchers[l] EXCEPT !.at = "clean", !.ok = FALSE]
    <3>1. p \in Processes /\ ProcessInv(p) /\ launchers' = [launchers EXCEPT ![l] = p]
      BY <1>0, <2>3 DEF ProcessInv
    <3> QED
      BY <1>8, <2>3, <3>1, OwnStep DEF Renamed, At
  <2> QED
    BY <1>8, <2>1, <2>2, <2>3 DEF Renamed
<1>9. ASSUME NEW l \in Launchers, Compared(l) PROVE LInv'
  <2> DEFINE p == [launchers[l] EXCEPT !.at = "clean", !.ok = TRUE]
  <2>1. cache.executable = "release" /\ launchers[l].extracted = "release"
    BY <1>0, <1>9 DEF Compared, At, ProcessInv
  <2>2. (cache.executable = launchers[l].extracted) = TRUE
    BY <2>1
  <2>3. launchers' = [launchers EXCEPT ![l] = p]
    BY <1>9, <2>2 DEF Compared
  <2>4. p \in Processes /\ ProcessInv(p)
    BY <1>0, <2>1 DEF ProcessInv
  <2> QED
    BY <1>9, <2>3, <2>4, OwnStep DEF Compared, At
<1>10. ASSUME NEW l \in Launchers, Cleaned(l) PROVE LInv'
  <2> DEFINE p == [launchers[l] EXCEPT !.at = IF launchers[l].ok THEN "return" ELSE "down",
                                       !.extracted = "none"]
  <2>1. p \in Processes /\ ProcessInv(p) /\ launchers' = [launchers EXCEPT ![l] = p]
    BY <1>0, <1>10 DEF Cleaned, At, Go, ProcessInv, Caches
  <2> QED
    BY <1>10, <2>1, OwnStep DEF Cleaned, At
<1>11. ASSUME NEW l \in Launchers, Started(l) PROVE LInv'
  <2> DEFINE p == [launchers[l] EXCEPT !.at = "running", !.started = cache.executable]
  <2>1. p \in Processes /\ ProcessInv(p) /\ launchers' = [launchers EXCEPT ![l] = p]
    BY <1>0, <1>11 DEF Started, At, Go, ProcessInv, Caches
  <2> QED
    BY <1>11, <2>1, OwnStep DEF Started, At
<1>12. ASSUME NEW l \in Launchers, Exits(l) PROVE LInv'
  <2> DEFINE p == [launchers[l] EXCEPT !.at = "down"]
  <2>1. p \in Processes /\ ProcessInv(p) /\ launchers' = [launchers EXCEPT ![l] = p]
    BY <1>0, <1>12 DEF Exits, At, Go, ProcessInv, Caches
  <2> QED
    BY <1>12, <2>1, OwnStep DEF Exits, At
<1>13. ASSUME NEW l \in Launchers, Killed(l) PROVE LInv'
  <2> DEFINE p == [launchers[l] EXCEPT !.at = "down"]
  <2>1. p \in Processes /\ p.at = "down"
    BY <1>0
  <2>2. launchers' = [launchers EXCEPT ![l] = p]
    BY <1>13 DEF Killed, Go
  <2> HIDE DEF p
  <2>3. launchers'[l] = p /\ \A k \in Launchers \ {l} : launchers'[k] = launchers[k]
    BY <2>2 DEF LInv, LauncherTypeInv
  <2>4. At(l, "copying") \in BOOLEAN
    BY DEF At
  <2>5. /\ cache' \in Caches /\ cache'.executable = cache.executable
        /\ cache'.notices = cache.notices /\ cache'.copier = cache.copier
        /\ cache'.torn = (cache.torn \/ At(l, "copying"))
    BY <1>0, <1>13, <2>4 DEF Killed, Caches
  <2>6. NoticesInv'
    BY <2>3, <2>5 DEF LInv, NoticesInv, At
  <2>7. ProcessInv(launchers[l])'
    BY <2>1, <2>3 DEF ProcessInv
  <2> QED
    BY <2>1, <2>2, <2>5, <2>6, <2>7, LauncherStep
<1>14. CASE UNCHANGED launcherVars
  BY <1>14 DEF launcherVars, LInv, LauncherTypeInv, NoticesInv, ProcessInv, At
<1> QED
  BY <1>1, <1>2, <1>3, <1>4, <1>5, <1>6, <1>7, <1>8, <1>9, <1>10, <1>11, <1>12, <1>13, <1>14
     DEF LauncherNext

\* What runs is the release, and the notices beside the executable are whole.
LEMMA LauncherImplies == LInv => StartsTheRelease
<1> SUFFICES ASSUME LInv PROVE StartsTheRelease
  OBVIOUS
<1>1. ASSUME NEW l \in Launchers
      PROVE  /\ At(l, "running") => launchers[l].started = "release"
             /\ At(l, "compare") => cache.executable = launchers[l].extracted
  BY DEF LInv, ProcessInv, At
<1>2. cache.executable # "none" =>
        \/ cache.notices = "whole" \/ cache.torn \/ \E l \in Launchers : At(l, "copying")
  BY DEF LInv, LauncherTypeInv, Caches, NoticesInv
<1> QED
  BY <1>1, <1>2 DEF StartsTheRelease

(***************************************************************************)
(* SourceControl                                                           *)
(***************************************************************************)

(***************************************************************************)
(* Types                                                                   *)
(***************************************************************************)

\* The operations that a button starts, that a question starts, and all of them.
Pressed == {"stage", "unstage", "commit", "stash-push", "stash-pop", "stash-apply", "create-tag",
            "create-branch", "delete-branch", "merge", "resolve", "merge-continue", "merge-abort",
            "push", "push-upstream", "fetch"}
Asked == {"discard", "stash-drop", "delete-tag", "force-delete"}
Operations == Pressed \union Asked \union {"delete"}

\* Requests, with that of nothing.
Requests == [op : Operations \union {"none"}, files : SUBSET ChangedFiles, untracked : SUBSET ChangedFiles,
             row : Nat, stash : Nat, amend : BOOLEAN, asked : BOOLEAN]

\* The states of a file, and the commits of the log.
FileStates == {"clean", "edited", "staged", "added", "untracked", "gone"}
Commits == {"first", "user", "merge"}

\* What a repository is.
Repositories == [files : [ChangedFiles -> FileStates], merge : {"none", "conflict", "resolved"},
                 log : Seq(Commits) \ {<<>>}, side : {"none", "unmerged", "merged"},
                 stashes : Seq(Nat), next : Nat, tags : BOOLEAN, pushed : Nat, upstream : BOOLEAN]

\* The mutation under way.
Mutations == [request : Requests, then : Requests, at : {"none", "sent", "reading", "read"},
              result : {"none", "ok", "failed", "lost"}, left : BOOLEAN]

\* The screen.
Screens == [dialog : {"none", "stash", "tags", "integrate"}, publish : BOOLEAN, question : Requests,
            error : BOOLEAN, dialogError : BOOLEAN, uncertain : BOOLEAN, message : BOOLEAN,
            amend : BOOLEAN]

\* The lists: what they show may be anything, but that of stashes lists them.
ListsTyped(l) ==
  /\ l \in [value : {l.value}, failed : SUBSET ListNames, reading : SUBSET ListNames,
            own : SUBSET ListNames]
  /\ l.value["stashes"] \in Seq(Nat)

\* The bounds.
ToldTyped(t) ==
  t \in [session : {t.session}, steps : Nat, meddles : Nat, outside : SUBSET ListNames,
         unknown : BOOLEAN]

\* The variables.
ControlTyped ==
  /\ git \in Repositories /\ ListsTyped(lists) /\ mutation \in Mutations /\ screen \in Screens
  /\ ToldTyped(told)

(***************************************************************************)
(* The invariant                                                           *)
(***************************************************************************)

\* A list that is not the repository's is being read, failed, or was changed by others.
ListsFollow ==
  \A name \in ListNames :
    \/ name \in lists.reading \union lists.failed \union told.outside
    \/ lists.value[name] = Value(git, name)

\* A request for a stash that another program has not moved names it.
StashRowOK(g, r) == r.stash # 0 => r.row \in 1..Len(g.stashes) /\ g.stashes[r.row] = r.stash

\* What a request may take away was asked for.
RequestOK(r) ==
  /\ r.op \in {"stash-pop", "stash-drop"} => r.row # 0
  /\ r.op = "delete" => r.asked /\ r.files = r.untracked
  /\ r.op = "force-delete" => r.asked

\* The question on screen, which is of the repository as it is: nothing is under way.
QuestionOK(g, q, at) ==
  /\ q = Nothing \/ (q.op \in Asked /\ q.asked)
  /\ q.untracked # {} => q.stash = 0
  /\ q.op = "stash-drop" => q.row # 0
  /\ q.stash # 0 => at = "none" /\ StashRowOK(g, q)

\* The mutation under way, and what follows it.
MutationOK(g, m) ==
  /\ RequestOK(m.request)
  /\ m.at = "sent" => m.request.op # "none" /\ StashRowOK(g, m.request)
  /\ m.then = Nothing \/ (m.then.op = "delete" /\ m.then.stash = 0 /\ RequestOK(m.then))
  /\ m.at \in {"reading", "read"} /\ m.result = "ok" /\ m.request.op = "commit" =>
       g.log[Len(g.log)] = "user"

\* The inductive invariant of Source Control.
ControlInv ==
  /\ ControlTyped /\ ListsFollow /\ (told.unknown => screen.uncertain)
  /\ QuestionOK(git, screen.question, mutation.at) /\ MutationOK(git, mutation)

(***************************************************************************)
(* Requests                                                                *)
(***************************************************************************)

\* The request of nothing, and one of an operation only.
LEMMA RequestTyped ==
  /\ Nothing \in Requests /\ RequestOK(Nothing)
  /\ \A named \in Operations : Request(named) \in Requests /\ Request(named).op = named /\ Request(named).stash = 0
  /\ \A named \in Operations : Request(named).untracked = {} /\ Request(named).row = 0 /\ ~Request(named).asked
BY DEF Nothing, Request, Requests, RequestOK

\* Its fields can be set.
LEMMA OperationFields ==
  ASSUME NEW r \in Requests
  PROVE  /\ \A F \in SUBSET ChangedFiles :
              /\ [r EXCEPT !.files = F] \in Requests
              /\ [r EXCEPT !.files = F].op = r.op /\ [r EXCEPT !.files = F].files = F
              /\ [r EXCEPT !.files = F].stash = r.stash /\ [r EXCEPT !.files = F].untracked = r.untracked
         /\ \A b \in BOOLEAN :
              /\ [r EXCEPT !.amend = b] \in Requests
              /\ [r EXCEPT !.amend = b].op = r.op /\ [r EXCEPT !.amend = b].stash = r.stash
BY DEF Requests

(***************************************************************************)
(* What git does                                                           *)
(***************************************************************************)

\* To changes states of files only.
LEMMA ToFiles ==
  ASSUME NEW g \in Repositories, NEW F, NEW from, NEW to \in FileStates, NEW t, t = To(g, F, from, to)
  PROVE  /\ t \in Repositories
         /\ t.merge = g.merge /\ t.log = g.log /\ t.side = g.side /\ t.stashes = g.stashes
         /\ t.next = g.next /\ t.tags = g.tags
         /\ \A f \in ChangedFiles :
              t.files[f] = IF f \in F /\ g.files[f] \in from THEN to ELSE g.files[f]
BY DEF To, Repositories

\* What is taken out of a list is the only one that may be missing.
LEMMA RemovedOne ==
  ASSUME NEW S, NEW s \in Seq(S), NEW i \in 1..Len(s)
  PROVE  /\ RemoveAt(s, i) \in Seq(S)
         /\ \A x \in ToSet(s) \ ToSet(RemoveAt(s, i)) : x = s[i]
<1> DEFINE front == SubSeq(s, 1, i - 1)
           back == SubSeq(s, i + 1, Len(s))
           w == front \o back
<1>0. Len(s) \in Nat /\ i \in Nat /\ 1 <= i /\ i <= Len(s)
  OBVIOUS
<1>1. RemoveAt(s, i) = w
  BY DEF RemoveAt
<1>2. front \in Seq(S) /\ Len(front) = i - 1 /\ \A j \in 1..Len(front) : front[j] = s[j]
  BY <1>0
<1>3. back \in Seq(S) /\ Len(back) = Len(s) - i /\ \A j \in 1..Len(back) : back[j] = s[j + i]
  BY <1>0
<1> HIDE DEF front, back, w
<1>4. w \in Seq(S) /\ Len(w) = Len(front) + Len(back)
  <2>1. front \in Seq(S) /\ back \in Seq(S)
    BY <1>2, <1>3
  <2> QED BY <2>1, ConcatProperties DEF w
<1>5. \A j \in 1..Len(w) : w[j] = IF j < i THEN front[j] ELSE back[j - (i - 1)]
  BY <1>0, <1>2, <1>3, <1>4 DEF w
<1>6. \A j \in 1..Len(w) : w[j] = IF j < i THEN s[j] ELSE s[j + 1]
  <2> TAKE j \in 1..Len(w)
  <2>1. CASE j < i
    BY <1>0, <1>2, <1>5, <2>1
  <2>2. CASE ~(j < i)
    <3>1. j - (i - 1) \in 1..Len(back) /\ (j - (i - 1)) + i = j + 1
      BY <1>0, <1>2, <1>3, <1>4, <2>2
    <3> QED BY <1>3, <1>5, <2>2, <3>1
  <2> QED BY <2>1, <2>2
<1>7. ASSUME NEW x \in ToSet(s) \ ToSet(w) PROVE x = s[i]
  <2>1. PICK j \in 1..Len(s) : s[j] = x
    BY <1>7 DEF ToSet
  <2>2. CASE j < i
    <3>1. j \in 1..Len(w) /\ w[j] = x
      BY <1>0, <1>2, <1>3, <1>4, <1>6, <2>1, <2>2
    <3> QED BY <1>4, <1>7, <3>1 DEF ToSet
  <2>3. CASE j > i
    <3>1. j - 1 \in 1..Len(w) /\ w[j - 1] = x
      BY <1>0, <1>2, <1>3, <1>4, <1>6, <2>1, <2>3
    <3> QED BY <1>4, <1>7, <3>1 DEF ToSet
  <2> QED BY <2>1, <2>2, <2>3
<1> QED BY <1>1, <1>4, <1>7 DEF w

\* A stash is put in front of the others.
LEMMA PushedHolds ==
  ASSUME NEW S, NEW s \in Seq(S), NEW x \in S
  PROVE  <<x>> \o s \in Seq(S) /\ ToSet(s) \subseteq ToSet(<<x>> \o s)
<1> DEFINE w == <<x>> \o s
<1>1. Len(s) \in Nat /\ <<x>> \in Seq(S) /\ Len(<<x>>) = 1
  OBVIOUS
<1>2. w \in Seq(S) /\ Len(w) = 1 + Len(s)
  BY <1>1, ConcatProperties
<1>3. \A i \in 1..Len(s) : w[i + 1] = s[i]
  BY <1>1
<1>4. DOMAIN w = 1..Len(w) /\ DOMAIN s = 1..Len(s)
  BY <1>2
<1> HIDE DEF w
<1>5. ASSUME NEW i \in 1..Len(s) PROVE s[i] \in ToSet(w)
  <2>1. i + 1 \in 1..Len(w) /\ w[i + 1] = s[i]
    BY <1>1, <1>2, <1>3
  <2> QED BY <1>4, <2>1 DEF ToSet
<1>6. ToSet(s) \subseteq ToSet(w)
  BY <1>4, <1>5 DEF ToSet
<1> QED BY <1>2, <1>6 DEF w

\* What an operation does to the repository: every list it changes is read again, and
\* what it takes away is what it names.
Does(g, r, h) ==
  /\ h \in Repositories
  /\ \A name \in ListNames \ Reads(r.op) : Value(h, name) = Value(g, name)
  /\ \A s \in ToSet(g.stashes) \ ToSet(h.stashes) :
       r.op \in {"stash-pop", "stash-drop"} /\ r.row \in 1..Len(g.stashes) /\ s = g.stashes[r.row]
  /\ \A f \in ChangedFiles : g.files[f] = "untracked" /\ h.files[f] = "gone" =>
       r.op = "delete" /\ f \in r.files
  /\ g.side = "unmerged" /\ h.side = "none" => r.op = "force-delete"

\* Nothing at all is done when it fails.
LEMMA DoesNothing ==
  ASSUME NEW g \in Repositories, NEW r \in Requests
  PROVE  Does(g, r, g)
BY DEF Does

LEMMA FilesOperation ==
  ASSUME NEW g \in Repositories, NEW r \in Requests, r.op \in {"stage", "unstage", "discard", "delete"}
  PROVE  Does(g, r, Applied(g, r))
<1>1. CASE r.op = "stage"
  <2> DEFINE t == To(g, r.files, {"edited"}, "staged")
             h == To(t, r.files, {"untracked"}, "added")
  <2>1. Applied(g, r) = h
    BY <1>1 DEF Applied
  <2>2. t \in Repositories /\ t.merge = g.merge /\ t.log = g.log /\ t.side = g.side
        /\ t.stashes = g.stashes /\ t.tags = g.tags
    BY ToFiles DEF FileStates
  <2>3. h \in Repositories /\ h.merge = t.merge /\ h.log = t.log /\ h.side = t.side
        /\ h.stashes = t.stashes /\ h.tags = t.tags
    BY <2>2, ToFiles DEF FileStates
  <2>4. \A f \in ChangedFiles : t.files[f] \in {"staged", g.files[f]}
    BY ToFiles DEF FileStates
  <2>5. \A f \in ChangedFiles : h.files[f] \in {"added", t.files[f]}
    BY <2>2, ToFiles DEF FileStates
  <2>6. \A f \in ChangedFiles : h.files[f] = "gone" => g.files[f] = "gone"
    BY <2>4, <2>5
  <2> HIDE DEF t, h
  <2> QED BY <1>1, <2>1, <2>2, <2>3, <2>6 DEF Does, Reads, ListNames, Value
<1>2. CASE r.op = "unstage"
  <2> DEFINE t == To(g, r.files, {"staged"}, "edited")
             h == To(t, r.files, {"added"}, "untracked")
  <2>1. Applied(g, r) = h
    BY <1>2 DEF Applied
  <2>2. t \in Repositories /\ t.merge = g.merge /\ t.log = g.log /\ t.side = g.side
        /\ t.stashes = g.stashes /\ t.tags = g.tags
    BY ToFiles DEF FileStates
  <2>3. h \in Repositories /\ h.merge = t.merge /\ h.log = t.log /\ h.side = t.side
        /\ h.stashes = t.stashes /\ h.tags = t.tags
    BY <2>2, ToFiles DEF FileStates
  <2>4. \A f \in ChangedFiles : t.files[f] \in {"edited", g.files[f]}
    BY ToFiles DEF FileStates
  <2>5. \A f \in ChangedFiles : h.files[f] \in {"untracked", t.files[f]}
    BY <2>2, ToFiles DEF FileStates
  <2>6. \A f \in ChangedFiles : h.files[f] = "gone" => g.files[f] = "gone"
    BY <2>4, <2>5
  <2> HIDE DEF t, h
  <2> QED BY <1>2, <2>1, <2>2, <2>3, <2>6 DEF Does, Reads, ListNames, Value
<1>3. CASE r.op = "discard"
  <2> DEFINE h == To(g, r.files, {"edited"}, "clean")
  <2>1. Applied(g, r) = h
    BY <1>3 DEF Applied
  <2>2. h \in Repositories /\ h.merge = g.merge /\ h.log = g.log /\ h.side = g.side
        /\ h.stashes = g.stashes /\ h.tags = g.tags
    BY ToFiles DEF FileStates
  <2>3. \A f \in ChangedFiles : h.files[f] \in {"clean", g.files[f]}
    BY ToFiles DEF FileStates
  <2> HIDE DEF h
  <2> QED BY <1>3, <2>1, <2>2, <2>3 DEF Does, Reads, ListNames, Value
<1>4. CASE r.op = "delete"
  <2> DEFINE h == To(g, r.files, {"untracked"}, "gone")
  <2>1. Applied(g, r) = h
    BY <1>4 DEF Applied
  <2>2. h \in Repositories /\ h.merge = g.merge /\ h.log = g.log /\ h.side = g.side
        /\ h.stashes = g.stashes /\ h.tags = g.tags
    BY ToFiles DEF FileStates
  <2>3. \A f \in ChangedFiles : f \in r.files \/ h.files[f] = g.files[f]
    BY ToFiles DEF FileStates
  <2> HIDE DEF h
  <2> QED BY <1>4, <2>1, <2>2, <2>3 DEF Does, Reads, ListNames, Value
<1> QED BY <1>1, <1>2, <1>3, <1>4

\* What git does with its other operations.
LEMMA OtherOperation ==
  ASSUME NEW g \in Repositories, NEW r \in Requests, RequestOK(r), Possible(g, r),
         r.op \in Operations \ {"stage", "unstage", "discard", "delete"}
  PROVE  /\ Does(g, r, Applied(g, r))
         /\ r.op = "commit" => Applied(g, r).log[Len(Applied(g, r).log)] = "user"
<1>1. CASE r.op = "commit"
  <2> DEFINE t == To(g, ChangedFiles, {"staged", "added"}, "clean")
             h == [t EXCEPT !.log = IF r.amend THEN [@ EXCEPT ![Len(@)] = "user"] ELSE Append(@, "user")]
  <2>1. Applied(g, r) = h
    BY <1>1 DEF Applied
  <2>2. t \in Repositories /\ t.merge = g.merge /\ t.log = g.log /\ t.side = g.side
        /\ t.stashes = g.stashes /\ t.tags = g.tags
    BY ToFiles DEF FileStates
  <2>3. \A f \in ChangedFiles : t.files[f] \in {"clean", g.files[f]}
    BY ToFiles DEF FileStates
  <2> DEFINE log == IF r.amend THEN [t.log EXCEPT ![Len(t.log)] = "user"] ELSE Append(t.log, "user")
  <2>4. log \in Seq(Commits) \ {<<>>} /\ log[Len(log)] = "user"
    <3>1. t.log \in Seq(Commits) /\ t.log # <<>> /\ "user" \in Commits
      BY <2>2 DEF Repositories, Commits
    <3>2. CASE r.amend
      <4>1. log = [t.log EXCEPT ![Len(t.log)] = "user"]
        BY <3>2
      <4>2. log \in Seq(Commits) /\ Len(log) = Len(t.log) /\ log[Len(t.log)] = "user"
        BY <3>1, <4>1
      <4> QED BY <3>1, <4>2
    <3>3. CASE ~r.amend
      <4>1. log = Append(t.log, "user")
        BY <3>3
      <4> QED BY <3>1, <4>1
    <3> QED BY <3>2, <3>3
  <2>5. h = [t EXCEPT !.log = log]
    OBVIOUS
  <2> HIDE DEF t, log
  <2>6. h \in Repositories /\ h.log = log /\ h.files = t.files /\ h.merge = g.merge /\ h.side = g.side
        /\ h.stashes = g.stashes /\ h.tags = g.tags
    BY <2>2, <2>4, <2>5 DEF Repositories
  <2> HIDE DEF h
  <2> QED BY <1>1, <2>1, <2>3, <2>4, <2>6 DEF Does, Reads, ListNames, Value
<1>2. CASE r.op = "stash-push"
  <2> DEFINE t == To(g, ChangedFiles, {"edited", "staged", "added"}, "clean")
             pushed == <<g.next>> \o t.stashes
             h == [t EXCEPT !.stashes = <<g.next>> \o @, !.next = @ + 1]
  <2>1. Applied(g, r) = h
    BY <1>2 DEF Applied
  <2>2. t \in Repositories /\ t.merge = g.merge /\ t.log = g.log /\ t.side = g.side
        /\ t.stashes = g.stashes /\ t.next = g.next /\ t.tags = g.tags
    BY ToFiles DEF FileStates
  <2>3. \A f \in ChangedFiles : t.files[f] \in {"clean", g.files[f]}
    BY ToFiles DEF FileStates
  <2> HIDE DEF t
  <2>4. /\ pushed \in Seq(Nat) /\ Len(pushed) = Len(g.stashes) + 1
        /\ \A i \in 1..Len(g.stashes) : pushed[i + 1] = g.stashes[i]
    BY <2>2 DEF Repositories
  <2> HIDE DEF pushed
  <2>5. ToSet(g.stashes) \subseteq ToSet(pushed)
    <3> SUFFICES ASSUME NEW i \in 1..Len(g.stashes) PROVE g.stashes[i] \in ToSet(pushed)
      BY DEF ToSet, Repositories
    <3>0. Len(g.stashes) \in Nat
      BY DEF Repositories
    <3>1. i + 1 \in 1..Len(pushed)
      BY <2>4, <3>0
    <3>2. pushed[i + 1] = g.stashes[i]
      BY <2>4
    <3>3. DOMAIN pushed = 1..Len(pushed)
      BY <2>4
    <3> QED BY <3>1, <3>2, <3>3 DEF ToSet
  <2>6. h \in Repositories /\ h.stashes = pushed /\ h.files = t.files /\ h.merge = g.merge /\ h.side = g.side
        /\ h.log = g.log /\ h.tags = g.tags
    <3>1. h = [t EXCEPT !.stashes = pushed, !.next = @ + 1]
      BY DEF pushed
    <3> DEFINE next == t.next + 1
    <3>2. pushed \in Seq(Nat) /\ next \in Nat
      BY <2>2, <2>4 DEF Repositories
    <3>3. h = [t EXCEPT !.stashes = pushed, !.next = next]
      BY <3>1
    <3> HIDE DEF next, h
    <3> QED BY <2>2, <3>2, <3>3 DEF Repositories
  <2> HIDE DEF h
  <2> QED BY <1>2, <2>1, <2>3, <2>5, <2>6 DEF Does, Reads, ListNames, Value
<1>3. CASE r.op \in {"stash-pop", "stash-drop"}
  <2> DEFINE h == [g EXCEPT !.stashes = RemoveAt(@, r.row)]
  <2>1. Applied(g, r) = h
    BY <1>3 DEF Applied
  <2>2. r.row \in 1..Len(g.stashes) /\ g.stashes \in Seq(Nat)
    BY <1>3 DEF Possible, RequestOK, Requests, Repositories
  <2> DEFINE w == RemoveAt(g.stashes, r.row)
  <2>3. w \in Seq(Nat) /\ \A x \in ToSet(g.stashes) \ ToSet(w) : x = g.stashes[r.row]
    BY <2>2, RemovedOne
  <2> HIDE DEF w
  <2>4. h \in Repositories /\ h.stashes = w /\ h.files = g.files /\ h.merge = g.merge /\ h.side = g.side
        /\ h.log = g.log /\ h.tags = g.tags
    BY <2>3 DEF Repositories, w
  <2> HIDE DEF h
  <2> QED BY <1>3, <2>1, <2>2, <2>3, <2>4 DEF Does, Reads, ListNames
<1>4. CASE r.op \in {"stash-apply", "fetch"}
  <2>1. Applied(g, r) = g
    BY <1>4 DEF Applied
  <2> QED BY <1>4, <2>1, DoesNothing
<1>5. CASE r.op \in {"create-tag", "delete-tag", "resolve", "merge-abort", "push", "push-upstream"}
  <2> DEFINE h == Applied(g, r)
  <2> DEFINE Same(x) == x \in Repositories /\ x.files = g.files /\ x.stashes = g.stashes
                        /\ x.side = g.side
  <2>1. ASSUME r.op = "create-tag" PROVE Same(h)
    <3>1. h = [g EXCEPT !.tags = TRUE]
      BY <2>1 DEF Applied
    <3> QED BY <3>1 DEF Repositories
  <2>2. ASSUME r.op = "delete-tag" PROVE Same(h)
    <3>1. h = [g EXCEPT !.tags = FALSE]
      BY <2>2 DEF Applied
    <3> QED BY <3>1 DEF Repositories
  <2>3. ASSUME r.op = "resolve" PROVE Same(h)
    <3>1. h = [g EXCEPT !.merge = "resolved"]
      BY <2>3 DEF Applied
    <3> QED BY <3>1 DEF Repositories
  <2>4. ASSUME r.op = "merge-abort" PROVE Same(h)
    <3>1. h = [g EXCEPT !.merge = "none"]
      BY <2>4 DEF Applied
    <3> QED BY <3>1 DEF Repositories
  <2>5. ASSUME r.op = "push" PROVE Same(h)
    <3>1. h = [g EXCEPT !.pushed = Len(g.log)] /\ Len(g.log) \in Nat
      BY <2>5 DEF Applied, Repositories
    <3> QED BY <3>1 DEF Repositories
  <2>6. ASSUME r.op = "push-upstream" PROVE Same(h)
    <3>1. h = [g EXCEPT !.pushed = Len(g.log), !.upstream = TRUE] /\ Len(g.log) \in Nat
      BY <2>6 DEF Applied, Repositories
    <3> QED BY <3>1 DEF Repositories
  <2> HIDE DEF h
  <2>7. Same(h)
    BY <1>5, <2>1, <2>2, <2>3, <2>4, <2>5, <2>6
  <2>8. Reads(r.op) = ListNames
    BY <1>5 DEF Reads
  <2>9. ToSet(h.stashes) = ToSet(g.stashes)
    BY <2>7
  <2> QED BY <1>5, <2>7, <2>8, <2>9 DEF Does, h
<1>6. CASE r.op \in {"create-branch", "merge", "merge-continue"}
  <2> DEFINE h == Applied(g, r)
             log == Append(g.log, "merge")
  <2>1. log \in Seq(Commits) \ {<<>>}
    BY DEF Repositories, Commits
  <2> HIDE DEF log
  <2> DEFINE Merged(x) == x \in Repositories /\ x.files = g.files /\ x.stashes = g.stashes
                          /\ x.side = "merged"
  <2>2. ASSUME r.op = "create-branch" PROVE Merged(h)
    <3>1. h = [g EXCEPT !.side = "merged"]
      BY <2>2 DEF Applied
    <3> QED BY <3>1 DEF Repositories
  <2>3. ASSUME r.op = "merge" PROVE Merged(h)
    <3>1. h = [g EXCEPT !.log = log, !.side = "merged"]
      BY <2>3 DEF Applied, log
    <3> QED BY <2>1, <3>1 DEF Repositories
  <2>4. ASSUME r.op = "merge-continue" PROVE Merged(h)
    <3>1. h = [g EXCEPT !.merge = "none", !.side = "merged", !.log = log]
      BY <2>4 DEF Applied, log
    <3> QED BY <2>1, <3>1 DEF Repositories
  <2> HIDE DEF h
  <2>5. Merged(h)
    BY <1>6, <2>2, <2>3, <2>4
  <2>6. Reads(r.op) = ListNames
    BY <1>6 DEF Reads
  <2>7. ToSet(h.stashes) = ToSet(g.stashes)
    BY <2>5
  <2> QED BY <1>6, <2>5, <2>6, <2>7 DEF Does, h
<1>7. CASE r.op \in {"delete-branch", "force-delete"}
  <2> DEFINE h == Applied(g, r)
  <2>1. h \in Repositories /\ h.files = g.files /\ h.stashes = g.stashes /\ h.side = "none"
    BY <1>7 DEF Applied, Repositories
  <2>2. Reads(r.op) = ListNames
    BY <1>7 DEF Reads
  <2>3. r.op = "delete-branch" => g.side = "merged"
    BY <1>7 DEF Possible
  <2> HIDE DEF h
  <2>4. ToSet(h.stashes) = ToSet(g.stashes)
    BY <2>1
  <2> QED BY <1>7, <2>1, <2>2, <2>3, <2>4 DEF Does, h
<1> QED BY <1>1, <1>2, <1>3, <1>4, <1>5, <1>6, <1>7 DEF Operations, Pressed, Asked

\* So any operation does what it should, and a commit adds one of the user's.
LEMMA OperationDoes ==
  ASSUME NEW g \in Repositories, NEW r \in Requests, RequestOK(r), Possible(g, r), r.op # "none"
  PROVE  /\ Does(g, r, Applied(g, r))
         /\ r.op = "commit" => Applied(g, r).log[Len(Applied(g, r).log)] = "user"
<1>1. r.op \in Operations
  BY DEF Requests
<1>2. CASE r.op \in {"stage", "unstage", "discard", "delete"}
  BY <1>2, FilesOperation
<1> QED BY <1>1, <1>2, OtherOperation

\* A merge that stops has taken nothing away.
LEMMA FailureDoes ==
  ASSUME NEW g \in Repositories, NEW r \in Requests, r.op = "merge"
  PROVE  Does(g, r, Failed(g, r))
<1> DEFINE h == Failed(g, r)
<1>1. h \in Repositories /\ h.files = g.files /\ h.stashes = g.stashes /\ h.side = g.side
  BY DEF Failed, Repositories
<1>2. Reads(r.op) = ListNames
  BY DEF Reads
<1> HIDE DEF h
<1>3. ToSet(h.stashes) = ToSet(g.stashes)
  BY <1>1
<1> QED BY <1>1, <1>2, <1>3 DEF Does, h

(***************************************************************************)
(* The steps                                                               *)
(***************************************************************************)

\* A mutation is started of a request that is one of the user's.
LEMMA OperationStartKeeps ==
  ASSUME git \in Repositories, NEW r \in Requests, NEW t \in Requests, Start(r, t),
         RequestOK(r), r.op # "none", StashRowOK(git, r),
         t = Nothing \/ (t.op = "delete" /\ t.stash = 0 /\ RequestOK(t))
  PROVE  mutation' \in Mutations /\ mutation'.at = "sent" /\ MutationOK(git, mutation')
<1>1. NoMutation \in Mutations
  BY RequestTyped DEF NoMutation, Mutations
<1>2. mutation' \in Mutations /\ mutation'.at = "sent" /\ mutation'.request = r /\ mutation'.then = t
  BY <1>1, RequestTyped DEF Start, NoMutation, Mutations
<1> QED BY <1>2 DEF MutationOK

\* The user's steps are counted, and nothing else is told.
LEMMA StepsCounted ==
  ASSUME ToldTyped(told), told' = Stepped
  PROVE  ToldTyped(told)' /\ told'.outside = told.outside /\ told'.unknown = told.unknown
<1> DEFINE steps == told.steps + 1
<1>1. told' = [told EXCEPT !.steps = steps] /\ steps \in Nat
  BY DEF Stepped, ToldTyped
<1> HIDE DEF steps
<1> QED BY <1>1 DEF ToldTyped

\* A button of the pane, or of a dialog.
LEMMA PressKeeps ==
  ASSUME ControlInv, NEW r \in Requests, NEW where, Press(r, where), r.op \in Pressed,
         RequestOK(r), StashRowOK(git, r)
  PROVE  ControlInv' /\ LostOnlyAsAsked
<1>1. mutation' \in Mutations /\ mutation'.at = "sent" /\ MutationOK(git, mutation')
  <2>1. Start(r, Nothing) /\ git \in Repositories /\ r.op # "none"
    BY DEF Press, ControlInv, ControlTyped, Pressed
  <2>2. Nothing \in Requests
    BY RequestTyped
  <2> QED BY <2>1, <2>2, OperationStartKeeps, Zenon
<1>2. screen.question = Nothing /\ UNCHANGED <<git, lists, screen>>
  BY DEF Press, Free
<1>3. ToldTyped(told)' /\ told'.outside = told.outside /\ told'.unknown = told.unknown
  <2>1. ToldTyped(told) /\ told' = Stepped
    BY DEF Press, ControlInv, ControlTyped
  <2> QED BY ONLY <2>1, StepsCounted
<1>4. QuestionOK(git, screen.question, mutation.at)'
  BY <1>2 DEF QuestionOK, Nothing, Asked
<1>5. MutationOK(git, mutation)'
  BY <1>1, <1>2
<1>6. ListsFollow' /\ (told.unknown => screen.uncertain)'
  BY <1>2, <1>3 DEF ControlInv, ListsFollow
<1>7. LostOnlyAsAsked
  BY <1>2 DEF LostOnlyAsAsked, ControlInv, ControlTyped, Repositories
<1> QED BY <1>1, <1>2, <1>3, <1>4, <1>5, <1>6, <1>7 DEF ControlInv, ControlTyped

\* The buttons of the pane, and those of dialogs whose request names no row.
LEMMA PlainPress ==
  ASSUME ControlInv, NEW named \in Pressed \ {"stash-pop", "stash-apply"}, NEW where,
         Press(Request(named), where)
  PROVE  ControlInv' /\ LostOnlyAsAsked
<1>1. Request(named) \in Requests /\ Request(named).op = named /\ Request(named).stash = 0
  BY RequestTyped DEF Operations
<1>2. RequestOK(Request(named)) /\ StashRowOK(git, Request(named))
  BY <1>1 DEF RequestOK, StashRowOK, Pressed
<1> QED BY <1>1, <1>2, PressKeeps

\* Stage, Unstage and Commit.
LEMMA WorktreePress ==
  ASSUME ControlInv, NEW F \in SUBSET ChangedFiles, Stage(F) \/ Unstage(F) \/ SubmitCommit
  PROVE  ControlInv' /\ LostOnlyAsAsked
<1>1. CASE Stage(F) \/ Unstage(F)
  <2>1. PICK named \in {"stage", "unstage"} : Press([Request(named) EXCEPT !.files = F], "none")
    BY <1>1 DEF Stage, Unstage
  <2> DEFINE r == [Request(named) EXCEPT !.files = F]
  <2>2. r \in Requests /\ r.op = named /\ r.stash = 0
    BY RequestTyped, OperationFields DEF Operations, Pressed
  <2> HIDE DEF r
  <2>3. RequestOK(r) /\ StashRowOK(git, r)
    BY <2>1, <2>2 DEF RequestOK, StashRowOK
  <2>4. Press(r, "none")
    BY <2>1 DEF r
  <2> QED BY <2>2, <2>3, <2>4, PressKeeps DEF Pressed
<1>2. CASE SubmitCommit
  <2> DEFINE r == [Request("commit") EXCEPT !.amend = screen.amend]
  <2>1. Press(r, "none")
    BY <1>2 DEF SubmitCommit
  <2>2. r \in Requests /\ r.op = "commit" /\ r.stash = 0
    BY RequestTyped, OperationFields DEF Operations, Pressed, ControlInv, ControlTyped, Screens
  <2> HIDE DEF r
  <2>3. RequestOK(r) /\ StashRowOK(git, r)
    BY <2>2 DEF RequestOK, StashRowOK
  <2> QED BY <2>1, <2>2, <2>3, PressKeeps DEF Pressed
<1> QED BY <1>1, <1>2

\* A row of the list of stashes, of which the repository is as the list shows it.
LEMMA RowIsOf ==
  ASSUME ControlInv, NEW named \in Operations, NEW i \in 1..Len(lists.value["stashes"])
  PROVE  /\ Row(named, i) \in Requests /\ Row(named, i).op = named /\ Row(named, i).row # 0
         /\ Row(named, i).untracked = {} /\ StashRowOK(git, Row(named, i))
<1> DEFINE stashRows == lists.value["stashes"]
           stash == IF "stashes" \in lists.reading \union lists.failed \union told.outside THEN 0
                    ELSE stashRows[i]
           r == Row(named, i)
<1>1. stashRows \in Seq(Nat)
  BY DEF ControlInv, ControlTyped, ListsTyped
<1>2. Len(stashRows) \in Nat
  BY <1>1
<1>3. i \in Nat /\ 1 <= i /\ i <= Len(stashRows) /\ stashRows[i] \in Nat
  BY <1>1, <1>2
<1>4. stash \in Nat
  BY <1>3
<1>5. stash # 0 => stashRows = git.stashes /\ stashRows[i] = stash
  BY DEF ControlInv, ListsFollow, ListNames, Value
<1>6. r = [Request(named) EXCEPT !.row = i, !.stash = stash]
  BY DEF Row
<1> HIDE DEF stash, r, stashRows
<1>7. r \in Requests /\ r.op = named /\ r.row = i /\ r.stash = stash /\ r.untracked = {}
  BY <1>3, <1>4, <1>6, RequestTyped DEF Requests
<1>8. StashRowOK(git, r)
  BY <1>3, <1>5, <1>7 DEF StashRowOK
<1> QED BY <1>3, <1>7, <1>8 DEF r

\* The operations of the session, from the branch menu, the header and the dialogs.
LEMMA OperationPress ==
  ASSUME ControlInv, NEW named,
         \/ BranchMenuOperation(named) \/ HeaderOperation(named) \/ ConflictOperation(named)
         \/ StashOperation(named) \/ TagOperation(named) \/ Integrate(named) \/ PublishBranch(named)
  PROVE  ControlInv' /\ LostOnlyAsAsked
<1>1. CASE named \in {"stash-apply", "stash-pop"}
  <2>1. PICK i \in 1..Len(lists.value["stashes"]) : Press(Row(named, i), "stash")
    BY <1>1 DEF BranchMenuOperation, HeaderOperation, ConflictOperation, StashOperation, TagOperation,
                Integrate, PublishBranch
  <2>2. named \in Operations /\ named \in Pressed
    BY <1>1 DEF Operations, Pressed
  <2>3. Row(named, i) \in Requests /\ Row(named, i).op = named /\ Row(named, i).row # 0 /\ StashRowOK(git, Row(named, i))
    BY <2>2, RowIsOf
  <2>4. RequestOK(Row(named, i))
    BY <1>1, <2>3 DEF RequestOK
  <2> QED BY <2>1, <2>2, <2>3, <2>4, PressKeeps
<1>2. CASE named \notin {"stash-apply", "stash-pop"}
  <2>1. named \in Pressed \ {"stash-pop", "stash-apply"} /\ \E where : Press(Request(named), where)
    BY <1>2 DEF BranchMenuOperation, HeaderOperation, ConflictOperation, StashOperation, TagOperation,
                Integrate, PublishBranch, Pressed
  <2> QED BY <2>1, PlainPress
<1> QED BY <1>1, <1>2

\* What a step leaves alone takes nothing away.
LEMMA NothingLost ==
  ASSUME git' = git, screen'.message = screen.message, git \in Repositories
  PROVE  LostOnlyAsAsked
BY DEF LostOnlyAsAsked, Repositories

\* The composer: the message and the amend switch.
LEMMA ComposeKeeps ==
  ASSUME ControlInv, Compose
  PROVE  ControlInv' /\ LostOnlyAsAsked
<1>1. UNCHANGED <<git, lists, mutation>> /\ git \in Repositories /\ ListsTyped(lists) /\ mutation \in Mutations
  BY DEF Compose, ControlInv, ControlTyped
<1>2. ToldTyped(told)' /\ told'.outside = told.outside /\ told'.unknown = told.unknown
  BY StepsCounted DEF Compose, ControlInv, ControlTyped
<1>3. /\ screen' \in Screens /\ screen'.question = screen.question /\ screen'.uncertain = screen.uncertain
      /\ screen.message => screen'.message
  BY DEF Compose, ControlInv, ControlTyped, Screens
<1>4. LostOnlyAsAsked
  BY <1>1, <1>3 DEF LostOnlyAsAsked, Repositories
<1>5. ListsFollow'
  BY <1>1, <1>2 DEF ControlInv, ListsFollow
<1>6. QuestionOK(git, screen.question, mutation.at)' /\ MutationOK(git, mutation)'
  BY <1>1, <1>3 DEF ControlInv
<1> QED BY <1>1, <1>2, <1>3, <1>4, <1>5, <1>6 DEF ControlInv, ControlTyped

\* A dialog reads its lists.
LEMMA OpenDialogKeeps ==
  ASSUME ControlInv, NEW d \in {"stash", "tags", "integrate"}, NEW shows \in SUBSET ListNames,
         OpenDialog(d, shows)
  PROVE  ControlInv' /\ LostOnlyAsAsked
<1>1. UNCHANGED <<git, mutation>> /\ git \in Repositories /\ ListsTyped(lists) /\ mutation \in Mutations
  BY DEF OpenDialog, ControlInv, ControlTyped
<1>2. ToldTyped(told)' /\ told'.outside = told.outside /\ told'.unknown = told.unknown
  BY StepsCounted DEF OpenDialog, ControlInv, ControlTyped
<1>3. /\ screen' \in Screens /\ screen'.question = screen.question /\ screen'.uncertain = screen.uncertain
      /\ screen'.message = screen.message
  BY DEF OpenDialog, ControlInv, ControlTyped, Screens
<1>4. /\ ListsTyped(lists)' /\ lists'.value = lists.value /\ lists'.failed = lists.failed
      /\ lists.reading \subseteq lists'.reading
  BY <1>1 DEF OpenDialog, ListsTyped
<1>5. ListsFollow'
  BY <1>1, <1>2, <1>4 DEF ControlInv, ListsFollow
<1>6. QuestionOK(git, screen.question, mutation.at)' /\ MutationOK(git, mutation)'
  BY <1>1, <1>3 DEF ControlInv
<1>7. LostOnlyAsAsked
  BY <1>1, <1>3, NothingLost
<1> QED BY <1>1, <1>2, <1>3, <1>4, <1>5, <1>6, <1>7 DEF ControlInv, ControlTyped

\* A dialog is closed, perhaps while its operation is under way.
LEMMA CloseDialogKeeps ==
  ASSUME ControlInv, CloseDialog
  PROVE  ControlInv' /\ LostOnlyAsAsked
<1>1. UNCHANGED <<git, lists, told>> /\ git \in Repositories /\ ListsTyped(lists) /\ ToldTyped(told)
      /\ mutation \in Mutations /\ screen \in Screens
  BY DEF CloseDialog, ControlInv, ControlTyped
<1>2. /\ screen' \in Screens /\ screen'.question = screen.question /\ screen'.uncertain = screen.uncertain
      /\ screen'.message = screen.message
  BY <1>1 DEF CloseDialog, Screens
<1>3. /\ mutation' \in Mutations /\ mutation'.request = mutation.request /\ mutation'.at = mutation.at
      /\ mutation'.then = mutation.then /\ mutation'.result = mutation.result
  BY <1>1 DEF CloseDialog, Mutations
<1>4. QuestionOK(git, screen.question, mutation.at)' /\ MutationOK(git, mutation)'
  BY <1>1, <1>2, <1>3 DEF ControlInv, MutationOK
<1>5. ListsFollow' /\ ToldTyped(told)'
  BY <1>1 DEF ControlInv, ListsFollow
<1>6. LostOnlyAsAsked
  BY <1>1, <1>2, NothingLost
<1> QED BY <1>1, <1>2, <1>3, <1>4, <1>5, <1>6 DEF ControlInv, ControlTyped

\* The banner of a mutation of unknown outcome is acknowledged.
LEMMA AcknowledgeKeeps ==
  ASSUME ControlInv, Acknowledge
  PROVE  ControlInv' /\ LostOnlyAsAsked
<1>1. UNCHANGED <<git, lists, mutation>> /\ git \in Repositories /\ ListsTyped(lists) /\ mutation \in Mutations
      /\ screen \in Screens /\ ToldTyped(told)
  BY DEF Acknowledge, ControlInv, ControlTyped
<1>2. screen' \in Screens /\ screen'.question = screen.question /\ screen'.message = screen.message
  BY <1>1 DEF Acknowledge, Screens
<1>3. ToldTyped(told)' /\ told'.outside = told.outside /\ told'.unknown = FALSE
  BY <1>1 DEF Acknowledge, ToldTyped
<1>4. QuestionOK(git, screen.question, mutation.at)' /\ MutationOK(git, mutation)'
  BY <1>1, <1>2 DEF ControlInv
<1>5. ListsFollow'
  BY <1>1, <1>3 DEF ControlInv, ListsFollow
<1>6. LostOnlyAsAsked
  BY <1>1, <1>2, NothingLost
<1> QED BY <1>1, <1>2, <1>3, <1>4, <1>5, <1>6 DEF ControlInv, ControlTyped

\* A question is asked of what the lists show.
LEMMA AskKeeps ==
  ASSUME ControlInv, NEW r \in Requests, NEW where, Ask(r, where), r.op \in Asked,
         r.untracked # {} => r.stash = 0, r.op = "stash-drop" => r.row # 0, StashRowOK(git, r)
  PROVE  ControlInv' /\ LostOnlyAsAsked
<1>1. UNCHANGED <<git, lists, mutation>> /\ git \in Repositories /\ ListsTyped(lists) /\ mutation \in Mutations
      /\ screen \in Screens
  BY DEF Ask, ControlInv, ControlTyped
<1>2. ToldTyped(told)' /\ told'.outside = told.outside /\ told'.unknown = told.unknown
  BY StepsCounted DEF Ask, ControlInv, ControlTyped
<1> DEFINE q == [r EXCEPT !.asked = TRUE]
<1>3. /\ q \in Requests /\ q.op = r.op /\ q.asked /\ q.untracked = r.untracked /\ q.stash = r.stash
      /\ q.row = r.row
  BY DEF Requests
<1>4. screen' = [screen EXCEPT !.question = q]
  BY DEF Ask
<1> HIDE DEF q
<1>5. /\ screen' \in Screens /\ screen'.question = q /\ screen'.uncertain = screen.uncertain
      /\ screen'.message = screen.message
  BY <1>1, <1>3, <1>4 DEF Screens
<1>6. mutation.at = "none"
  BY DEF Ask, Free, Busy, NoMutation
<1>7. QuestionOK(git, screen.question, mutation.at)'
  BY <1>1, <1>3, <1>5, <1>6 DEF QuestionOK, StashRowOK
<1>8. MutationOK(git, mutation)'
  BY <1>1 DEF ControlInv
<1>9. ListsFollow'
  BY <1>1, <1>2 DEF ControlInv, ListsFollow
<1>10. LostOnlyAsAsked
  BY <1>1, <1>5, NothingLost
<1> QED BY <1>1, <1>2, <1>5, <1>7, <1>8, <1>9, <1>10 DEF ControlInv, ControlTyped

\* The questions: about changes, about a stash, about the tag.
LEMMA AskFirstKeeps ==
  ASSUME ControlInv, AskFirst
  PROVE  ControlInv' /\ LostOnlyAsAsked
<1>1. ASSUME NEW F \in SUBSET Shown({"edited", "untracked"}),
             Ask([Request("discard") EXCEPT !.files = F \ Shown({"untracked"}),
                                         !.untracked = F \intersect Shown({"untracked"})], "none")
      PROVE  ControlInv' /\ LostOnlyAsAsked
  <2> DEFINE A == F \ Shown({"untracked"})
             B == F \intersect Shown({"untracked"})
             r == [Request("discard") EXCEPT !.files = A, !.untracked = B]
  <2>1. A \in SUBSET ChangedFiles /\ B \in SUBSET ChangedFiles
    BY DEF Shown
  <2>2. Ask(r, "none")
    BY <1>1
  <2> HIDE DEF A, B
  <2>3. r \in Requests /\ r.op = "discard" /\ r.stash = 0
    BY <2>1, RequestTyped DEF Operations, Asked, Requests
  <2> HIDE DEF r
  <2>4. StashRowOK(git, r) /\ r.op \in Asked
    BY <2>3 DEF StashRowOK, Asked
  <2> QED BY <2>2, <2>3, <2>4, AskKeeps
<1>2. ASSUME NEW i \in 1..Len(lists.value["stashes"]), Ask(Row("stash-drop", i), "stash")
      PROVE  ControlInv' /\ LostOnlyAsAsked
  <2>1. "stash-drop" \in Operations /\ "stash-drop" \in Asked
    BY DEF Operations, Asked
  <2>2. /\ Row("stash-drop", i) \in Requests /\ Row("stash-drop", i).op = "stash-drop"
        /\ Row("stash-drop", i).row # 0 /\ Row("stash-drop", i).untracked = {}
        /\ StashRowOK(git, Row("stash-drop", i))
    BY <2>1, RowIsOf
  <2> QED BY <1>2, <2>1, <2>2, AskKeeps
<1>3. ASSUME Ask(Request("delete-tag"), "tags")
      PROVE  ControlInv' /\ LostOnlyAsAsked
  <2>1. /\ Request("delete-tag") \in Requests /\ Request("delete-tag").op = "delete-tag"
        /\ Request("delete-tag").stash = 0
    BY RequestTyped DEF Operations, Asked
  <2>2. Request("delete-tag").op \in Asked /\ StashRowOK(git, Request("delete-tag"))
    BY <2>1 DEF StashRowOK, Asked
  <2> QED BY <1>3, <2>1, <2>2, AskKeeps
<1> QED BY <1>1, <1>2, <1>3 DEF AskFirst

\* The question is answered: what was asked for is started, the tracked files first.
LEMMA ControlAnswerKeeps ==
  ASSUME ControlInv, NEW yes \in BOOLEAN, AnswerQuestion(yes)
  PROVE  ControlInv' /\ LostOnlyAsAsked
<1> DEFINE q == screen.question
           delete == [q EXCEPT !.op = "delete", !.files = q.untracked]
<1>1. UNCHANGED <<git, lists, told>> /\ git \in Repositories /\ ListsTyped(lists) /\ ToldTyped(told)
      /\ mutation \in Mutations /\ screen \in Screens /\ q \in Requests
  BY DEF AnswerQuestion, ControlInv, ControlTyped, Screens
<1>2. /\ screen' \in Screens /\ screen'.question = Nothing /\ screen'.uncertain = screen.uncertain
      /\ screen'.message = screen.message
  BY <1>1, RequestTyped DEF AnswerQuestion, Screens
<1>3. q # Nothing /\ q.op \in Asked /\ q.asked /\ (q.untracked # {} => q.stash = 0)
      /\ (q.op = "stash-drop" => q.row # 0) /\ StashRowOK(git, q)
  BY DEF AnswerQuestion, ControlInv, QuestionOK, StashRowOK
<1>4. CASE ~yes
  <2>1. mutation' = mutation
    BY <1>4 DEF AnswerQuestion
  <2>2. QuestionOK(git, screen.question, mutation.at)'
    BY <1>2 DEF QuestionOK, Nothing
  <2> QED BY <1>1, <1>2, <2>1, <2>2, NothingLost DEF ControlInv, ControlTyped, ListsFollow
<1>5. CASE yes
  <2>1. RequestOK(q) /\ q.op # "none"
    BY <1>3 DEF RequestOK, Asked
  <2>2. delete \in Requests /\ delete.op = "delete" /\ delete.stash = q.stash /\ delete.asked
        /\ delete.files = delete.untracked
    BY <1>1, <1>3 DEF Requests, Operations
  <2>3. \/ Start(q, Nothing)
        \/ (Start(delete, Nothing) /\ q.untracked # {})
        \/ (Start(q, delete) /\ q.untracked # {})
    BY <1>5 DEF AnswerQuestion
  <2> HIDE DEF q, delete
  <2>4. RequestOK(delete) /\ delete.op # "none" /\ (q.untracked # {} => StashRowOK(git, delete) /\ delete.stash = 0)
    BY <1>3, <2>2 DEF RequestOK, StashRowOK
  <2>5. mutation' \in Mutations /\ mutation'.at = "sent" /\ MutationOK(git, mutation')
    <3>1. CASE Start(q, Nothing)
      BY <1>1, <1>3, <2>1, <3>1, RequestTyped, OperationStartKeeps
    <3>2. CASE Start(delete, Nothing) /\ q.untracked # {}
      BY <1>1, <2>2, <2>4, <3>2, RequestTyped, OperationStartKeeps
    <3>3. CASE Start(q, delete) /\ q.untracked # {}
      BY <1>1, <1>3, <2>1, <2>2, <2>4, <3>3, OperationStartKeeps
    <3> QED BY <2>3, <3>1, <3>2, <3>3
  <2>6. QuestionOK(git, screen.question, mutation.at)' /\ MutationOK(git, mutation)'
    BY <1>1, <1>2, <2>5 DEF QuestionOK, Nothing
  <2> QED BY <1>1, <1>2, <2>5, <2>6, NothingLost DEF ControlInv, ControlTyped, ListsFollow
<1> QED BY <1>4, <1>5

\* A mutation is answered, or its answer is lost: its lists are read again.
LEMMA AnsweredKeeps ==
  ASSUME ControlInv, NEW result \in {"ok", "failed", "lost"}, NEW g, Answered(result, g),
         Does(git, mutation.request, g),
         result = "ok" /\ mutation.request.op = "commit" => g.log[Len(g.log)] = "user"
  PROVE  ControlInv' /\ LostOnlyAsAsked
<1> DEFINE r == mutation.request
           reads == Reads(r.op)
<1>1. git \in Repositories /\ ListsTyped(lists) /\ mutation \in Mutations /\ screen \in Screens /\ ToldTyped(told)
  BY DEF ControlInv, ControlTyped
<1>2. git' = g /\ g \in Repositories /\ mutation.at = "sent"
  BY DEF Answered, Does
<1>3. /\ mutation' \in Mutations /\ mutation'.request = r /\ mutation'.then = mutation.then
      /\ mutation'.at = "reading" /\ mutation'.result = result
  BY <1>1 DEF Answered, Mutations
<1>4. reads \subseteq ListNames
  BY DEF Reads, ListNames
<1>5. lists' = [lists EXCEPT !.reading = @ \union reads, !.own = @ \union reads]
  BY DEF Answered
<1>6. /\ ListsTyped(lists)' /\ lists'.value = lists.value /\ lists'.failed = lists.failed
      /\ lists'.reading = lists.reading \union reads
  <2> HIDE DEF reads
  <2> QED BY <1>1, <1>4, <1>5 DEF ListsTyped
<1>7. PICK unknown \in BOOLEAN : /\ result = "lost" => unknown
                                 /\ screen' = [screen EXCEPT !.error = result # "ok", !.uncertain = @ \/ unknown]
  BY DEF Answered, Uncertain
<1> DEFINE error == result # "ok"
           uncertain == screen.uncertain \/ unknown
           lost == told.unknown \/ result = "lost"
<1>8. screen' = [screen EXCEPT !.error = error, !.uncertain = uncertain]
  BY <1>7
<1>9. told' = [told EXCEPT !.unknown = lost]
  BY DEF Answered
<1>10. error \in BOOLEAN /\ uncertain \in BOOLEAN /\ lost \in BOOLEAN /\ (lost => told.unknown \/ unknown)
  BY <1>7
<1>11. screen.uncertain => uncertain
  OBVIOUS
<1>12. unknown => uncertain
  OBVIOUS
<1> HIDE DEF error, uncertain, lost
<1>13. /\ screen' \in Screens /\ screen'.question = screen.question /\ screen'.uncertain = uncertain
       /\ screen'.message = screen.message
  BY <1>1, <1>8, <1>10 DEF Screens
<1>14. ToldTyped(told)' /\ told'.outside = told.outside /\ told'.unknown = lost
  BY <1>1, <1>9, <1>10 DEF ToldTyped
<1>15. (told.unknown => screen.uncertain)'
  BY <1>10, <1>11, <1>12, <1>13, <1>14 DEF ControlInv
<1>16. ListsFollow'
  <2> SUFFICES ASSUME NEW name \in ListNames, name \notin (lists.reading \union lists.failed \union told.outside)'
               PROVE  lists'.value[name] = Value(git', name)
    BY DEF ListsFollow
  <2>1. name \notin reads /\ lists.value[name] = Value(git, name)
    BY <1>6, <1>14 DEF ControlInv, ListsFollow
  <2>2. Value(g, name) = Value(git, name)
    BY <2>1 DEF Does
  <2> QED BY <1>2, <1>6, <2>1, <2>2
<1>17. QuestionOK(git, screen.question, mutation.at)'
  BY <1>2, <1>13 DEF ControlInv, QuestionOK
<1>18. MutationOK(git, mutation)'
  BY <1>2, <1>3 DEF ControlInv, MutationOK
<1>19. LostOnlyAsAsked
  <2>1. RequestOK(r) /\ StashRowOK(git, r)
    BY <1>2 DEF ControlInv, MutationOK
  <2>2. ASSUME NEW s \in ToSet(git.stashes) \ ToSet(git'.stashes) PROVE r.stash \in {0, s}
    BY <1>2, <2>1 DEF Does, StashRowOK
  <2>3. ASSUME NEW f \in ChangedFiles, git.files[f] = "untracked", git'.files[f] = "gone"
        PROVE  r.asked /\ f \in r.untracked
    BY <1>2, <2>1, <2>3 DEF Does, RequestOK
  <2>4. git.side = "unmerged" /\ git'.side = "none" => r.asked
    BY <1>2, <2>1 DEF Does, RequestOK
  <2> QED BY <1>13, <2>2, <2>3, <2>4 DEF LostOnlyAsAsked
<1> QED BY <1>1, <1>2, <1>3, <1>6, <1>13, <1>14, <1>15, <1>16, <1>17, <1>18, <1>19
        DEF ControlInv, ControlTyped

\* A mutation is carried out, or not, and its answer comes or is lost.
LEMMA MutatesKeeps ==
  ASSUME ControlInv, Mutates
  PROVE  ControlInv' /\ LostOnlyAsAsked
<1> DEFINE r == mutation.request
<1>1. git \in Repositories /\ r \in Requests /\ mutation.at = "sent" /\ RequestOK(r) /\ r.op # "none"
  BY DEF Mutates, Answered, ControlInv, ControlTyped, MutationOK, Mutations
<1>2. Does(git, r, git)
  BY <1>1, DoesNothing
<1>3. Possible(git, r) => /\ Does(git, r, Applied(git, r))
                          /\ r.op = "commit" => Applied(git, r).log[Len(Applied(git, r).log)] = "user"
  BY <1>1, OperationDoes
<1>4. CASE Possible(git, r) /\ Answered("ok", Applied(git, r))
  BY <1>3, <1>4, AnsweredKeeps
<1>5. CASE Answered("failed", git) \/ Answered("lost", git)
  BY <1>2, <1>5, AnsweredKeeps
<1>6. CASE r.op = "merge" /\ Answered("failed", Failed(git, r))
  BY <1>1, <1>6, FailureDoes, AnsweredKeeps
<1>7. CASE Answered("lost", IF Possible(git, r) THEN Applied(git, r) ELSE git)
  <2>1. CASE Possible(git, r)
    BY <1>3, <1>7, <2>1, AnsweredKeeps
  <2>2. CASE ~Possible(git, r)
    BY <1>2, <1>7, <2>2, AnsweredKeeps
  <2> QED BY <2>1, <2>2
<1> QED BY <1>4, <1>5, <1>6, <1>7 DEF Mutates

\* Lists are read: they show the repository, or say that they failed.
LEMMA ListedKeeps ==
  ASSUME ControlInv, NEW names \in SUBSET ListNames, NEW bad \in SUBSET names, Listed(names, bad)
  PROVE  ListsTyped(lists)' /\ ToldTyped(told)' /\ told'.unknown = told.unknown /\ ListsFollow'
<1> DEFINE value == [n \in ListNames |-> IF n \in names \ bad THEN Value(git, n) ELSE lists.value[n]]
           outside == told.outside \ (names \ bad)
<1>1. git \in Repositories /\ ListsTyped(lists) /\ ToldTyped(told) /\ git' = git
  BY DEF Listed, ControlInv, ControlTyped
<1>2. value["stashes"] \in Seq(Nat)
  BY <1>1 DEF ListNames, ListsTyped, Value, Repositories
<1>3. \A n \in ListNames : value[n] = IF n \in names \ bad THEN Value(git, n) ELSE lists.value[n]
  OBVIOUS
<1>4. lists' = [value |-> value, failed |-> (lists.failed \ names) \union bad,
                reading |-> lists.reading \ names, own |-> lists.own \ names]
  BY DEF Listed
<1>5. told' = [told EXCEPT !.outside = outside] /\ outside \in SUBSET ListNames
  BY <1>1 DEF Listed, ToldTyped
<1> HIDE DEF value
<1>6. ListsTyped(lists)'
  BY <1>1, <1>2, <1>4 DEF ListsTyped
<1>7. ToldTyped(told)' /\ told'.unknown = told.unknown /\ told'.outside = told.outside \ (names \ bad)
  <2> HIDE DEF outside
  <2>1. ToldTyped(told)' /\ told'.unknown = told.unknown /\ told'.outside = outside
    BY <1>1, <1>5 DEF ToldTyped
  <2> QED BY <2>1 DEF outside
<1>8. ListsFollow'
  <2> SUFFICES ASSUME NEW n \in ListNames, n \notin (lists.reading \union lists.failed \union told.outside)'
               PROVE  lists'.value[n] = Value(git', n)
    BY DEF ListsFollow
  <2>1. CASE n \in names
    BY <1>1, <1>3, <1>4, <2>1
  <2>2. CASE n \notin names
    <3>1. lists.value[n] = Value(git, n)
      BY <1>4, <1>7, <2>2 DEF ControlInv, ListsFollow
    <3> QED BY <1>1, <1>3, <1>4, <2>2, <3>1
  <2> QED BY <2>1, <2>2
<1> QED BY <1>6, <1>7, <1>8

\* A list that a dialog reads.
LEMMA ReadEndsKeeps ==
  ASSUME ControlInv, NEW name \in ListNames, NEW ok \in BOOLEAN, ReadEnds(name, ok)
  PROVE  ControlInv' /\ LostOnlyAsAsked
<1>1. PICK bad \in SUBSET {name} : Listed({name}, bad)
  BY DEF ReadEnds
<1>2. UNCHANGED <<git, mutation, screen>>
  BY DEF ReadEnds, Listed
<1>3. ListsTyped(lists)' /\ ToldTyped(told)' /\ told'.unknown = told.unknown /\ ListsFollow'
  BY <1>1, ListedKeeps
<1> QED BY <1>2, <1>3, NothingLost DEF ControlInv, ControlTyped

\* The reads that follow a mutation.
LEMMA ReadsEndKeeps ==
  ASSUME ControlInv, NEW ok \in BOOLEAN, ReadsEnd(ok)
  PROVE  ControlInv' /\ LostOnlyAsAsked
<1>1. PICK bad \in SUBSET lists.own : Listed(lists.own, bad)
  BY DEF ReadsEnd
<1>2. lists.own \in SUBSET ListNames /\ mutation \in Mutations /\ git \in Repositories /\ screen \in Screens
  BY DEF ControlInv, ControlTyped, ListsTyped
<1>3. UNCHANGED <<git, screen>> /\ mutation.at = "reading"
  BY DEF ReadsEnd, Listed
<1>4. ListsTyped(lists)' /\ ToldTyped(told)' /\ told'.unknown = told.unknown /\ ListsFollow'
  BY <1>1, <1>2, ListedKeeps
<1>5. /\ mutation' \in Mutations /\ mutation'.request = mutation.request /\ mutation'.then = mutation.then
      /\ mutation'.at = "read" /\ mutation'.result = mutation.result
  BY <1>2 DEF ReadsEnd, Mutations
<1>6. QuestionOK(git, screen.question, mutation.at)' /\ MutationOK(git, mutation)'
  BY <1>3, <1>5 DEF ControlInv, QuestionOK, MutationOK
<1> QED BY <1>2, <1>3, <1>4, <1>5, <1>6, NothingLost DEF ControlInv, ControlTyped

\* What the caller does with the outcome.
LEMMA SettleKeeps ==
  ASSUME ControlInv, Settle
  PROVE  ControlInv' /\ LostOnlyAsAsked
<1> DEFINE r == mutation.request
           force == [Request("force-delete") EXCEPT !.asked = TRUE]
<1>1. UNCHANGED <<git, lists, told>> /\ git \in Repositories /\ ListsTyped(lists) /\ ToldTyped(told)
      /\ mutation \in Mutations /\ screen \in Screens /\ mutation.at = "read"
  BY DEF Settle, ControlInv, ControlTyped
<1>2. force \in Requests /\ force.op = "force-delete" /\ force.asked /\ force.stash = 0
  BY RequestTyped DEF Operations, Asked, Requests
<1> HIDE DEF force
<1>3. /\ screen' \in Screens /\ screen'.question \in {screen.question, force}
      /\ screen'.uncertain = screen.uncertain
      /\ screen'.message = screen.message \/ (mutation.result = "ok" /\ r.op = "commit")
      /\ mutation.result = "ok" => screen'.question = screen.question
  <2>1. screen' = Settled(r)
    BY DEF Settle
  <2>2. CASE mutation.result = "ok" /\ r.op = "commit"
    <3>1. screen' = [screen EXCEPT !.message = FALSE]
      BY <2>1, <2>2 DEF Settled
    <3> QED BY <1>1, <2>2, <3>1 DEF Screens
  <2>3. CASE mutation.result = "ok" /\ r.op = "merge"
    <3>1. screen' = [screen EXCEPT !.dialog = "none", !.dialogError = FALSE]
      BY <2>1, <2>3 DEF Settled
    <3> QED BY <1>1, <3>1 DEF Screens
  <2>4. CASE mutation.result = "ok" /\ r.op = "push-upstream"
    <3>1. screen' = [screen EXCEPT !.publish = FALSE]
      BY <2>1, <2>4 DEF Settled
    <3> QED BY <1>1, <3>1 DEF Screens
  <2>5. CASE mutation.result = "failed" /\ r.op = "push"
    <3>1. screen' = [screen EXCEPT !.publish = TRUE]
      BY <2>1, <2>5 DEF Settled
    <3> QED BY <1>1, <2>5, <3>1 DEF Screens
  <2>6. CASE mutation.result = "failed" /\ r.op = "delete-branch" /\ lists.value["branches"] # "none"
    <3>1. screen' = [screen EXCEPT !.question = force]
      BY <2>1, <2>6 DEF Settled, force
    <3> QED BY <1>1, <1>2, <2>6, <3>1 DEF Screens
  <2>7. CASE /\ ~(mutation.result = "ok" /\ r.op \in {"commit", "merge", "push-upstream"})
             /\ ~(mutation.result = "failed" /\ r.op = "push")
             /\ ~(mutation.result = "failed" /\ r.op = "delete-branch" /\ lists.value["branches"] # "none")
    <3>1. screen' \in {screen, [screen EXCEPT !.dialogError = TRUE]}
      BY <2>1, <2>7 DEF Settled
    <3> QED BY <1>1, <3>1 DEF Screens
  <2> QED BY <2>2, <2>3, <2>4, <2>5, <2>6, <2>7
<1>4. LostOnlyAsAsked
  <2>1. screen.message /\ ~screen'.message => Last(git.log) = "user"
    BY <1>1, <1>3 DEF ControlInv, MutationOK, Last
  <2> QED BY <1>1, <2>1 DEF LostOnlyAsAsked, Repositories
<1>5. screen.question.stash = 0 /\ (screen.question = Nothing \/ screen.question.asked)
  BY <1>1 DEF ControlInv, QuestionOK
<1>6. CASE mutation.result = "ok" /\ mutation.then # Nothing
  <2>1. Start(mutation.then, Nothing) /\ mutation.then \in Requests
    BY <1>1, <1>6 DEF Settle, Mutations
  <2>2. mutation.then.op = "delete" /\ mutation.then.stash = 0 /\ RequestOK(mutation.then)
    BY <1>6 DEF ControlInv, MutationOK
  <2>3. StashRowOK(git, mutation.then)
    BY <2>2 DEF StashRowOK
  <2>4. mutation' \in Mutations /\ mutation'.at = "sent" /\ MutationOK(git, mutation')
    BY <1>1, <2>1, <2>2, <2>3, RequestTyped, OperationStartKeeps
  <2>5. QuestionOK(git, screen.question, mutation.at)'
    BY <1>1, <1>3, <1>5, <1>6 DEF ControlInv, QuestionOK
  <2> QED BY <1>1, <1>3, <1>4, <2>4, <2>5 DEF ControlInv, ControlTyped, ListsFollow
<1>7. CASE ~(mutation.result = "ok" /\ mutation.then # Nothing)
  <2>1. mutation' = NoMutation
    BY <1>7 DEF Settle
  <2>2. mutation' \in Mutations /\ mutation'.at = "none" /\ MutationOK(git, mutation')
    BY <2>1, RequestTyped DEF NoMutation, Mutations, MutationOK
  <2>3. QuestionOK(git, screen.question, mutation.at)'
    BY <1>1, <1>2, <1>3, <1>5 DEF ControlInv, QuestionOK, Asked
  <2> QED BY <1>1, <1>3, <1>4, <2>2, <2>3 DEF ControlInv, ControlTyped, ListsFollow
<1> QED BY <1>6, <1>7

\* Another program works in the repository: its lists are old until they are read.
LEMMA MeddleKeeps ==
  ASSUME ControlInv, Meddle
  PROVE  ControlInv' /\ LostOnlyAsAsked
<1>1. lists' = lists /\ git \in Repositories /\ ListsTyped(lists) /\ ToldTyped(told)
      /\ mutation \in Mutations /\ screen \in Screens
  BY DEF Meddle, ControlInv, ControlTyped
<1> DEFINE meddles == told.meddles + 1
<1>2. meddles \in Nat
  BY <1>1 DEF ToldTyped
<1>3. ASSUME NEW f \in ChangedFiles, git.files[f] \in {"clean", "gone", "edited"},
             git' = [git EXCEPT !.files[f] = CASE @ = "clean" -> "edited" [] @ = "gone" -> "untracked"
                                                [] OTHER -> "staged"],
             told' = [told EXCEPT !.meddles = @ + 1, !.outside = @ \union {"snapshot"}],
             UNCHANGED <<mutation, screen>>
      PROVE  ControlInv' /\ LostOnlyAsAsked
  <2> DEFINE outside == told.outside \union {"snapshot"}
             state == CASE git.files[f] = "clean" -> "edited" [] git.files[f] = "gone" -> "untracked"
                        [] OTHER -> "staged"
             files == [git.files EXCEPT ![f] = state]
  <2>1. state \in FileStates /\ state # "gone" /\ outside \in SUBSET ListNames
    BY <1>1 DEF FileStates, ToldTyped, ListNames
  <2>2. git' = [git EXCEPT !.files = files]
    BY <1>1, <1>3 DEF Repositories
  <2>3. told' = [told EXCEPT !.meddles = meddles, !.outside = outside]
    BY <1>3
  <2> HIDE DEF state, outside, meddles
  <2>4. /\ files \in [ChangedFiles -> FileStates]
        /\ \A e \in ChangedFiles : git.files[e] = "untracked" => files[e] # "gone"
    BY <1>1, <1>3, <2>1 DEF Repositories
  <2> HIDE DEF files
  <2>5. /\ git' \in Repositories /\ git'.files = files /\ git'.merge = git.merge /\ git'.log = git.log
        /\ git'.side = git.side /\ git'.stashes = git.stashes /\ git'.tags = git.tags
    BY <1>1, <2>2, <2>4 DEF Repositories
  <2>6. ToldTyped(told)' /\ told'.outside = outside /\ told'.unknown = told.unknown
    BY <1>1, <1>2, <2>1, <2>3 DEF ToldTyped
  <2>7. ListsFollow'
    <3> SUFFICES ASSUME NEW n \in ListNames, n \notin (lists.reading \union lists.failed \union told.outside)'
                 PROVE  lists'.value[n] = Value(git', n)
      BY DEF ListsFollow
    <3>1. n # "snapshot" /\ n \notin told.outside
      BY <2>6 DEF outside
    <3>2. lists.value[n] = Value(git, n)
      BY <1>1, <3>1 DEF ControlInv, ListsFollow
    <3>3. Value(git', n) = Value(git, n)
      BY <2>5, <3>1 DEF Value, ListNames
    <3> QED BY <1>1, <3>2, <3>3
  <2>8. QuestionOK(git, screen.question, mutation.at)' /\ MutationOK(git, mutation)'
    BY <1>3, <2>5 DEF ControlInv, QuestionOK, MutationOK, StashRowOK
  <2>9. LostOnlyAsAsked
    BY <1>3, <2>4, <2>5 DEF LostOnlyAsAsked
  <2> QED BY <1>1, <1>3, <2>5, <2>6, <2>7, <2>8, <2>9 DEF ControlInv, ControlTyped
<1>4. ASSUME git' = [git EXCEPT !.stashes = <<git.next>> \o @, !.next = @ + 1],
             told' = [told EXCEPT !.meddles = @ + 1, !.outside = @ \union {"stashes"}],
             mutation' = [mutation EXCEPT !.request.stash = 0],
             screen' = [screen EXCEPT !.question.stash = 0]
      PROVE  ControlInv' /\ LostOnlyAsAsked
  <2> DEFINE outside == told.outside \union {"stashes"}
             pushed == <<git.next>> \o git.stashes
             next == git.next + 1
             m == [mutation.request EXCEPT !.stash = 0]
             q == [screen.question EXCEPT !.stash = 0]
  <2>1. outside \in SUBSET ListNames /\ next \in Nat
    BY <1>1 DEF ToldTyped, ListNames, Repositories
  <2>2. /\ git' = [git EXCEPT !.stashes = pushed, !.next = next]
        /\ told' = [told EXCEPT !.meddles = meddles, !.outside = outside]
        /\ mutation' = [mutation EXCEPT !.request = m] /\ screen' = [screen EXCEPT !.question = q]
    BY <1>1, <1>4 DEF Repositories, Mutations, Screens
  <2>3. /\ m \in Requests /\ m.stash = 0 /\ m.op = mutation.request.op /\ m.row = mutation.request.row
        /\ m.asked = mutation.request.asked /\ m.files = mutation.request.files
        /\ m.untracked = mutation.request.untracked
    BY <1>1 DEF Mutations, Requests
  <2>4. /\ q \in Requests /\ q.stash = 0 /\ q.op = screen.question.op /\ q.row = screen.question.row
        /\ q.asked = screen.question.asked /\ q.untracked = screen.question.untracked
    BY <1>1 DEF Screens, Requests
  <2>5. screen.question = Nothing => q = Nothing
    BY DEF Nothing
  <2>6. pushed \in Seq(Nat) /\ ToSet(git.stashes) \subseteq ToSet(pushed)
    <3> DEFINE old == git.stashes
    <3>1. old \in Seq(Nat) /\ git.next \in Nat
      BY <1>1 DEF Repositories
    <3> HIDE DEF old
    <3>2. <<git.next>> \o old \in Seq(Nat) /\ ToSet(old) \subseteq ToSet(<<git.next>> \o old)
      BY <3>1, PushedHolds
    <3> QED BY <3>2 DEF old
  <2> HIDE DEF outside, pushed, next, m, q, meddles
  <2>7. /\ git' \in Repositories /\ git'.files = git.files /\ git'.merge = git.merge /\ git'.log = git.log
        /\ git'.side = git.side /\ git'.stashes = pushed /\ git'.tags = git.tags
    BY <1>1, <2>1, <2>2, <2>6 DEF Repositories
  <2>8. ToldTyped(told)' /\ told'.outside = outside /\ told'.unknown = told.unknown
    BY <1>1, <1>2, <2>1, <2>2 DEF ToldTyped
  <2>9. /\ mutation' \in Mutations /\ mutation'.request = m /\ mutation'.then = mutation.then
        /\ mutation'.at = mutation.at /\ mutation'.result = mutation.result
    BY <1>1, <2>2, <2>3 DEF Mutations
  <2>10. /\ screen' \in Screens /\ screen'.question = q /\ screen'.uncertain = screen.uncertain
         /\ screen'.message = screen.message
    BY <1>1, <2>2, <2>4 DEF Screens
  <2>11. ListsFollow'
    <3> SUFFICES ASSUME NEW n \in ListNames, n \notin (lists.reading \union lists.failed \union told.outside)'
                 PROVE  lists'.value[n] = Value(git', n)
      BY DEF ListsFollow
    <3>1. n # "stashes" /\ n \notin told.outside
      BY <2>8 DEF outside
    <3>2. lists.value[n] = Value(git, n)
      BY <1>1, <3>1 DEF ControlInv, ListsFollow
    <3>3. Value(git', n) = Value(git, n)
      BY <2>7, <3>1 DEF Value, ListNames
    <3> QED BY <1>1, <3>2, <3>3
  <2>12. QuestionOK(git, screen.question, mutation.at)'
    BY <2>4, <2>5, <2>10 DEF ControlInv, QuestionOK
  <2>13. MutationOK(git, mutation)'
    BY <2>3, <2>7, <2>9 DEF ControlInv, MutationOK, RequestOK, StashRowOK
  <2>14. LostOnlyAsAsked
    BY <1>1, <2>6, <2>7, <2>10 DEF LostOnlyAsAsked
  <2> QED BY <1>1, <2>7, <2>8, <2>9, <2>10, <2>11, <2>12, <2>13, <2>14 DEF ControlInv, ControlTyped
<1> QED BY <1>3, <1>4 DEF Meddle

\* The invariant holds at first: the lists are as the repository is.
THEOREM ControlInits ==
  ASSUME ControlInit
  PROVE  ControlInv
<1>1. <<"first">> \in Seq(Commits) \ {<<>>} /\ <<2, 1>> \in Seq(Nat)
  BY DEF Commits
<1>2. git \in Repositories
  <2> DEFINE first == <<"first">>
             two == <<2, 1>>
  <2>1. git \in [files : [ChangedFiles -> {"edited", "untracked"}], merge : {"none"}, log : {first},
                 side : {"unmerged"}, stashes : {two}, next : {3}, tags : {TRUE},
                 pushed : {0}, upstream : BOOLEAN]
    BY DEF ControlInit
  <2>2. first \in Seq(Commits) \ {<<>>} /\ two \in Seq(Nat)
    BY <1>1
  <2> HIDE DEF first, two
  <2>3. /\ git = [files |-> git.files, merge |-> git.merge, log |-> git.log, side |-> git.side,
                 stashes |-> git.stashes, next |-> git.next, tags |-> git.tags,
                 pushed |-> git.pushed, upstream |-> git.upstream]
        /\ git.files \in [ChangedFiles -> {"edited", "untracked"}]
        /\ git.merge = "none" /\ git.log = first /\ git.side = "unmerged" /\ git.stashes = two
        /\ git.next = 3 /\ git.tags \in BOOLEAN /\ git.pushed = 0 /\ git.upstream \in BOOLEAN
    BY <2>1
  <2>4. git.files \in [ChangedFiles -> FileStates]
    <3> DEFINE fs == git.files
    <3>1. fs \in [ChangedFiles -> {"edited", "untracked"}]
      BY <2>3
    <3>2. {"edited", "untracked"} \subseteq FileStates
      BY DEF FileStates
    <3> HIDE DEF fs
    <3>3. fs \in [ChangedFiles -> FileStates]
      BY <3>1, <3>2
    <3> QED BY <3>3 DEF fs
  <2>5. git.next \in Nat /\ git.pushed \in Nat
    BY <2>3
  <2>6. git.log \in Seq(Commits) \ {<<>>} /\ git.stashes \in Seq(Nat)
    BY <2>2, <2>3
  <2> QED BY <2>3, <2>4, <2>5, <2>6 DEF Repositories
<1>3. ListsTyped(lists) /\ ListsFollow
  BY <1>1 DEF ControlInit, ListsTyped, ListsFollow, ListNames, Value
<1>4. mutation \in Mutations /\ MutationOK(git, mutation)
  BY RequestTyped DEF ControlInit, NoMutation, Mutations, MutationOK
<1>5. screen \in Screens /\ QuestionOK(git, screen.question, mutation.at)
  <2>1. /\ screen \in Screens /\ screen.question = Nothing
    BY RequestTyped DEF ControlInit, Screens
  <2>2. QuestionOK(git, Nothing, mutation.at)
    BY DEF QuestionOK, Nothing
  <2> QED BY ONLY <2>1, <2>2
<1>6. ToldTyped(told) /\ ~told.unknown
  <2>1. /\ told = [session |-> told.session, steps |-> told.steps, meddles |-> told.meddles,
                  outside |-> told.outside, unknown |-> told.unknown]
        /\ told.steps = 0 /\ told.meddles = 0 /\ told.outside = {}
        /\ told.unknown \in BOOLEAN /\ ~told.unknown
    BY DEF ControlInit
  <2>2. told.steps \in Nat /\ told.meddles \in Nat /\ told.outside \in SUBSET ListNames
        /\ told.unknown \in BOOLEAN
    BY <2>1
  <2> QED BY <2>1, <2>2 DEF ToldTyped
<1> QED BY <1>2, <1>3, <1>4, <1>5, <1>6 DEF ControlInv, ControlTyped

\* Every step of Source Control keeps the invariant, and takes away what was asked for.
THEOREM ControlSteps ==
  ASSUME ControlInv, [ControlNext]_controlVars
  PROVE  ControlInv' /\ LostOnlyAsAsked
<1>1. CASE \E F \in SUBSET ChangedFiles : Stage(F) \/ Unstage(F)
  BY <1>1, WorktreePress
<1>2. CASE SubmitCommit
  BY <1>2, WorktreePress
<1>3. CASE \E named \in told.session :
             \/ BranchMenuOperation(named) \/ HeaderOperation(named) \/ ConflictOperation(named)
             \/ StashOperation(named) \/ TagOperation(named) \/ Integrate(named) \/ PublishBranch(named)
  BY <1>3, OperationPress
<1>4. CASE \E d \in {<<"stash", {"stashes"}>>, <<"tags", {"tags", "branches"}>>, <<"integrate", {"branches"}>>} :
             DialogOf(d[1]) \intersect told.session # {} /\ OpenDialog(d[1], d[2])
  BY <1>4, OpenDialogKeeps DEF ListNames
<1>5. CASE Compose \/ CloseDialog \/ AskFirst \/ Acknowledge \/ Mutates \/ Settle \/ Meddle
  BY <1>5, ComposeKeeps, CloseDialogKeeps, AskFirstKeeps, AcknowledgeKeeps, MutatesKeeps, SettleKeeps,
     MeddleKeeps
<1>6. CASE \E yes \in BOOLEAN : AnswerQuestion(yes)
  BY <1>6, ControlAnswerKeeps
<1>7. CASE \E ok \in BOOLEAN : ReadsEnd(ok) \/ \E name \in ListNames : ReadEnds(name, ok)
  BY <1>7, ReadsEndKeeps, ReadEndsKeeps
<1>8. CASE UNCHANGED controlVars
  <2>1. UNCHANGED <<git, lists, mutation, screen, told>>
    BY <1>8 DEF controlVars
  <2> QED BY <2>1, NothingLost DEF ControlInv, ControlTyped, ListsFollow
<1> QED BY <1>1, <1>2, <1>3, <1>4, <1>5, <1>6, <1>7, <1>8 DEF ControlNext

\* At rest the lists show the repository.
THEOREM ControlImplies == ControlInv => ListsFollowGit
BY DEF ControlInv, ListsFollow, ListsFollowGit

(***************************************************************************)
(* HunkActions                                                             *)
(***************************************************************************)

\* The shapes of the variables; a diff may be anything.
FileTyped(f) == f \in [diff : {f.diff}, gen : Nat, unnoticed : BOOLEAN]
HeaderTyped(h) == h = [key |-> h.key, hunks |-> h.hunks, id |-> h.id, loading |-> h.loading,
                       error |-> h.error] /\ h.key \in Nat

\* The hunks of the menu are those of a diff that was read at a generation not before the
\* review's; if the file has not changed since, they are its hunks.
HeaderOK(h, f) ==
  /\ h.key <= f.gen
  /\ h.hunks # <<>> =>
       /\ h.id = [at |-> "issued", gen |-> h.id.gen, diff |-> h.hunks]
       /\ h.id.gen \in h.key..f.gen
       /\ h.id.gen = f.gen /\ ~f.unnoticed => h.hunks = f.diff

\* So is the diff that is being read, which belongs to a header of an older review or
\* to the one that is shown.
ReadOK(d, f) ==
  \/ d = NoHunks
  \/ d = [at |-> "load", key |-> d.key, attempt |-> d.attempt] /\ d.key \in 0..f.gen
  \/ d = [at |-> "diff", key |-> d.key, attempt |-> d.attempt, gen |-> d.gen]
     /\ d.key \in Nat /\ d.gen \in d.key..f.gen
  \/ d = [at |-> "check", key |-> d.key, attempt |-> d.attempt, gen |-> d.gen, diff |-> d.diff]
     /\ d.key \in Nat /\ d.gen \in d.key..f.gen
     /\ (d.gen = f.gen /\ ~f.unnoticed => d.diff = f.diff)

\* A patch that waits for git is of the diff that was shown, which the server has
\* compared with the file's; one that git took has changed the file, which the watcher
\* has not noticed or the generation says.
PatchOK(p, f) ==
  \/ p = NoHunks
  \/ /\ p = [at |-> p.at, key |-> p.key, hunk |-> p.hunk, id |-> p.id, shown |-> p.shown,
             current |-> p.current, drift |-> p.drift]
     /\ p.at \in {"sent", "validating", "read", "queued", "applied", "answered"}
     /\ p.key \in Nat /\ p.drift \in BOOLEAN
     /\ p.id = [at |-> "issued", gen |-> p.id.gen, diff |-> p.shown]
     /\ p.at = "read" => p.drift \/ p.current = f.diff
     /\ p.at = "queued" => p.drift \/ p.shown = f.diff

\* The inductive invariant of the hunks.
HunksInv ==
  /\ FileTyped(file) /\ HeaderTyped(header) /\ HeaderOK(header, file)
  /\ ReadOK(diffRead, file) /\ PatchOK(patch, file)

\* Another program's change of the file is not noticed, and a patch drifts by it.
LEMMA OthersEditKeeps ==
  ASSUME HunksInv, NEW d \in FileDiffs, OthersEdit(d)
  PROVE  HunksInv'
<1>1. FileTyped(file)' /\ file'.unnoticed = TRUE /\ file'.gen = file.gen
  BY DEF HunksInv, OthersEdit, FileTyped
<1>2. HeaderTyped(header)' /\ HeaderOK(header, file)'
  BY <1>1 DEF HunksInv, OthersEdit, HeaderTyped, HeaderOK, FileTyped
<1>3. ReadOK(diffRead, file)'
  BY <1>1 DEF HunksInv, OthersEdit, ReadOK, FileTyped
<1>4. PatchOK(patch, file)'
  BY <1>1 DEF HunksInv, OthersEdit, PatchOK, NoHunks, FileTyped
<1> QED BY <1>1, <1>2, <1>3, <1>4 DEF HunksInv

\* When the watcher has noticed, all that was read before is of an older generation.
LEMMA NoticedKeeps ==
  ASSUME HunksInv, WatcherNotices
  PROVE  HunksInv'
<1> DEFINE D == {file.diff}
<1>0. file \in [diff : D, gen : Nat, unnoticed : BOOLEAN]
  BY DEF HunksInv, FileTyped
<1>1. FileTyped(file)' /\ file'.diff = file.diff /\ file'.gen = file.gen + 1 /\ file.gen \in Nat
  <2> DEFINE b == FALSE
             g == file.gen + 1
  <2>1. file' = [file EXCEPT !.unnoticed = b, !.gen = g]
    BY DEF WatcherNotices
  <2>0. b \in BOOLEAN /\ b = FALSE /\ g = file.gen + 1 /\ g \in Nat
    BY <1>0
  <2> HIDE DEF b, g, D
  <2>2. file'.diff = file.diff /\ file'.gen = file.gen + 1 /\ file'.unnoticed = b
    BY <1>0, <2>0, <2>1
  <2>3. file' \in [diff : {file.diff}, gen : Nat, unnoticed : BOOLEAN]
    <3>1. file' \in [diff : D, gen : Nat, unnoticed : BOOLEAN]
      BY <1>0, <2>0, <2>1
    <3> QED BY <3>1 DEF D
  <2> QED BY <1>0, <2>0, <2>2, <2>3 DEF FileTyped
<1>2. HeaderTyped(header)' /\ HeaderOK(header, file)'
  BY <1>1 DEF HunksInv, WatcherNotices, HeaderTyped, HeaderOK
<1>3. ReadOK(diffRead, file)'
  BY <1>1 DEF HunksInv, WatcherNotices, ReadOK
<1>4. PatchOK(patch, file)'
  BY <1>1 DEF HunksInv, WatcherNotices, PatchOK
<1> QED BY <1>1, <1>2, <1>3, <1>4 DEF HunksInv

\* A header that offers no hunks is sound.
LEMMA EmptyHeader ==
  ASSUME NEW h, HeaderTyped(h), NEW f, h.key <= f.gen, h.hunks = <<>>
  PROVE  HeaderOK(h, f)
BY DEF HeaderOK

\* A new header has no hunks; asking for them sends a read of its own key.
LEMMA HeaderStepsKeep ==
  ASSUME HunksInv, ReviewRefreshes \/ ShowHunks
  PROVE  HunksInv'
<1> USE DEF HunksInv
<1>1. CASE ReviewRefreshes
  <2>1. HeaderTyped(header)' /\ HeaderOK(header, file)' /\ FileTyped(file)'
    BY <1>1 DEF ReviewRefreshes, FreshHeader, HeaderTyped, HeaderOK, FileTyped
  <2>2. ReadOK(diffRead, file)' /\ PatchOK(patch, file)'
    BY <1>1 DEF ReviewRefreshes, ReadOK, PatchOK
  <2> QED BY <2>1, <2>2
<1>2. CASE ShowHunks
  <2>1. HeaderTyped(header)' /\ HeaderOK(header, file)' /\ FileTyped(file)'
    BY <1>2 DEF ShowHunks, HeaderTyped, HeaderOK, FileTyped
  <2>2. ReadOK(diffRead, file)'
    BY <1>2 DEF ShowHunks, ReadOK, HeaderTyped, HeaderOK, FileTyped
  <2>3. PatchOK(patch, file)'
    BY <1>2 DEF ShowHunks, PatchOK
  <2> QED BY <2>1, <2>2, <2>3
<1> QED BY <1>1, <1>2

\* The server reads the diff at the generation it has noted.
LEMMA ServerReadsKeep ==
  ASSUME HunksInv, DiffStarts \/ DiffReads
  PROVE  HunksInv'
<1> USE DEF HunksInv
<1>1. ReadOK(diffRead, file)'
  BY DEF DiffStarts, DiffReads, ReadOK, NoHunks, FileTyped
<1>2. FileTyped(file)' /\ HeaderTyped(header)' /\ HeaderOK(header, file)' /\ PatchOK(patch, file)'
  BY DEF DiffStarts, DiffReads, FileTyped, HeaderTyped, HeaderOK, PatchOK
<1> QED BY <1>1, <1>2

\* A load that fails leaves the hunks there were.
LEMMA DiffFailsKeeps ==
  ASSUME HunksInv, DiffFails, UNCHANGED <<file, patch>>
  PROVE  HunksInv'
<1> USE DEF HunksInv
<1>1. HeaderTyped(header)' /\ HeaderOK(header, file)'
  BY DEF DiffFails, LoadEnds, HeaderTyped, HeaderOK
<1>2. FileTyped(file)' /\ ReadOK(diffRead, file)' /\ PatchOK(patch, file)'
  BY DEF DiffFails, LoadEnds, FileTyped, ReadOK, PatchOK
<1> QED BY <1>1, <1>2

\* An answer is the diff of the generation it names, or another attempt is made.
LEMMA DiffAnsweredKeeps ==
  ASSUME HunksInv, DiffAnswered
  PROVE  HunksInv'
<1> USE DEF HunksInv
<1>0. /\ diffRead = [at |-> "check", key |-> diffRead.key, attempt |-> diffRead.attempt,
                    gen |-> diffRead.gen, diff |-> diffRead.diff]
      /\ diffRead.key \in Nat /\ diffRead.gen \in diffRead.key..file.gen /\ file.gen \in Nat
      /\ diffRead.gen = file.gen /\ ~file.unnoticed => diffRead.diff = file.diff
  BY DEF DiffAnswered, ReadOK, NoHunks, FileTyped
<1>1. CASE diffRead.gen # file.gen /\ diffRead.attempt < Attempts
  <2>1. ReadOK(diffRead, file)'
    BY <1>0, <1>1 DEF DiffAnswered, ReadOK
  <2>2. FileTyped(file)' /\ HeaderTyped(header)' /\ HeaderOK(header, file)' /\ PatchOK(patch, file)'
    BY <1>1 DEF DiffAnswered, FileTyped, HeaderTyped, HeaderOK, PatchOK
  <2> QED BY <2>1, <2>2
<1>2. CASE diffRead.gen # file.gen /\ ~(diffRead.attempt < Attempts)
  BY <1>2, DiffFailsKeeps DEF DiffAnswered
<1>3. CASE diffRead.gen = file.gen
  <2> DEFINE id == IF diffRead.diff = <<>> THEN NoHunks
                   ELSE [at |-> "issued", gen |-> diffRead.gen, diff |-> diffRead.diff]
             no == FALSE
             h1 == [header EXCEPT !.loading = no]
             h2 == [h1 EXCEPT !.hunks = diffRead.diff]
             h  == [h2 EXCEPT !.id = id]
  <2>1. LoadEnds(h)
    BY <1>3 DEF DiffAnswered
  <2> HIDE DEF id, no
  <2>2. HeaderTyped(h) /\ h.key = header.key /\ h.hunks = diffRead.diff /\ h.id = id
    <3>1. HeaderTyped(h1) /\ h1.key = header.key
      BY DEF HeaderTyped
    <3> HIDE DEF h1
    <3>2. HeaderTyped(h2) /\ h2.key = header.key /\ h2.hunks = diffRead.diff
      BY <3>1 DEF HeaderTyped
    <3> HIDE DEF h2
    <3> QED BY <3>1, <3>2 DEF HeaderTyped
  <2>3. diffRead.key = header.key => HeaderOK(h, file)
    BY <1>0, <1>3, <2>2 DEF HeaderOK, id
  <2>4. HeaderTyped(header)' /\ HeaderOK(header, file)'
    BY <2>1, <2>2, <2>3 DEF DiffAnswered, LoadEnds, HeaderOK
  <2>5. FileTyped(file)' /\ ReadOK(diffRead, file)' /\ PatchOK(patch, file)'
    BY <2>1 DEF DiffAnswered, LoadEnds, FileTyped, ReadOK, PatchOK
  <2> QED BY <2>4, <2>5
<1> QED BY <1>1, <1>2, <1>3

\* The patch that is sent is a hunk of the menu, with the menu's identity.
LEMMA ChooseHunkKeeps ==
  ASSUME HunksInv, NEW i \in DOMAIN header.hunks, ChooseHunk(i)
  PROVE  HunksInv'
<1> USE DEF HunksInv
<1>1. header.hunks # <<>>
  OBVIOUS
<1>2. PatchOK(patch, file)'
  BY <1>1 DEF ChooseHunk, PatchOK, HeaderOK, HeaderTyped
<1>3. HeaderTyped(header)' /\ HeaderOK(header, file)'
  BY DEF ChooseHunk, HeaderTyped, HeaderOK
<1>4. FileTyped(file)' /\ ReadOK(diffRead, file)'
  BY DEF ChooseHunk, FileTyped, ReadOK
<1> QED BY <1>2, <1>3, <1>4

\* The header of a patch that fails forgets its hunks, or is left alone.
LEMMA PatchFailsKeeps ==
  ASSUME HunksInv, PatchFails, UNCHANGED <<file, diffRead>>
  PROVE  HunksInv'
<1> USE DEF HunksInv
<1>1. HeaderTyped(header)' /\ HeaderOK(header, file)'
  BY DEF PatchFails, HeaderTyped, HeaderOK
<1>2. FileTyped(file)' /\ ReadOK(diffRead, file)' /\ PatchOK(patch, file)'
  BY DEF PatchFails, FileTyped, ReadOK, PatchOK
<1> QED BY <1>1, <1>2

\* What a patch is at its steps on the server.
LEMMA PatchFields ==
  ASSUME HunksInv, patch # NoHunks
  PROVE  /\ patch = [at |-> patch.at, key |-> patch.key, hunk |-> patch.hunk, id |-> patch.id,
                     shown |-> patch.shown, current |-> patch.current, drift |-> patch.drift]
         /\ patch.at \in {"sent", "validating", "read", "queued", "applied", "answered"}
         /\ patch.key \in Nat /\ patch.drift \in BOOLEAN
         /\ patch.id = [at |-> "issued", gen |-> patch.id.gen, diff |-> patch.shown]
         /\ patch.at = "read" => patch.drift \/ patch.current = file.diff
         /\ patch.at = "queued" => patch.drift \/ patch.shown = file.diff
BY DEF HunksInv, PatchOK

\* The steps of a patch on the server: it goes to git only after its diff was compared.
LEMMA PatchStepsKeep ==
  ASSUME HunksInv, IdentityChecked \/ CurrentDiffRead \/ CurrentDiffChecked \/ PatchAnswered
  PROVE  HunksInv'
<1>0. patch # NoHunks
  BY DEF IdentityChecked, CurrentDiffRead, CurrentDiffChecked, PatchAnswered, NoHunks
<1>1. CASE PatchFails
  BY <1>1, PatchFailsKeeps DEF IdentityChecked, CurrentDiffRead, CurrentDiffChecked, PatchAnswered
<1>2. CASE ~PatchFails
  <2>1. PatchOK(patch, file)'
    <3>1. CASE IdentityChecked
      BY <1>0, <1>2, <3>1, PatchFields DEF IdentityChecked, PatchOK
    <3>2. CASE CurrentDiffRead
      BY <1>0, <1>2, <3>2, PatchFields DEF CurrentDiffRead, PatchOK
    <3>3. CASE CurrentDiffChecked
      <4>1. patch.id.diff = patch.shown
        BY <1>0, PatchFields
      <4> QED BY <1>0, <1>2, <3>3, <4>1, PatchFields DEF CurrentDiffChecked, PatchOK, Valid
    <3>4. CASE PatchAnswered
      BY <3>4 DEF PatchAnswered, PatchOK
    <3> QED BY <3>1, <3>2, <3>3, <3>4
  <2>2. UNCHANGED <<file, header, diffRead>>
    BY <1>2 DEF IdentityChecked, CurrentDiffRead, CurrentDiffChecked, PatchAnswered
  <2> QED BY <2>1, <2>2 DEF HunksInv, FileTyped, HeaderTyped, HeaderOK, ReadOK
<1> QED BY <1>1, <1>2

\* git changes the file before anybody has noticed it.
LEMMA PatchAppliedKeeps ==
  ASSUME HunksInv, PatchApplied
  PROVE  HunksInv'
<1>0. patch # NoHunks
  BY DEF PatchApplied, NoHunks
<1>1. CASE PatchFails /\ UNCHANGED file
  BY <1>1, PatchFailsKeeps DEF PatchApplied
<1>2. CASE ~(PatchFails /\ UNCHANGED file)
  <2>1. /\ file' = [file EXCEPT !.diff = RemoveFirst(@, patch.hunk), !.unnoticed = TRUE]
        /\ patch' = [patch EXCEPT !.at = "applied"] /\ UNCHANGED <<header, diffRead>>
    BY <1>2 DEF PatchApplied
  <2>2. FileTyped(file)' /\ file'.unnoticed = TRUE /\ file'.gen = file.gen
    BY <2>1 DEF HunksInv, FileTyped
  <2>3. PatchOK(patch, file)'
    BY <1>0, <2>1, PatchFields DEF PatchOK
  <2>4. HeaderTyped(header)' /\ HeaderOK(header, file)'
    BY <2>1, <2>2 DEF HunksInv, HeaderTyped, HeaderOK
  <2>5. ReadOK(diffRead, file)'
    BY <2>1, <2>2 DEF HunksInv, ReadOK
  <2> QED BY <2>2, <2>3, <2>4, <2>5 DEF HunksInv
<1> QED BY <1>1, <1>2

\* With the next generation all that was read is of an older one.
LEMMA GenerationAdvancesKeeps ==
  ASSUME HunksInv, GenerationAdvances
  PROVE  HunksInv'
<1>0. patch # NoHunks
  BY DEF GenerationAdvances, NoHunks
<1>1. FileTyped(file)' /\ file'.diff = file.diff /\ file'.gen = file.gen + 1 /\ file.gen \in Nat
  BY DEF HunksInv, GenerationAdvances, FileTyped
<1>2. HeaderTyped(header)' /\ HeaderOK(header, file)'
  BY <1>1 DEF HunksInv, GenerationAdvances, HeaderTyped, HeaderOK
<1>3. ReadOK(diffRead, file)'
  BY <1>1 DEF HunksInv, GenerationAdvances, ReadOK
<1>4. PatchOK(patch, file)'
  BY <1>0, PatchFields DEF GenerationAdvances, PatchOK
<1> QED BY <1>1, <1>2, <1>3, <1>4 DEF HunksInv

\* The invariant holds at first: nothing was read.
THEOREM HunksInits == HunksInit => HunksInv
<1> SUFFICES ASSUME HunksInit PROVE HunksInv
  OBVIOUS
<1>1. FileTyped(file) /\ file.gen = 1
  <2>1. file \in [diff : FileDiffs, gen : {1}, unnoticed : {FALSE}]
    BY DEF HunksInit
  <2>2. file.gen = 1 /\ file.unnoticed = FALSE
    BY <2>1
  <2>3. file \in [diff : FileDiffs, gen : {1}, unnoticed : BOOLEAN]
    BY <2>1
  <2> QED BY <2>2, <2>3 DEF FileTyped
<1>2. HeaderTyped(header) /\ HeaderOK(header, file)
  BY <1>1 DEF HunksInit, FreshHeader, HeaderTyped, HeaderOK
<1>3. ReadOK(diffRead, file) /\ PatchOK(patch, file)
  BY DEF HunksInit, ReadOK, PatchOK
<1> QED BY <1>1, <1>2, <1>3 DEF HunksInv

\* Every step of the hunks keeps the invariant.
THEOREM HunksSteps ==
  ASSUME HunksInv, [HunksNext]_hunkVars
  PROVE  HunksInv'
<1>1. CASE \E d \in FileDiffs : OthersEdit(d)
  BY <1>1, OthersEditKeeps
<1>2. CASE WatcherNotices
  BY <1>2, NoticedKeeps
<1>3. CASE ReviewRefreshes \/ ShowHunks
  BY <1>3, HeaderStepsKeep
<1>4. CASE DiffStarts \/ DiffReads
  BY <1>4, ServerReadsKeep
<1>5. CASE DiffAnswered
  BY <1>5, DiffAnsweredKeeps
<1>6. CASE \E i \in DOMAIN header.hunks : ChooseHunk(i)
  BY <1>6, ChooseHunkKeeps
<1>7. CASE IdentityChecked \/ CurrentDiffRead \/ CurrentDiffChecked \/ PatchAnswered
  BY <1>7, PatchStepsKeep
<1>8. CASE PatchApplied
  BY <1>8, PatchAppliedKeeps
<1>9. CASE GenerationAdvances
  BY <1>9, GenerationAdvancesKeeps
<1>10. CASE AnswerIsLost
  BY <1>10, PatchFailsKeeps, DiffFailsKeeps DEF AnswerIsLost
<1>11. CASE UNCHANGED hunkVars
  BY <1>11 DEF hunkVars, HunksInv, FileTyped, HeaderTyped, HeaderOK, ReadOK, PatchOK
<1> QED BY <1>1, <1>2, <1>3, <1>4, <1>5, <1>6, <1>7, <1>8, <1>9, <1>10, <1>11 DEF HunksNext

\* What is offered is the file's when nothing has moved.
THEOREM HunksImply == HunksInv => OfferedHunksAreValid
BY DEF HunksInv, OfferedHunksAreValid, HeaderOK, FileTyped, HeaderTyped

\* A patch that git takes is of the diff that was shown.
THEOREM HunksStepAsShown ==
  ASSUME HunksInv, [HunksNext]_hunkVars
  PROVE  AppliedAsShown
<1> SUFFICES ASSUME patch.at = "queued", patch'.at = "applied"
             PROVE  file.diff = patch.shown \/ patch.drift
  BY DEF AppliedAsShown
<1> QED BY PatchFields DEF NoHunks

(***************************************************************************)
(* The theorems                                                            *)
(***************************************************************************)

\* The parts as specifications of their own.
LauncherSpec == LauncherInit /\ [][LauncherNext]_launcherVars
MarkdownSpec == MarkdownInit /\ [][MarkdownNext]_markdownVars
SearchSpec == SearchInit /\ [][SearchNext]_searchVars
PaletteSpec == PaletteInit /\ [][PaletteNext]_paletteVars
PreviewSpec == PreviewInit /\ [][PreviewNext]_previewVars

\* The panel lists what its query found, whole or cut at the limit, all of one generation of
\* the folder, for any matches and any frames (FindInFilesPanel.tsx, contentSearchStream.ts).
THEOREM SearchIsOfQuery == SearchSpec => []FilesAreOfQuery
<1>1. SearchInit => SearchInv
  BY SearchInits, SearchAssumption
<1>2. SearchInv /\ [SearchNext]_searchVars => SearchInv'
  BY SearchSteps, SearchAssumption
<1>3. SearchInv => FilesAreOfQuery
  BY SearchImplies, SearchAssumption
<1> QED BY <1>1, <1>2, <1>3, PTL DEF SearchSpec

\* The rows of the palette are those of what is typed and the selected row is one of them,
\* for any queries, hits and commits (GitnaCommandPalette.tsx).
THEOREM PaletteShowsRows == PaletteSpec => []PaletteIsTruthful
<1>1. PaletteInit => PaletteInv
  BY PaletteInits, PaletteAssumption
<1>2. PaletteInv /\ [PaletteNext]_paletteVars => PaletteInv'
  BY PaletteSteps, PaletteAssumption
<1>3. PaletteInv => PaletteIsTruthful
  BY PaletteImplies, PaletteAssumption
<1> QED BY <1>1, <1>2, <1>3, PTL DEF PaletteSpec

\* A preview on screen is granted as long as its view believes so, and nothing stays granted
\* that nobody shows, for any views, lease and order of messages (PDFPreview.tsx,
\* pdf_previews.go).
THEOREM PreviewServed == PreviewSpec => []PreviewsAreGranted
<1>1. PreviewInit => PreviewInv
  BY PreviewInits, PreviewAssumption
<1>2. PreviewInv /\ [PreviewNext]_previewVars => PreviewInv'
  BY PreviewSteps, PreviewStutters, PreviewAssumption
<1>3. PreviewInv => PreviewsAreGranted
  BY PreviewImplies, PreviewAssumption
<1> QED BY <1>1, <1>2, <1>3, PTL DEF PreviewSpec

\* Nothing running means nothing waiting, so what is shown is of the debounced text, and that
\* is the document's once the pause is over (MarkdownWorkbench.tsx, markdownWorkerClient.ts).
THEOREM PreviewCorrect == MarkdownSpec => []PreviewIsOfText
<1>1. MarkdownInit => MInv
  BY InitMInv, MarkdownAssumption
<1>2. MInv /\ [MarkdownNext]_markdownVars => MInv'
  BY NextMInv, MarkdownAssumption
<1>3. MInv => PreviewIsOfText
  BY MarkdownImplies
<1> QED BY <1>1, <1>2, <1>3, PTL DEF MarkdownSpec

\* For any number of launchers and of starts, each launcher that runs has started the
\* release, and the notices are beside the executable unless they are being replaced
\* or a launcher was killed while it replaced them.
THEOREM ReleaseStarted == LauncherSpec => []StartsTheRelease
<1> QED
  BY LauncherImplies, InitLInv, NextLInv, PTL DEF LauncherSpec

\* More parts as specifications of their own.
ControlSpec == ControlInit /\ [][ControlNext]_controlVars
HunksSpec == HunksInit /\ [][HunksNext]_hunkVars

\* After an operation every list shows the repository, or its read is under way, failed or
\* is another program's to announce, and an operation whose fate is unknown is said to be
\* so until it is acknowledged, for any files, operations and changes by other programs
\* (SourceControlWorkflow.tsx, repository.tsx).
THEOREM ListsShowRepository == ControlSpec => []ListsFollowGit
<1>1. ControlInit => ControlInv
  BY ControlInits
<1>2. ControlInv /\ [ControlNext]_controlVars => ControlInv'
  BY ControlSteps
<1> QED BY <1>1, <1>2, ControlImplies, PTL DEF ControlSpec

\* A step takes away only what the user chose or was asked about: the stash of the row that was
\* chosen though rows move, the untracked files of an answered question, an unmerged branch; and
\* the message goes only into a commit (SourceControlWorkflow.tsx).
THEOREM LossesAreAsked == ControlSpec => [][LostOnlyAsAsked]_controlVars
<1>1. ControlInit => ControlInv
  BY ControlInits
<1>2. ControlInv /\ [ControlNext]_controlVars => ControlInv' /\ LostOnlyAsAsked
  BY ControlSteps
<1> QED BY <1>1, <1>2, PTL DEF ControlSpec

\* When nothing is under way and the review is of the current generation, the hunks offered
\* for a file are its own and their identity will be accepted (DiffsHubViewer.tsx), for any
\* diffs, choices, lost answers and changes by other programs.
THEOREM HunksAreValid == HunksSpec => []OfferedHunksAreValid
<1>1. HunksInit => HunksInv
  BY HunksInits
<1>2. HunksInv /\ [HunksNext]_hunkVars => HunksInv'
  BY HunksSteps
<1> QED BY <1>1, <1>2, HunksImply, PTL DEF HunksSpec

\* A hunk is applied to the diff that the menu showed, for any diffs, unless another program
\* changed the file after the server compared the two (patch_identity.go).
THEOREM HunksApplyAsShown == HunksSpec => [][AppliedAsShown]_hunkVars
<1>1. HunksInit => HunksInv
  BY HunksInits
<1>2. HunksInv /\ [HunksNext]_hunkVars => HunksInv'
  BY HunksSteps
<1>3. HunksInv /\ [HunksNext]_hunkVars => AppliedAsShown
  BY HunksStepAsShown
<1> QED BY <1>1, <1>2, <1>3, PTL DEF HunksSpec

=============================================================================
