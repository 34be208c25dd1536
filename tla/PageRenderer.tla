---------------------------- MODULE PageRenderer ----------------------------
(***************************************************************************)
(* RenderLayout (graph/renderer.go): the view of an object, block after    *)
(* block of a layout.  A block shows the object itself, or what a query    *)
(* finds (GraphQuery), or what a REST query creates.  The first error ends *)
(* it, and what was created until then stays.                              *)
(*                                                                         *)
(* A layout is the sequence of its blocks in the order of rendering:       *)
(* header and tab bar, which belong to no page, and of each page info,     *)
(* insight and blocks.  A block is [page, kind, query], without a query if *)
(* it is not a connection; a query is [type, target, hops], with hops if   *)
(* its type is "graphql".  RenderPageBlock is given a single block.        *)
(***************************************************************************)
EXTENDS GraphQuery

CONSTANTS
  NoLayout, \* a layout that cannot be loaded
  NoPage,   \* the page of header and tab bar
  AllPages, \* no page is asked for
  LayoutBlocks, \* the blocks that layouts are made of
  Views,    \* what RenderLayout is asked for: [src, layout, page, kinds]
  Blocks,   \* what RenderPageBlock is asked for: [src, block]
  Queries   \* what ExecQuery and ExecRawQuery are asked for

BlockQueries ==
  [type : {"graphql"}, target : Kind, hops : Hops] \cup [type : {"rest"}, target : Kind]

ASSUME PageAssumption ==
  /\ \A b \in LayoutBlocks : b.kind = "Connection" => b.query \in BlockQueries
  /\ \A r \in Views : r.src \in OID /\ (r.layout = NoLayout \/ r.layout \in Seq(LayoutBlocks))
  /\ \A r \in Blocks : r.src \in OID /\ r.block \in LayoutBlocks
  /\ \A r \in Queries : IsQuery(r)

VARIABLES
  view,   \* the request
  vpc,    \* "idle", "source", "load", "render" or "done"
  left,   \* the blocks that are still to be rendered
  shown,  \* the blocks rendered: [block, result]
  result  \* "none", "ok" or "failed"

viewVars == <<view, vpc, left, shown, result>>
pageVars == <<queryVars, viewVars>>

PageInit ==
  /\ QueryInit
  /\ view = <<>> /\ vpc = "idle" /\ left = <<>> /\ shown = <<>> /\ result = "none"

NoQuery == UNCHANGED answerVars /\ UNCHANGED historyVars

-----------------------------------------------------------------------------
OkToRender(block, kinds) == kinds = {} \/ block.kind \in kinds

\* The blocks of the page asked for, and those of no page.
IsChosen(b, r) == OkToRender(b, r.kinds) /\ (b.page = NoPage \/ r.page \in {AllPages, b.page})

Chosen(r) ==
  LET f[i \in 0..Len(r.layout)] ==
        IF i = 0 THEN <<>>
        ELSE IF IsChosen(r.layout[i], r) THEN Append(f[i - 1], r.layout[i]) ELSE f[i - 1]
  IN  f[Len(r.layout)]

End(outcome) ==
  /\ vpc' = "done" /\ result' = outcome
  /\ UNCHANGED <<view, left, shown>>

\* The source's kind is looked up.
Begin(r) ==
  /\ vpc = "idle" /\ qpc = "idle"
  /\ view' = r
  /\ \/ Maps(KindOf[r.src]) /\ vpc' = "source" /\ UNCHANGED result
     \/ Lacks(KindOf[r.src]) /\ vpc' = "done" /\ result' = "failed"
  /\ UNCHANGED <<worldVars, created, changes, answerVars, historyVars, left, shown>>

RenderLayout(r) == Begin(r)

\* A block as a layout of its own.
RenderPageBlock(r) ==
  Begin([src |-> r.src, layout |-> <<r.block>>, page |-> AllPages, kinds |-> {}])

\* The source is read, once, as soon as its kind's informer has listed it.
FindSource ==
  /\ vpc = "source"
  /\ Ready(KindOf[view.src], "object")
  /\ IF view.src \in InSight THEN vpc' = "load" /\ UNCHANGED <<view, left, shown, result>>
                             ELSE End("failed")
  /\ UNCHANGED queryVars

\* That fails; a read of a kind that is not served, or not known to the mapper
\* any more, may at any time.
FailToFind ==
  /\ vpc = "source"
  /\ \/ changes < MaxChanges /\ changes' = changes + 1
     \/ KindOf[view.src] \notin served \cap mapped /\ UNCHANGED changes
  /\ End("failed")
  /\ UNCHANGED <<worldVars, mapperVars, created>> /\ NoQuery

\* Faulty: it waits for a layout that is not there.
LoadLayoutRetry ==
  /\ vpc = "load"
  /\ view.layout # NoLayout
  /\ vpc' = "render" /\ left' = Chosen(view)
  /\ UNCHANGED <<queryVars, view, shown, result>>

LoadLayout ==
  /\ vpc = "load"
  /\ \/ /\ view.layout = NoLayout
        /\ End("failed")
     \/ /\ view.layout # NoLayout
        /\ vpc' = "render" /\ left' = Chosen(view)
        /\ UNCHANGED <<view, shown, result>>
  /\ UNCHANGED queryVars

Rendering == vpc = "render" /\ left # <<>>

Show(how) ==
  /\ shown' = Append(shown, [block |-> Head(left), result |-> how])
  /\ left'  = Tail(left)
  /\ UNCHANGED <<view, vpc, result>>

\* The object itself, or an error because the kind of the block is unknown.
RenderSelf ==
  /\ Rendering /\ Head(left).kind # "Connection"
  /\ IF Head(left).kind \in {"Self", "SubTable"} THEN Show("ok") ELSE End("failed")
  /\ UNCHANGED queryVars

\* Faulty: whatever is wrong with a kind, it counts as missing.
MappingFailsMissing == Show("missing")

MappingFails == End("failed")

\* The kind of a connection cannot be looked up, for another reason than that
\* there is no match, or its query cannot be made.
FailToMap ==
  /\ Rendering /\ qpc = "idle" /\ Head(left).kind = "Connection"
  /\ changes < MaxChanges
  /\ changes' = changes + 1
  /\ MappingFails
  /\ UNCHANGED <<worldVars, mapperVars, created>> /\ NoQuery

\* GraphQuery of a block.  Its objects are wanted, and the source, which has
\* been read, is not read again for a template, as it is by ExecQuery.
BlockQuery(block) ==
  [f \in {"src", "expand", "templated"} \cup DOMAIN block.query |->
     CASE f = "src"       -> view.src
       [] f = "expand"    -> TRUE
       [] f = "templated" -> FALSE
       [] OTHER           -> block.query[f]]

\* A connection to a kind without a match is shown as missing.  Otherwise its
\* query is executed; ExecGraphQLQuery will look the kind up again.
RenderConnection ==
  /\ Rendering /\ qpc = "idle" /\ Head(left).kind = "Connection"
  /\ LET q == BlockQuery(Head(left))
     IN  \/ /\ Lacks(q.target)
            /\ Show("missing")
            /\ NoQuery
         \/ /\ Maps(q.target)
            /\ Starts(q, IF q.type = "graphql" THEN "resolve" ELSE "create")
            /\ StartHistory
            /\ UNCHANGED viewVars
  /\ UNCHANGED <<worldVars, created, changes>>

ShowAnswer ==
  /\ Rendering /\ qpc = "done"
  /\ IF reply = "ok" THEN Show("ok") ELSE End("failed")
  /\ Forget
  /\ UNCHANGED <<worldVars, mapperVars, created, changes>>

\* Faulty: the block is left out.
ConversionSkips == left' = Tail(left) /\ UNCHANGED <<view, vpc, shown, result>>

\* Faulty: the block is rendered once more.
ConversionRetries == UNCHANGED viewVars

ConversionEnds == End("failed")

\* What is to be shown cannot be made a table.
FailToConvert ==
  /\ Rendering
  /\ \/ qpc = "idle" /\ Head(left).kind \in {"Self", "SubTable"}
     \/ qpc = "done" /\ reply = "ok"
  /\ changes < MaxChanges
  /\ changes' = changes + 1
  /\ ConversionEnds
  /\ Forget
  /\ UNCHANGED <<worldVars, mapperVars, created>>

Rendered ==
  /\ vpc = "render" /\ left = <<>>
  /\ End("ok")
  /\ UNCHANGED queryVars

\* The view or the answer is returned.
Return ==
  /\ \/ vpc = "done"
     \/ vpc = "idle" /\ qpc = "done"
  /\ view' = <<>> /\ vpc' = "idle" /\ left' = <<>> /\ shown' = <<>> /\ result' = "none"
  /\ lacked' = Kind \ mapped /\ created' = 0
  /\ Forget
  /\ UNCHANGED <<worldVars, mapped, changes>>

-----------------------------------------------------------------------------
Query(r) == vpc = "idle" /\ ExecQuery(r) /\ UNCHANGED viewVars

Render ==
  \/ FindSource
  \/ LoadLayout
  \/ RenderSelf
  \/ RenderConnection
  \/ ShowAnswer
  \/ Rendered
  \/ Return
  \/ Execute /\ UNCHANGED viewVars

Busy == vpc \in {"source", "load", "render"} \/ Running

Meanwhile == Busy /\ World /\ UNCHANGED viewVars

\* The request waits for an informer, if that is not synced.
Awaits(k, form) ==
  \/ vpc = "source" /\ k = KindOf[view.src] /\ form = "object"
  \/ AnswerAwaits(k, form)

\* An informer of objects may be a controller's, one of metadata is opened by
\* the read that waits for it.
SyncMeanwhile ==
  /\ Busy
  /\ \E k \in Kind, form \in Form :
       (form = "object" \/ Awaits(k, form)) /\ Sync(k, form)
  /\ UNCHANGED viewVars

SyncAwaited ==
  /\ \E k \in Kind, form \in Form : Awaits(k, form) /\ Sync(k, form)
  /\ UNCHANGED viewVars

PageNext ==
  \/ \E r \in Views : RenderLayout(r)
  \/ \E r \in Blocks : RenderPageBlock(r)
  \/ \E r \in Queries : Query(r)
  \/ Render
  \/ FailToFind
  \/ FailToMap
  \/ FailToConvert
  \/ RequestFails /\ UNCHANGED viewVars
  \/ Meanwhile
  \/ SyncMeanwhile

\* A request is served: its steps only wait for an informer, and that lists its
\* kind if the kind is served.
PageSpec ==
  /\ PageInit /\ [][PageNext]_pageVars
  /\ WF_pageVars(Render) /\ WF_pageVars(SyncAwaited)

-----------------------------------------------------------------------------
(* Properties *)

PageTypeOK ==
  /\ QueryTypeOK
  /\ vpc \in {"idle", "source", "load", "render", "done"}
  /\ result \in {"none", "ok", "failed"}
  /\ vpc \in {"source", "load", "done"} => qpc = "idle"
  /\ Running /\ vpc = "render" => Head(left).query.target = query.target
  /\ vpc = "idle" /\ qpc = "idle" => created = 0

\* A view that is returned has every block that was asked for, in the order of
\* the layout: no error gets lost.
ViewComplete ==
  result = "ok" => [i \in DOMAIN shown |-> shown[i].block] = Chosen(view)

IsRest(block) == block.kind = "Connection" /\ block.query.type = "rest"

RestShown == {i \in DOMAIN shown : shown[i].result = "ok" /\ IsRest(shown[i].block)}

\* Each REST block that is shown has created one object, and the block that the
\* rendering has come to, or has failed at, at most one: creations are neither
\* repeated nor made for blocks that are not to be seen, and what a failed
\* rendering leaves behind are the objects of the blocks before the error.
CreationsAccounted ==
  vpc # "idle" =>
    LET extra == created - Cardinality(RestShown)
    IN  /\ extra \in {0, 1}
        /\ extra = 1 => left # <<>> /\ IsRest(Head(left)) /\ result # "ok"

\* A connection is shown as missing only if the mapper did in fact not know its
\* kind at some time during the rendering; any other trouble is an error, and a
\* kind that was known all the time is not missing, whatever becomes of it.
MissingWasMissing ==
  \A i \in DOMAIN shown :
    shown[i].result = "missing" => shown[i].block.query.target \in lacked

\* The request waits for an informer that cannot list its kind.
Stranded == \E k \in Kind \ served, form \in Form : Awaits(k, form) /\ ~Ready(k, form)

\* Whatever goes wrong, and whatever changes, a view or an answer is returned,
\* unless the request comes to wait for a kind that is not served: a wait that
\* the code gives no deadline.
PageReturns == vpc # "idle" \/ qpc # "idle" ~> (vpc = "idle" /\ qpc = "idle") \/ Stranded
=============================================================================
