-------------------------- MODULE MCVulkanBarriers --------------------------
(* An instance of VulkanBarriers: two buffers, an ordinary image of two mip   *)
(* levels, a transient attachment, which is no copy source, and a depth image.*)
EXTENDS VulkanBarriers

CONSTANTS buf1, buf2, mip1, mip2, tile, zbuf, scratch

MCImageOf == [u \in {mip1, mip2, tile, zbuf} |->
                IF u \in {mip1, mip2} THEN "mips" ELSE u]

K1 == <<0, 1>>
K2 == <<1, 1>>
Bind(key, on, as) == [key |-> key, on |-> on, as |-> as]
Pipe(declared, buffers, writable) ==
  [declared |-> declared, buffers |-> buffers, writable |-> writable]

Copies == {
  [kind |-> "buffer_copy", from |-> buf1, to |-> buf2],
  [kind |-> "buffer_clear", to |-> buf1],
  [kind |-> "resolve", to |-> buf1],
  [kind |-> "clear_texture", units |-> {mip1}, compressed |-> FALSE],
  [kind |-> "clear_texture", units |-> {mip1, mip2}, compressed |-> TRUE],
  [kind |-> "buffer_to_texture", from |-> buf1, units |-> {mip2}],
  [kind |-> "texture_to_buffer", units |-> {mip1}, to |-> buf1],
  [kind |-> "texture_to_texture", from |-> {mip1}, to |-> {mip2}, compressed |-> FALSE],
  [kind |-> "texture_to_texture", from |-> {mip1}, to |-> {mip1}, compressed |-> FALSE],
  [kind |-> "texture_to_texture", from |-> {mip1}, to |-> {mip1}, compressed |-> TRUE]}

Dispatch(pipeline, binds, indirect) ==
  [kind |-> "compute", pipeline |-> pipeline, binds |-> binds, indirect |-> indirect]

Computes == {
  Dispatch(Pipe({K1}, {K1}, {K1}), <<Bind(K1, buf1, "storage")>>, {}),
  Dispatch(Pipe({K1}, {}, {}), <<Bind(K1, buf1, "uniform")>>, {buf2}),
  Dispatch(Pipe({K1, K2}, {}, {}), <<Bind(K1, mip1, "sampled"), Bind(K2, mip1, "storage_texture")>>, {}),
  Dispatch(Pipe({K1, K2}, {}, {K2}), <<Bind(K1, mip1, "sampled"), Bind(K2, mip2, "storage_texture")>>, {})}

Color(on, resolve) == [on |-> on, fetch |-> FALSE, resolve |-> resolve]
Fetched(on) == [on |-> on, fetch |-> TRUE, resolve |-> <<>>]
Set(pipeline) == [op |-> "pipeline", pipeline |-> pipeline]
Group(index, binds) == [op |-> "group", index |-> index, binds |-> binds]
Drawn(fetches) == [op |-> "draw", fetches |-> fetches]
Bundle(commands) == [op |-> "bundle", commands |-> commands]
Render(colors, depth, stream) ==
  [kind |-> "render", colors |-> colors, depth |-> depth, stream |-> stream]

Writer == Pipe({K1}, {K1}, {K1})
Writing == <<Group(0, <<Bind(K1, buf1, "storage")>>), Set(Writer), Drawn({})>>
DrawFetches == {Buffer(buf1, "vertex_input", "vertex_read"), Buffer(buf1, "vertex_input", "index_read"),
            Buffer(buf1, "indirect", "indirect_read")}

Renders == {
  Render(<<Color(mip1, <<>>)>>, <<zbuf>>, <<Set(Pipe({}, {}, {})), Drawn(DrawFetches)>>),
  Render(<<Color(tile, <<>>)>>, <<zbuf>>, Writing),
  Render(<<Color(tile, <<mip1>>)>>, <<>>, <<Bundle(Writing)>>),
  Render(<<Color(mip1, <<>>)>>, <<>>,
         <<Set(Pipe({K1, K2}, {}, {})), Group(0, <<Bind(K1, mip2, "sampled")>>),
           Group(1, <<Bind(K2, buf1, "uniform")>>), Drawn({})>>),
  Render(<<Fetched(mip1)>>, <<>>,
         <<Set(Pipe({K1}, {}, {K1})), Group(0, <<Bind(K1, mip2, "storage_texture")>>), Drawn({})>>)}

SubpassDraw(k, pipeline, binds) ==
  [subpass |-> k, pipeline |-> pipeline, binds |-> binds, fetches |-> {}]
Slot(on, resolve) == [on |-> on, resolve |-> resolve]
Stage(writes, inputs, depth) == [writes |-> writes, inputs |-> inputs, depth |-> depth]
Chained == {[from |-> 0, to |-> 1, type |-> "color"]}
Subpasses(colors, depth, subpasses, dependencies, draws) ==
  [kind |-> "subpass", colors |-> colors, depth |-> depth, subpasses |-> subpasses,
   dependencies |-> dependencies, draws |-> draws]

\* A deferred pass: a mip level and depth, then the transient attachment from it.
Deferred == Subpasses(<<Slot(mip1, <<>>), Slot(tile, <<>>)>>, <<zbuf>>,
                      <<Stage({1}, {}, TRUE), Stage({2}, {1}, FALSE)>>, Chained,
                      <<SubpassDraw(1, Writer, <<Bind(K1, buf1, "storage")>>)>>)

\* Two subpasses with nothing between them.
Independent == Subpasses(<<Slot(mip1, <<>>)>>, <<zbuf>>,
                         <<Stage({1}, {}, FALSE), Stage({}, {}, TRUE)>>, {},
                         <<SubpassDraw(0, Pipe({K1}, {}, {}), <<Bind(K1, mip2, "sampled")>>)>>)

MCCommands == Copies \cup Computes \cup Renders \cup {Deferred}
MCCommandsIndependent == MCCommands \cup {Independent}
=============================================================================
