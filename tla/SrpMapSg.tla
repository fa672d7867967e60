------------------------------ MODULE SrpMapSg ------------------------------
(***************************************************************************)
(* How the data buffer of a SCSI command is described to the target, from  *)
(* src/drivers/infiniband/ulp/srp/ib_srp.c: srp_map_data() turns the       *)
(* scatter/gather list of a command into memory descriptors.  Pages are    *)
(* collected and registered together in a memory region that comes from    *)
(* the pool of the channel; when no region is left, the mapping goes back  *)
(* to the first byte that is not yet described and describes the rest with *)
(* the global key.  srp_unmap_data() returns the regions.  Requests are    *)
(* mapped concurrently and share the pool.                                 *)
(*                                                                         *)
(* With fast registration a region belongs to one request.  The pool of    *)
(* FMRs (src/drivers/infiniband/core/fmr_pool.c) is a cache: an FMR keeps  *)
(* its mapping when it is no longer used, is found again by its page list, *)
(* and is then shared by all requests that have these pages.  An FMR that  *)
(* was mapped max_remaps times waits on the dirty_list for the cleanup     *)
(* thread to unmap it.                                                     *)
(*                                                                         *)
(* Memory is a line of bytes.  A scatter/gather entry and a descriptor are *)
(* a start address and a length; the key of a descriptor is a region or    *)
(* Global.  Immediate data and single-entry lists need no region.          *)
(***************************************************************************)
EXTENDS Integers, Sequences, FiniteSets, SequencesExt

CONSTANTS
  Requests,          \* the requests of a channel
  SgLists,           \* by use_fast_reg and request, the lists it may get
  Regions,           \* the memory regions of the pool
  Global,            \* target->rkey
  mr_page_size, max_pages_per_mr,
  cmd_sg_cnt,        \* descriptors that fit into SRP_CMD; entries of fr_list
  sg_tablesize,      \* entries of a scatter/gather list and of indirect_desc
  allow_ext_sg,      \* the target reads the rest of the table with RDMA
  max_imm_sge, max_imm_len,  \* limits of immediate data
  max_remaps,        \* how often an FMR is mapped before it is unmapped
  PostMayFail,       \* ib_post_send() may refuse a registration request
  MaxRefused         \* bounds the commands refused after they were mapped

mr_max_size == mr_page_size * max_pages_per_mr

Offset(addr) == addr % mr_page_size

\* A list has at most sg_tablesize entries, and an entry that is not longer
\* than a region does not touch more pages than a region has: the block layer
\* makes segments of at most 64 KiB, far less than a region holds.
ASSUME MapConstants ==
  /\ Global \notin Regions
  /\ mr_page_size \in Nat \ {0} /\ max_pages_per_mr \in Nat \ {0}
  /\ cmd_sg_cnt \in Nat /\ sg_tablesize \in Nat /\ cmd_sg_cnt <= sg_tablesize
  /\ allow_ext_sg \in BOOLEAN /\ PostMayFail \in BOOLEAN
  /\ max_remaps \in Nat \ {0} /\ MaxRefused \in Nat
  /\ \A fr \in BOOLEAN, r \in Requests : \A sg \in SgLists[fr][r] :
       /\ Len(sg) \in 1..sg_tablesize
       /\ \A i \in 1..Len(sg) :
            sg[i].len <= mr_max_size => Offset(sg[i].addr) + sg[i].len <= mr_max_size

VARIABLES
  use_fast_reg,     \* dev->use_fast_reg: fast registration, otherwise FMR
  register_always,  \* the module parameter
  has_pool,         \* ch->fr_pool or ch->fmr_pool exists
  pool,             \* the pool of regions, see NewPool
  refused,          \* the regions of commands that were refused
  req               \* per request, struct srp_request and srp_map_state

settings == <<use_fast_reg, register_always, has_pool>>
vars == <<settings, pool, refused, req>>

\* mr is what the HCA translates with.  The rest is the pool of FMRs: cached
\* are those in the hash table, unmap_list those the cleanup thread works on.
NewPool(list) ==
  [free_list |-> list, dirty_list |-> <<>>, unmap_list |-> <<>>,
   mr |-> [d \in Regions |-> <<>>], cached |-> {},
   ref_count |-> [d \in Regions |-> 0], remap_count |-> [d \in Regions |-> 0]]

\* No unmapped entry: state->unmapped_sg is NULL.
NoEntry == [index |-> 0, addr |-> 0]

Idle == [pc |-> "idle", sg |-> <<>>, i |-> 1, addr |-> 0, left |-> 0, use_mr |-> FALSE,
         pages |-> <<>>, base |-> 0, dma_len |-> 0, unmapped |-> NoEntry,
         desc |-> <<>>, list |-> <<>>, total_len |-> 0]

Init ==
  /\ use_fast_reg \in BOOLEAN /\ register_always \in BOOLEAN /\ has_pool \in BOOLEAN
  /\ (\E list \in SetToSeqs(Regions) : pool = NewPool(list)) /\ refused = <<>>
  /\ req = [r \in Requests |-> Idle]
-----------------------------------------------------------------------------
(* Descriptors and regions.                                                *)

srp_map_desc(s, addr, len, key) ==
  [s EXCEPT !.desc = Append(@, [addr |-> addr, len |-> len, key |-> key]),
            !.total_len = @ + len]

\* What a function that may use the pool returns, and the state it leaves.
Result(ok, s, p) == [ok |-> ok, s |-> s, pool |-> p]

\* A region is taken from the pool and registered.
srp_map_finish_fr(s) ==
  IF pool.free_list = <<>> THEN {Result(FALSE, s, pool)}
  ELSE LET d == Head(pool.free_list)
       IN {Result(ok, srp_map_desc([s EXCEPT !.list = Append(@, d)], s.base, s.dma_len, d),
                  [pool EXCEPT !.free_list = Tail(@), !.mr[d] = s.pages]) :
             ok \in {TRUE} \cup IF PostMayFail THEN {FALSE} ELSE {}}

\* The FMRs that are mapped to these pages; all have the address 0.
ib_fmr_cache_lookup(pages) == {d \in pool.cached : pool.mr[d] = pages}

\* Mutant: an FMR that is found stays on the list of those that are not used.
ib_fmr_found_no_del(d) == [pool EXCEPT !.ref_count[d] = @ + 1]

\* An FMR is found in the cache.  It may be on the free_list or dirty_list.
ib_fmr_found(d) ==
  [pool EXCEPT !.ref_count[d] = @ + 1,
               !.free_list = IF pool.ref_count[d] = 0 THEN Remove(@, d) ELSE @,
               !.dirty_list = IF pool.ref_count[d] = 0 THEN Remove(@, d) ELSE @]

\* An FMR is mapped.  ib_fmr_pool_map_phys() adds it to the cache later.
ib_fmr_mapped(d, pages) ==
  [pool EXCEPT !.free_list = Tail(@), !.cached = @ \ {d}, !.mr[d] = pages,
               !.remap_count[d] = @ + 1, !.ref_count[d] = 1]

\* ib_map_phys_fmr() fails: the FMR goes back to where it was.
ib_fmr_not_mapped(d) == [pool EXCEPT !.cached = @ \ {d}]

\* The results of ib_fmr_pool_map_phys().
srp_map_finish_fmr(s) ==
  LET Mapped(d, p) ==
        Result(TRUE, srp_map_desc([s EXCEPT !.list = Append(@, d)], 0, s.dma_len, d), p)
      found == ib_fmr_cache_lookup(s.pages)
      d == Head(pool.free_list)
  IN IF found # {} THEN {Mapped(f, ib_fmr_found(f)) : f \in found}
     ELSE IF pool.free_list = <<>> THEN {Result(FALSE, s, pool)}
     ELSE {Mapped(d, ib_fmr_mapped(d, s.pages)), Result(FALSE, s, ib_fmr_not_mapped(d))}

\* The collected pages become one descriptor.
srp_finish_mapping(s) ==
  IF s.pages = <<>> THEN {Result(TRUE, s, pool)}
  ELSE {IF x.ok THEN [x EXCEPT !.s.pages = <<>>, !.s.dma_len = 0] ELSE x :
          x \in IF Len(s.pages) = 1 /\ ~register_always
                THEN {Result(TRUE, srp_map_desc(s, s.base, s.dma_len, Global), pool)}
                ELSE IF use_fast_reg THEN srp_map_finish_fr(s) ELSE srp_map_finish_fmr(s)}

srp_map_update_start(s, index, addr) ==
  [s EXCEPT !.unmapped = [index |-> index, addr |-> addr]]

\* Mutant: the mapping goes back to the start of the unmapped entry.
backtrack_to_entry(s) ==
  LET e == s.sg[s.unmapped.index]
  IN [srp_map_desc(s, e.addr, e.len, Global)
        EXCEPT !.use_mr = FALSE, !.i = s.unmapped.index + 1, !.pc = "entry"]

\* Back to the first byte that no descriptor covers; from here on, entries
\* are described one by one.
backtrack(s) ==
  LET e == s.sg[s.unmapped.index]
  IN [srp_map_desc(s, s.unmapped.addr, e.len - (s.unmapped.addr - e.addr), Global)
        EXCEPT !.use_mr = FALSE, !.i = s.unmapped.index + 1, !.pc = "entry"]

\* Request r goes on after srp_finish_mapping() with result x, or backtracks.
Finish(r, x, next) ==
  /\ req' = [req EXCEPT ![r] = IF x.ok THEN next ELSE backtrack(x.s)]
  /\ pool' = x.pool
  /\ UNCHANGED <<settings, refused>>

\* Request r goes on without the pool.
Step(r, s) == req' = [req EXCEPT ![r] = s] /\ UNCHANGED <<settings, pool, refused>>
-----------------------------------------------------------------------------
(* srp_map_data().                                                         *)

\* srp_create_target() shortens the lists if there is neither a pool nor a
\* target that reads the table.
max_sg == IF ~has_pool /\ ~allow_ext_sg THEN cmd_sg_cnt ELSE sg_tablesize

\* After MaxRefused commands were refused, only lists come that surely fit.
Lists(r) ==
  {sg \in SgLists[use_fast_reg][r] :
     Len(sg) <= IF Len(refused) < MaxRefused THEN max_sg ELSE cmd_sg_cnt}

AddLen(n, e) == n + e.len
DataLen(sg) == FoldLeft(AddLen, 0, sg)

AsDesc(e) == [addr |-> e.addr, len |-> e.len, key |-> Global]

\* A command without a region: the descriptors are the entries of its list.
WithoutRegion(sg) ==
  [Idle EXCEPT !.pc = "sent", !.sg = sg, !.total_len = DataLen(sg),
               !.desc = [i \in 1..Len(sg) |-> AsDesc(sg[i])]]

\* The list cannot be mapped for DMA.
srp_map_data_failed(r) ==
  req[r].pc = "idle" /\ Step(r, [Idle EXCEPT !.pc = "failed"])

\* Immediate data, for a target that takes it and a command that writes.
srp_map_data_imm(r) ==
  /\ req[r].pc = "idle"
  /\ \E sg \in Lists(r) :
       /\ Len(sg) <= max_imm_sge /\ DataLen(sg) <= max_imm_len
       /\ Step(r, WithoutRegion(sg))

\* One entry, and the module parameter does not ask for a region.
srp_map_data_direct(r) ==
  /\ req[r].pc = "idle" /\ ~register_always
  /\ \E sg \in Lists(r) : Len(sg) = 1 /\ Step(r, WithoutRegion(sg))

\* Otherwise srp_map_sg() starts.
srp_map_data(r) ==
  /\ req[r].pc = "idle"
  /\ \E sg \in Lists(r) :
       /\ Len(sg) > 1 \/ register_always
       /\ Step(r, [Idle EXCEPT !.pc = "entry", !.sg = sg, !.use_mr = has_pool])

Next1(s) == [s EXCEPT !.i = @ + 1, !.pc = "entry"]

\* The current entry of the list, described with the global key.
Direct(s) == Next1(srp_map_desc(s, s.sg[s.i].addr, s.sg[s.i].len, Global))

\* FMR regions start at a page boundary; an entry may be too long for any.
NotForRegion(e) ==
  (~use_fast_reg /\ Offset(e.addr) # 0) \/ e.len > mr_max_size

\* The beginning of srp_map_sg_entry().
srp_map_sg_entry(r) ==
  LET s == req[r]
      e == s.sg[s.i]
      Alone(t) == srp_map_update_start(Direct(t), 0, 0)
      start == [s EXCEPT !.pc = "page", !.addr = e.addr, !.left = e.len]
  IN /\ s.pc = "entry" /\ s.i <= Len(s.sg)
     /\ \/ e.len = 0 /\ Step(r, Next1(s))
        \/ e.len > 0 /\ ~s.use_mr /\ Step(r, Direct(s))
        \/ /\ e.len > 0 /\ s.use_mr /\ NotForRegion(e)
           /\ \E x \in srp_finish_mapping(s) : Finish(r, x, Alone(x.s))
        \/ /\ e.len > 0 /\ s.use_mr /\ ~NotForRegion(e)
           /\ Step(r, IF s.unmapped = NoEntry
                      THEN srp_map_update_start(start, s.i, e.addr) ELSE start)

\* The bytes of the current entry that fall into the next page.
PageLen(s) ==
  IF s.left < mr_page_size - Offset(s.addr) THEN s.left ELSE mr_page_size - Offset(s.addr)

\* A page is collected; at the end of an entry that ends inside a page, the
\* pages are not merged with those of the next entry.
add_page(s) ==
  LET len == PageLen(s)
  IN [s EXCEPT !.base = IF s.pages = <<>> THEN s.addr ELSE @,
               !.pages = Append(@, s.addr - Offset(s.addr)),
               !.dma_len = @ + len, !.addr = @ + len, !.left = @ - len,
               !.pc = IF s.left > len THEN "page"
                      ELSE IF len # mr_page_size THEN "close" ELSE "entry",
               !.i = IF s.left = len /\ len = mr_page_size THEN @ + 1 ELSE @]


\* Mutant: a region gets one page too many.
srp_map_page_long(r) ==
  LET s == req[r]
      Restart(t) == add_page(srp_map_update_start(t, t.i, t.addr))
  IN /\ s.pc = "page"
     /\ IF Len(s.pages) > max_pages_per_mr \/ Offset(s.addr) # 0
        THEN \E x \in srp_finish_mapping(s) : Finish(r, x, Restart(x.s))
        ELSE Step(r, add_page(s))

\* One round of the loop of srp_map_sg_entry().
srp_map_page(r) ==
  LET s == req[r]
      Restart(t) == add_page(srp_map_update_start(t, t.i, t.addr))
  IN /\ s.pc = "page"
     /\ IF Len(s.pages) = max_pages_per_mr \/ Offset(s.addr) # 0
        THEN \E x \in srp_finish_mapping(s) : Finish(r, x, Restart(x.s))
        ELSE Step(r, add_page(s))

\* The end of srp_map_sg_entry() for an entry that ends inside a page.
srp_map_sg_entry_close(r) ==
  LET Closed(t) == srp_map_update_start(Next1(t), 0, 0)
  IN /\ req[r].pc = "close"
     /\ \E x \in srp_finish_mapping(req[r]) : Finish(r, x, Closed(x.s))

\* The rest of srp_map_data(), when the srp_map_state is gone: a table that
\* does not fit is refused, and nobody unmaps what was mapped.
Built(s) ==
  [Idle EXCEPT !.pc = IF Len(s.desc) > 1 /\ cmd_sg_cnt < Len(s.desc) /\ ~allow_ext_sg
                      THEN "too_long" ELSE "sent",
               !.sg = s.sg, !.desc = s.desc, !.list = s.list, !.total_len = s.total_len]

srp_map_sg_end(r) ==
  LET s == req[r]
  IN /\ s.pc = "entry" /\ s.i > Len(s.sg)
     /\ IF s.use_mr
        THEN \E x \in srp_finish_mapping(s) : Finish(r, x, Built(x.s))
        ELSE Step(r, Built(s))

\* srp_queuecommand() reports the failure, and the request is free again.
srp_queuecommand_failed(r) ==
  req[r].pc = "failed" /\ Step(r, Idle)

\* So it does here; the regions of the request are forgotten.
srp_queuecommand_refused(r) ==
  /\ req[r].pc = "too_long"
  /\ refused' = Append(refused, req[r].list)
  /\ req' = [req EXCEPT ![r] = Idle]
  /\ UNCHANGED <<settings, pool>>

\* The command has ended: with fast registration, the keys of its regions
\* become invalid and the regions go to the head of the free_list.
srp_unmap_data_fr(r) ==
  /\ req[r].pc = "sent" /\ use_fast_reg
  /\ pool' = [pool EXCEPT !.free_list = Reverse(req[r].list) \o @,
                          !.mr = [d \in Regions |-> IF d \in Range(req[r].list)
                                                    THEN <<>> ELSE @[d]]]
  /\ req' = [req EXCEPT ![r] = Idle]
  /\ UNCHANGED <<settings, refused>>

\* A request no longer uses an FMR, which keeps its mapping.
ib_fmr_pool_unmap(d) ==
  IF pool.ref_count[d] > 1 THEN [pool EXCEPT !.ref_count[d] = @ - 1]
  ELSE IF pool.remap_count[d] < max_remaps
  THEN [pool EXCEPT !.ref_count[d] = 0, !.free_list = Append(@, d)]
  ELSE [pool EXCEPT !.ref_count[d] = 0, !.dirty_list = Append(@, d)]

\* With FMR, one round of the loop of srp_unmap_data(), or its end.
srp_unmap_data_fmr(r) ==
  /\ req[r].pc \in {"sent", "unmap"} /\ ~use_fast_reg
  /\ IF req[r].list = <<>>
     THEN req' = [req EXCEPT ![r] = Idle] /\ UNCHANGED pool
     ELSE /\ pool' = ib_fmr_pool_unmap(Head(req[r].list))
          /\ req' = [req EXCEPT ![r] = [Idle EXCEPT !.pc = "unmap",
                                                   !.list = Tail(req[r].list)]]
  /\ UNCHANGED <<settings, refused>>

\* A request that has mapped an FMR and has not yet added it to the cache is
\* inside ib_fmr_pool_map_phys().
Adding(d) == ~use_fast_reg /\ pool.ref_count[d] > 0 /\ d \notin pool.cached

InMapPhys(r) == \E d \in Range(req[r].list) : Adding(d)

ib_fmr_cache_add(d) ==
  /\ Adding(d)
  /\ pool' = [pool EXCEPT !.cached = @ \cup {d}]
  /\ UNCHANGED <<settings, refused, req>>

\* ib_fmr_batch_release() takes the dirty FMRs, ...
ib_fmr_batch_release ==
  /\ pool.dirty_list # <<>> /\ pool.unmap_list = <<>>
  /\ LET dirty == Range(pool.dirty_list)
     IN pool' = [pool EXCEPT !.unmap_list = pool.dirty_list, !.dirty_list = <<>>,
                             !.cached = @ \ dirty,
                             !.remap_count = [d \in Regions |-> IF d \in dirty
                                                                THEN 0 ELSE @[d]]]
  /\ UNCHANGED <<settings, refused, req>>

\* ... unmaps them without the lock, which may fail, and frees them.
ib_unmap_fmr ==
  /\ pool.unmap_list # <<>>
  /\ \E ok \in BOOLEAN :
       pool' = [pool EXCEPT !.free_list = pool.unmap_list \o @, !.unmap_list = <<>>,
                            !.mr = [d \in Regions |-> IF ok /\ d \in Range(pool.unmap_list)
                                                      THEN <<>> ELSE @[d]]]
  /\ UNCHANGED <<settings, refused, req>>

Map(r) ==
  /\ ~InMapPhys(r)
  /\ \/ srp_map_data_failed(r) \/ srp_map_data_imm(r)
     \/ srp_map_data_direct(r) \/ srp_map_data(r)
     \/ srp_map_sg_entry(r) \/ srp_map_page(r) \/ srp_map_sg_entry_close(r)
     \/ srp_map_sg_end(r) \/ srp_queuecommand_failed(r) \/ srp_queuecommand_refused(r)
     \/ srp_unmap_data_fr(r) \/ srp_unmap_data_fmr(r)

\* The thread of the FMR pool works when it was asked to, at a time that the
\* dirty_watermark decides: here whenever there is something for it to do.
ib_fmr_cleanup_thread == ib_fmr_batch_release \/ ib_unmap_fmr

Next ==
  \/ \E r \in Requests : Map(r)
  \/ \E d \in Regions : ib_fmr_cache_add(d)
  \/ ib_fmr_cleanup_thread

Spec == Init /\ [][Next]_vars
-----------------------------------------------------------------------------
\* The addresses from a to a + n - 1, and those that a descriptor stands for:
\* a region translates them with its page list.
Bytes(a, n) == [k \in 1..n |-> a + k - 1]

Translated(pages, a, n) ==
  [k \in 1..n |-> pages[((Offset(a) + k - 1) \div mr_page_size) + 1]
                    + ((Offset(a) + k - 1) % mr_page_size)]

DescBytes(d) ==
  IF d.key = Global THEN Bytes(d.addr, d.len) ELSE Translated(pool.mr[d.key], d.addr, d.len)

SgBytes(sg) == FlattenSeq([i \in 1..Len(sg) |-> Bytes(sg[i].addr, sg[i].len)])

Described(s) == FlattenSeq([i \in 1..Len(s.desc) |-> DescBytes(s.desc[i])])

\* The values the variables may have; no FMR is mapped more often than allowed.
TypeOK ==
  /\ use_fast_reg \in BOOLEAN /\ register_always \in BOOLEAN /\ has_pool \in BOOLEAN
  /\ Range(pool.free_list) \cup Range(pool.dirty_list) \cup Range(pool.unmap_list)
       \cup pool.cached \subseteq Regions
  /\ \A d \in Regions : /\ Len(pool.mr[d]) <= max_pages_per_mr
                         /\ pool.ref_count[d] \in Nat
                         /\ pool.remap_count[d] \in 0..max_remaps
  /\ \A r \in Requests :
       /\ req[r].pc \in {"idle", "entry", "page", "close", "sent", "unmap", "failed",
                         "too_long"}
       /\ Len(req[r].pages) <= max_pages_per_mr
       /\ req[r].left >= 0

(***************************************************************************)
(* The descriptors of a command that is sent describe its scatter/gather   *)
(* list exactly: every byte, once, in order, whatever pages were merged,   *)
(* whenever the pool was empty and the mapping went back, and as long as   *)
(* the command is under way, while other requests use the pool.  The total *)
(* length in the command is the length of the list.                        *)
(***************************************************************************)
MapsExactly ==
  \A r \in Requests :
    req[r].pc = "sent" => /\ Described(req[r]) = SgBytes(req[r].sg)
                          /\ req[r].total_len = DataLen(req[r].sg)


\* How often region d is used: by requests, and by commands that were refused
\* after they had been mapped, for which nobody returns it.
Uses(d) ==
  LET Times(list) == Cardinality({i \in DOMAIN list : list[i] = d})
      Add(n, list) == n + Times(list)
  IN MapThenSumSet(LAMBDA r : Times(req[r].list), Requests) + FoldLeft(Add, 0, refused)

(***************************************************************************)
(* No region is lost, and none is handed out while it is in use.  A region *)
(* that nobody uses is in the pool, once: on the free_list, or with FMR on *)
(* the dirty_list or with the cleanup thread.  One that is used is not,    *)
(* and only an FMR has several users; its ref_count counts them.           *)
(***************************************************************************)
RegionsConserved ==
  \A d \in Regions :
    LET all == pool.free_list \o pool.dirty_list \o pool.unmap_list
        inPool == Cardinality({i \in DOMAIN all : all[i] = d})
    IN IF use_fast_reg THEN inPool + Uses(d) = 1
       ELSE /\ pool.ref_count[d] = Uses(d)
            /\ inPool = IF Uses(d) = 0 THEN 1 ELSE 0

(***************************************************************************)
(* What the comment in srp_map_data() says: "If this target is not using   *)
(* an external indirect table, we are guaranteed to fit into the command,  *)
(* as the SCSI layer won't give us more S/G entries than we allow."        *)
(***************************************************************************)
FitsCommand == \A r \in Requests : req[r].pc # "too_long"
=============================================================================
