----------------------------- MODULE IscsiExport -----------------------------
(***************************************************************************)
(* Exports of a library over iSCSI: the web server runs vtladm-iscsi,      *)
(* which gives targetcli two batches (backstores, then the target), and    *)
(* keeps a record of what is exported.  Next composes exports with         *)
(* everything in Libraries.                                                *)
(***************************************************************************)
EXTENDS Libraries

\* The host asked for, or else the one at the library's position; 0 when there
\* is none.
infer_prefer_scsi_host(l, prefer) ==
    IF prefer # 0 THEN prefer ELSE IF Served(l) THEN Index(l) ELSE 0

\* The host whose nodes a scan answers, which needs as many drives as the
\* library has rows.  Without a preference the only such host is taken,
\* whichever library it serves; of several none is.
pick_vtl_host_for_scan(l, prefer) ==
    LET hits == {h \in DOMAIN hosts : hosts[h].slots >= rows[l]} IN
    {h \in hits : prefer = h \/ (prefer = 0 /\ hits = {h})}

\* scan-sg, for an online library; nodes that are missing are scanned for.  An
\* export names its nodes itself, those of a scan or any others.
scan_vtl_library_blocking(l) ==
    IF ~Online(l) THEN {}
    ELSE UNION {pick_vtl_host_for_scan(l, infer_prefer_scsi_host(l, h)) : h \in 0 .. MaxHosts}

\* What targetcli answers to a batch: an exit code, and errors on stderr that
\* count as one.
run_targetcli_batch_captured == {"done", "failed"}

Export(p, l) ==
    /\ \E h \in scan_vtl_library_blocking(l) : Start(p, "phase1", l, h)
    /\ UNCHANGED <<db, hosts, lio, cache, conf>>

\* The nodes of host h are behind the backstores of some library.
Taken(h) == \E k \in Library : backs[k] = h

\* pscsi backstores.  One that exists under its name is no fatal error and
\* keeps its node; a node in use is one.  A batch may fail half way.
Phase1(p) ==
    LET l == arg[p].lib
        h == arg[p].n
        fits == backs[l] = 0 /\ ~Taken(h) /\ h <= Len(hosts)
    IN
    /\ pc[p] = "phase1"
    /\ \E answer \in run_targetcli_batch_captured :
          IF answer = "done"
          THEN /\ fits \/ backs[l] # 0
               /\ backs' = IF fits THEN [backs EXCEPT ![l] = h] ELSE backs
               /\ GoTo(p, "phase2") /\ UNCHANGED <<arg, want, todo>>
          ELSE /\ backs' \in {backs, IF fits THEN [backs EXCEPT ![l] = h] ELSE backs}
               /\ ReturnFrom(p)
    /\ UNCHANGED <<db, hosts, targets, record, halfway, cache, conf, history>>

\* The target, its LUNs and portals; without the backstores that fails.
Phase2(p) ==
    LET l == arg[p].lib IN
    /\ pc[p] = "phase2"
    /\ \E answer \in run_targetcli_batch_captured :
          IF answer = "done"
          THEN /\ backs[l] # 0 /\ targets' = targets \cup {l}
               /\ halfway' = halfway \ {l}
               /\ GoTo(p, "save") /\ UNCHANGED <<arg, want, todo>>
          ELSE /\ targets' \in {targets, targets \cup {l}}
               /\ ReturnFrom(p) /\ UNCHANGED halfway
    /\ UNCHANGED <<db, hosts, backs, record, cache, conf, history>>

\* Mutant: the record is written whatever targetcli said.
SaveAnyway(p) ==
    LET l == arg[p].lib IN
    /\ pc[p] \in {"phase2", "save"} /\ ReturnFrom(p)
    /\ record' = IF Online(l) THEN [record EXCEPT ![l] = arg[p].n] ELSE record
    /\ UNCHANGED <<db, hosts, backs, targets, halfway, cache, conf, history>>

\* A library deleted meanwhile has no row to refer to, and what targetcli has
\* written to stderr may keep the record from being saved.
save_iscsi_library_export(p) ==
    LET l == arg[p].lib IN
    /\ pc[p] = "save" /\ ReturnFrom(p)
    /\ record' \in {record, IF Online(l) THEN [record EXCEPT ![l] = arg[p].n] ELSE record}
    /\ UNCHANGED <<db, hosts, backs, targets, halfway, cache, conf, history>>

\* By the library's record, or by credentials typed in.
resolve_iscsi_unexport_params(l) == record[l] # 0 \/ backs[l] # 0

Unexport(p, l) ==
    /\ resolve_iscsi_unexport_params(l) /\ Start(p, "unexport", l, 0)
    /\ UNCHANGED <<db, hosts, lio, cache, conf>>

\* One batch removes LUNs, target and backstores.  Only its exit code is looked
\* at: it may leave something behind and succeed, or remove and fail.
UnexportRuns(p) ==
    LET l == arg[p].lib IN
    /\ pc[p] = "unexport"
    /\ targets' \in {targets, targets \ {l}}
    /\ backs' \in {backs, IF l \in targets' THEN backs ELSE [backs EXCEPT ![l] = 0]}
    /\ \/ GoTo(p, "forget") /\ UNCHANGED <<arg, want, todo, halfway>>
       \/ /\ ReturnFrom(p)
          /\ halfway' = IF targets' # targets THEN halfway \cup {l} ELSE halfway
    /\ UNCHANGED <<db, hosts, record, cache, conf, history>>

delete_iscsi_library_export(p) ==
    LET l == arg[p].lib IN
    /\ pc[p] = "forget" /\ ReturnFrom(p)
    /\ record' = [record EXCEPT ![l] = 0] /\ halfway' = halfway \ {l}
    /\ UNCHANGED <<db, hosts, backs, targets, cache, conf, history>>

Exports(p) ==
    \/ \E l \in Library : Export(p, l) \/ Unexport(p, l)
    \/ Phase1(p) \/ Phase2(p) \/ save_iscsi_library_export(p)
    \/ UnexportRuns(p) \/ delete_iscsi_library_export(p)

Next ==
    \/ \E p \in Proc : Administration(p) \/ Sync(p) \/ Exports(p)
    \/ Tapes \/ Environment

Spec == Init /\ [][Next]_vars
=============================================================================
