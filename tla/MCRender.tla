------------------------------- MODULE MCRender -------------------------------
(***************************************************************************)
(* A small cluster, and a digest of the shipped templates, to check Render *)
(* with.  Each call site is one the shipped templates make; the comments   *)
(* name the template it is taken from.                                     *)
(***************************************************************************)
EXTENDS Render

CallSite(form, name, bare, rel, gate) ==
    [form |-> form, name |-> name, bare |-> bare, rel |-> rel, gate |-> gate]

\* Calls that do not name a template carry DefaultResource as a filler.
RenderOf(rel, gate)  == CallSite("render", DefaultResource, TRUE, rel, gate)
SummaryOf(rel, gate) == CallSite("summary", DefaultResource, FALSE, rel, gate)
IncludeKind(kind, rel, gate) == CallSite("include", View(kind, ""), TRUE, rel, gate)
IncludeHelper(name)  == CallSite("include", View(name, ""), FALSE, "self", "always")
StaticHelper(name)   == CallSite("template", View(name, ""), TRUE, "self", "always")

-----------------------------------------------------------------------------
\* A Pod selected by a Service that a route leads to, a custom resource that
\* composes the Pod and the route and owns the Pod, and a VolumeSnapshot bound to its content.
MCObjects == {"pod", "svc", "route", "widget", "vs", "vsc"}

MCKindOf == [pod |-> "Pod", svc |-> "Service", route |-> "HTTPRoute", widget |-> "Widget",
             vs |-> "VolumeSnapshot", vsc |-> "VolumeSnapshotContent"]

MCGroupOf == [pod |-> "", svc |-> "", route |-> "gateway.networking.k8s.io",
              widget |-> "example.io",
              vs |-> "snapshot.storage.k8s.io", vsc |-> "snapshot.storage.k8s.io"]

Found(f) == [o \in MCObjects |-> IF o \in DOMAIN f THEN f[o] ELSE {}]

MCRel == [services |-> Found([pod |-> {"svc"}]),
          routes   |-> Found([svc |-> {"route"}]),
          backends |-> Found([route |-> {"svc"}]),
          owners   |-> Found([pod |-> {"widget"}]),
          composed |-> Found([widget |-> {"pod", "route"}]),
          snapshot |-> Found([vs |-> {"vsc"}, vsc |-> {"vs"}])]

\* Files of embedded templates; common.tmpl defines no template of that name.
MCFiles == {View(k, "") : k \in {"Pod", "Service", "HTTPRoute", "VolumeSnapshot",
                                 "VolumeSnapshotContent", "common"}}

MCEmbedded ==
    (MCFiles \ {View("common", "")})
      \cup {DefaultResource, GenericSummary}
      \cup {View(h, "") : h \in {"resource_ref", "application_details",
                                 "custom_application_details"}}
      \cup {Summary("Pod", ""), Summary("Service", "")}

CustomDetails == View("custom_application_details", "")

\* The user overrides a shipped Kind, a shared helper and the hook, and adds a
\* view and a summary for a Kind of their own.
MCOverlay == {View("Service", ""), View("resource_ref", ""), View("my_helper", ""),
              CustomDetails, View("Widget", "example.io"), Summary("Widget", "")}

Builtin ==
    [n \in MCEmbedded \cup MCOverlay |->
       CASE n = View("Pod", "") ->            \* matching_services, owners
              << StaticHelper("application_details"),
                 IncludeKind("Service", "services", "deep"),
                 SummaryOf("services", "not deep"),
                 RenderOf("owners", "owners") >>
         [] n = View("Service", "") ->        \* Service.tmpl:168
              << RenderOf("routes", "deep"), IncludeHelper("resource_ref") >>
         [] n = View("HTTPRoute", "") ->      \* HTTPRoute.tmpl:86
              << RenderOf("backends", "deep") >>
         [] n = View("VolumeSnapshot", "") -> \* VolumeSnapshot.tmpl:46
              << IncludeKind("VolumeSnapshotContent", "snapshot", "deep") >>
         [] n = View("VolumeSnapshotContent", "") ->
              << IncludeKind("VolumeSnapshot", "snapshot", "deep") >>
         [] n = DefaultResource ->            \* managed_resource_line, owners
              << RenderOf("composed", "deep"), SummaryOf("composed", "not deep"),
                 RenderOf("owners", "owners") >>
         [] n = View("application_details", "") ->
              << StaticHelper("custom_application_details") >>
         [] n \in {Summary("Service", ""), Summary("Pod", "")} ->
              << StaticHelper("resource_ref") >>
         [] n = GenericSummary -> << IncludeHelper("resource_ref") >>
         [] OTHER -> << >>]

\* What the user's own templates do.
User ==
    [n \in MCEmbedded \cup MCOverlay |->
       CASE n = View("Service", "") ->
              << StaticHelper("my_helper"), RenderOf("routes", "deep") >>
         [] n = View("Widget", "example.io") ->
              << IncludeHelper("my_helper"), RenderOf("composed", "deep"),
                 IncludeHelper("generic_health_summary") >>
         [] n = Summary("Widget", "") -> << StaticHelper("resource_ref") >>
         [] OTHER -> << >>]

MCBody == [builtin |-> Builtin, overlay |-> User]

MCMayFail == {View("Service", ""), Summary("Widget", "")}

Plain == [deep |-> FALSE, owners |-> FALSE, shallow |-> FALSE, local |-> FALSE,
          short |-> FALSE, watch |-> FALSE, watching |-> FALSE]

\* complete() switches every --include-* flag on with --deep and off with
\* --shallow.
MCConfigs ==
    {[Plain EXCEPT !.watch = w, !.short = s] : w, s \in BOOLEAN}
      \cup {[Plain EXCEPT !.deep = TRUE, !.owners = TRUE, !.watch = w, !.short = s] : w, s \in BOOLEAN}
      \cup {[Plain EXCEPT !.deep = TRUE, !.owners = TRUE, !.local = TRUE],
            [Plain EXCEPT !.shallow = TRUE]}

-----------------------------------------------------------------------------
\* Two custom resources without a template of their own, the first composing
\* the second, as a Crossplane composite resource and a managed resource do.
XRObjects == {"xr", "managed"}
XRKindOf  == [xr |-> "XBucket", managed |-> "Bucket"]
XRGroupOf == [o \in XRObjects |-> "example.io"]
XRRel     == [services |-> [o \in XRObjects |-> {}], routes   |-> [o \in XRObjects |-> {}],
              backends |-> [o \in XRObjects |-> {}], snapshot |-> [o \in XRObjects |-> {}],
              composed |-> [xr |-> {"managed"}, managed |-> {}],
              owners   |-> [xr |-> {}, managed |-> {"xr"}]]
XRConfigs == {[Plain EXCEPT !.deep = TRUE, !.owners = TRUE]}

=============================================================================
