---------------------------- MODULE VendorSchema ----------------------------
(***************************************************************************)
(* The vendor's list of configuration fields: fetched once, cached for all *)
(* panels, and dropped when the connection comes back, since by then the   *)
(* server may be another.                                                  *)
(*                                                                         *)
(* What the WebSocket client does is WsClient's business and taken from    *)
(* there: a call with no open connection is rejected at once, calls still  *)
(* waiting when the connection closes are rejected, a call may time out,   *)
(* and onReconnect is called on every opening but the first.               *)
(***************************************************************************)
EXTENDS Naturals

CONSTANT MaxServers   \* bound: times the connection opens

ASSUME SchemaAssumption == MaxServers \in Nat \ {0}

NoSchema == 0
Fallback == MaxServers + 1   \* { vendor: 'unknown', fields: [] }
NoFetch  == 0

VARIABLES
  link,           \* "never" open yet, "open" or "closed"
  server,         \* the server of the last connection, and its schema
  cachedSchema, schemaPromise, schemaEpoch,
  lastFetch,      \* calls of vendor.getConfigSchema made
  fetches,        \* those on their way
  mounted,        \* a VendorConfigPanel is on show
  schema,         \* the schema it shows
  awaited         \* the fetches whose answer it will show

schemaVars == <<link, server, cachedSchema, schemaPromise, schemaEpoch,
                lastFetch, fetches, mounted, schema, awaited>>

SchemaInit ==
  /\ link = "never" /\ server = 0
  /\ cachedSchema = NoSchema /\ schemaPromise = NoFetch /\ schemaEpoch = 0
  /\ lastFetch = 0 /\ fetches = {}
  /\ mounted = FALSE /\ schema = NoSchema /\ awaited = {}

-----------------------------------------------------------------------------
(* fetchVendorSchema, when there is no schema in the cache.  A promise may *)
(* be there already; without a connection its call fails at once.          *)

FetchAndShow ==
  \/ /\ schemaPromise # NoFetch
     /\ awaited' = awaited \union {schemaPromise}
     /\ UNCHANGED <<cachedSchema, schemaPromise, lastFetch, fetches>>
     /\ schema' = NoSchema
  \/ /\ schemaPromise = NoFetch /\ link = "open"
     /\ lastFetch' = lastFetch + 1
     /\ schemaPromise' = lastFetch + 1
     /\ fetches' = fetches \union {[no |-> lastFetch + 1,
                                    launchedAt |-> schemaEpoch]}
     /\ awaited' = awaited \union {lastFetch + 1}
     /\ schema' = NoSchema
     /\ UNCHANGED cachedSchema
  \/ /\ schemaPromise = NoFetch /\ link # "open"
     /\ lastFetch' = lastFetch + 1
     /\ schemaPromise' = lastFetch + 1
     /\ cachedSchema' = Fallback
     /\ schema' = Fallback
     /\ UNCHANGED <<fetches, awaited>>

\* useVendorSchema mounts and unmounts with the panel
MountSchema ==
  /\ ~mounted /\ mounted' = TRUE
  /\ IF cachedSchema # NoSchema
     THEN /\ schema' = cachedSchema
          /\ UNCHANGED <<cachedSchema, schemaPromise, lastFetch, fetches,
                         awaited>>
     ELSE FetchAndShow
  /\ UNCHANGED <<link, server, schemaEpoch>>

UnmountSchema ==
  /\ mounted /\ mounted' = FALSE
  /\ schema' = NoSchema /\ awaited' = {}
  /\ UNCHANGED <<link, server, cachedSchema, schemaPromise, schemaEpoch,
                 lastFetch, fetches>>

-----------------------------------------------------------------------------
(* How a fetch ends.                                                       *)

\* then, and catch with the fallback: the fetches in fs give result
Resolve(fs, result) ==
  /\ fetches' = fetches \ fs
  /\ cachedSchema' = IF \E f \in fs : f.launchedAt = schemaEpoch
                     THEN result ELSE cachedSchema
  /\ LET told == {f \in fs : f.no \in awaited} IN
     /\ awaited' = awaited \ {f.no : f \in told}
     /\ schema' =
          CASE told = {} -> schema
            [] \E f \in told : f.launchedAt = schemaEpoch \/ result = Fallback
                 -> result
            [] OTHER -> IF cachedSchema # NoSchema THEN cachedSchema ELSE result

SchemaAnswered(f) ==
  /\ Resolve({f}, server)
  /\ UNCHANGED <<link, server, schemaPromise, schemaEpoch, lastFetch, mounted>>

\* an error, or no answer in time
SchemaFails(f) ==
  /\ Resolve({f}, Fallback)
  /\ UNCHANGED <<link, server, schemaPromise, schemaEpoch, lastFetch, mounted>>

-----------------------------------------------------------------------------
(* The connection.                                                         *)

FirstOpen ==
  /\ link = "never"
  /\ link' = "open" /\ server' = 1
  /\ UNCHANGED <<cachedSchema, schemaPromise, schemaEpoch, lastFetch, fetches,
                 mounted, schema, awaited>>

LinkCloses ==
  /\ link = "open"
  /\ link' = "closed"
  /\ IF fetches = {} THEN UNCHANGED <<fetches, cachedSchema, awaited, schema>>
                     ELSE Resolve(fetches, Fallback)
  /\ UNCHANGED <<server, schemaPromise, schemaEpoch, lastFetch, mounted>>

\* MUTANT of Refetch: panels on show are not told
Refetch_none ==
  /\ schemaPromise' = NoFetch
  /\ UNCHANGED <<lastFetch, fetches, awaited, schema>>

\* the subscriber of a panel on show clears its schema and fetches
Refetch ==
  IF mounted
  THEN /\ schema' = NoSchema
       /\ lastFetch' = lastFetch + 1
       /\ schemaPromise' = lastFetch + 1
       /\ fetches' = fetches \union {[no |-> lastFetch + 1,
                                      launchedAt |-> schemaEpoch + 1]}
       /\ awaited' = awaited \union {lastFetch + 1}
  ELSE /\ schemaPromise' = NoFetch
       /\ UNCHANGED <<lastFetch, fetches, awaited, schema>>

\* the connection is back: invalidateVendorSchemaCache
Reopen ==
  /\ link = "closed" /\ server < MaxServers
  /\ link' = "open" /\ server' = server + 1
  /\ schemaEpoch' = schemaEpoch + 1
  /\ cachedSchema' = NoSchema
  /\ Refetch
  /\ UNCHANGED mounted

SchemaNext ==
  \/ MountSchema \/ UnmountSchema
  \/ FirstOpen \/ LinkCloses \/ Reopen
  \/ \E f \in fetches : SchemaAnswered(f) \/ SchemaFails(f)

SchemaSpec == SchemaInit /\ [][SchemaNext]_schemaVars

-----------------------------------------------------------------------------
(* Properties.                                                             *)

(* A list of fields that is cached or shown is the one of the server now   *)
(* connected, or the last to be: none survives a reconnect, and no answer  *)
(* asked for before one fills the cache after it.  A panel that shows none *)
(* waits for a fetch that is on its way, and one that waits for none shows *)
(* what is cached.  (PropertiesPanel.tsx 54-59, 68-86)                     *)
SchemaIsCurrent ==
  /\ cachedSchema \in {NoSchema, Fallback, server}
  /\ schema \in {NoSchema, Fallback, server}
  /\ mounted /\ schema = NoSchema =>
       \E f \in fetches : f.no \in awaited /\ f.launchedAt = schemaEpoch
  /\ mounted /\ awaited = {} => schema = cachedSchema
=============================================================================
