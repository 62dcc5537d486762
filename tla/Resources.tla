------------------------------ MODULE Resources ------------------------------
(***************************************************************************)
(* Three bounded resources of the server that every handler shares: the    *)
(* stored forecasts (api/forecast_store.go), the filter lists and the      *)
(* copies jobs take of them (api/filters.go), and the rate limiter         *)
(* (api/ratelimit.go).  Each call under a lock is a step; what a handler   *)
(* does between two locks interleaves with the other handlers.             *)
(***************************************************************************)
EXTENDS Selections, FiniteSetsExt

CONSTANTS Owners,        \* jobs that ask for forecasts
          MaxForecasts,  \* 2000 in the code
          Lifetimes,     \* the expires_in of requests
          MaxPosts,      \* bound: forecasts asked for
          Lists,         \* the ids of filter lists
          Items,         \* the values of filter lists, integers
          MaxFilters,    \* 1000 in the code
          MaxItems,      \* 100000 in the code
          MaxPuts,       \* bound: PUTs of filter lists
          Scopes,        \* the lists the rules of a job name, in their order
          Rates,         \* <<rate, burst>> of limiters, in parts of Whole for a unit of time
          Whole,         \* one request costs Whole tokens
          MaxInstant     \* bound: the clock

\* A limiter is made for a positive rate only (WithRateLimit).
ASSUME StoresAssumption ==
    /\ MaxForecasts \in Nat /\ MaxFilters \in Nat /\ MaxItems \in Nat
    /\ Lifetimes \subseteq Int /\ Items \subseteq Int /\ Scopes \in Seq(Lists)
    /\ Rates \subseteq Nat /\ Whole \in Nat

VARIABLES forecasts, filters, limiter
forecastVars == <<forecasts>>
filterVars   == <<filters>>
limiterVars  == <<limiter>>

Dropped(f, keys)    == [k \in DOMAIN f \ keys |-> f[k]]
Stored(f, k, v)     == [x \in DOMAIN f \cup {k} |-> IF x = k THEN v ELSE f[x]]

-----------------------------------------------------------------------------
(* Forecasts.  POST takes an id, computes the bands outside the lock, and  *)
(* puts the forecast, which replaces those of the same job.                *)

ForecastsInit ==
    forecasts = [items |-> <<>>, seq |-> 0, posting |-> {}, owed |-> {}, now |-> 0, shown |-> {}]

Expired(f) == forecasts.now > f.expires

(* createForecast up to nextID *)
PostForecast(job, life) ==
    /\ forecasts.seq < MaxPosts
    /\ forecasts' = [forecasts EXCEPT !.seq = @ + 1,
                       !.posting = @ \cup {[id |-> forecasts.seq + 1, job |-> job,
                                            expires |-> forecasts.now + life]},
                       !.shown = {}]

(* put: at the limit only a job that has one may put another; those that   *)
(* expired count until they are listed.                                    *)
PutForecast(f) ==
    LET same == {id \in DOMAIN forecasts.items : forecasts.items[id].job = f.job}
        full == same = {} /\ Cardinality(DOMAIN forecasts.items) >= MaxForecasts IN
    /\ f \in forecasts.posting
    /\ forecasts' = [forecasts EXCEPT
                       !.posting = @ \ {f}, !.shown = {},
                       !.items = IF full THEN @ ELSE Stored(Dropped(@, same), f.id, f),
                       !.owed = IF full THEN @ ELSE {o \in @ : o.job # f.job} \cup {f}]

(* list drops what expired and shows the rest; get does so for one id.     *)
ReadForecasts(ids) ==
    LET gone == {id \in DOMAIN forecasts.items \cap ids : Expired(forecasts.items[id])} IN
    forecasts' = [forecasts EXCEPT
                    !.items = Dropped(@, gone),
                    !.shown = {forecasts.items[id] : id \in (DOMAIN forecasts.items \cap ids) \ gone}]

DeleteForecast(id) ==
    /\ id \in DOMAIN forecasts.items
    /\ forecasts' = [forecasts EXCEPT !.items = Dropped(@, {id}), !.shown = {},
                                      !.owed = {o \in @ : o.id # id}]

ForecastClock ==
    /\ forecasts.now < MaxInstant
    /\ forecasts' = [forecasts EXCEPT !.now = @ + 1, !.shown = {}]

ForecastsNext ==
    \/ \E j \in Owners, l \in Lifetimes : PostForecast(j, l)
    \/ \E f \in forecasts.posting : PutForecast(f)
    \/ ReadForecasts(DOMAIN forecasts.items)
    \/ \E id \in DOMAIN forecasts.items : ReadForecasts({id}) \/ DeleteForecast(id)
    \/ ForecastClock

-----------------------------------------------------------------------------
(* Filter lists *)

(* normalizeFilter: the first MaxItems distinct values, sorted             *)
FirstValues(values) ==
    {values[i] : i \in {i \in DOMAIN values :
                          Cardinality({values[j] : j \in 1..i - 1}) < MaxItems}}
Normalized(values) == Ascending(FirstValues(values))

Bodies == UNION {[1..n -> Items] : n \in 0..MaxItems + 1}

FiltersInit ==
    filters = [items |-> <<>>, puts |-> 0, waiting |-> {}, reply |-> <<>>,
               resolving |-> <<>>, copied |-> <<>>, saved |-> <<>>, spans |-> <<>>]

(* What every list held at each moment since the job began to resolve its  *)
(* scopes: only for the property                                           *)
Noted(f) == IF f.resolving = <<>> THEN f
            ELSE [f EXCEPT !.spans = [l \in Lists |->
                    @[l] \cup {IF l \in DOMAIN f.items THEN f.items[l] ELSE <<-1>>}]]

(* PUT: the put, and its answer, which is read by a get of its own         *)
PutFilter(id, values) ==
    /\ filters.puts < MaxPuts
    /\ LET full == id \notin DOMAIN filters.items
                   /\ Cardinality(DOMAIN filters.items) >= MaxFilters IN
       filters' = Noted([filters EXCEPT
                     !.puts = @ + 1,
                     !.items = IF full THEN @ ELSE Stored(@, id, Normalized(values)),
                     !.waiting = IF full THEN @ ELSE @ \cup {id}])

AnswerPut(id) ==
    /\ id \in filters.waiting
    /\ filters' = [filters EXCEPT !.waiting = @ \ {id},
                     !.reply = IF id \in DOMAIN filters.items THEN filters.items[id] ELSE <<>>]

DeleteFilter(id) ==
    /\ id \in DOMAIN filters.items
    /\ filters' = Noted([filters EXCEPT !.items = Dropped(@, {id})])

(* resolveFilters, when a job is registered: each list is copied under the *)
(* store's lock, one at a time; one that is missing is left unresolved.    *)
StartResolving ==
    /\ filters.resolving = <<>> /\ filters.copied = <<>> /\ Scopes # <<>>
    /\ filters' = Noted([filters EXCEPT !.resolving = Scopes, !.spans = [l \in Lists |-> {}]])

ResolveScope ==
    /\ filters.resolving # <<>>
    /\ LET id == Head(filters.resolving) IN
       filters' = [filters EXCEPT
                     !.resolving = Tail(@),
                     !.copied = Stored(@, id, IF id \in DOMAIN filters.items
                                              THEN filters.items[id] ELSE <<-1>>)]

(* snapshot for the state file; load at a start: as many lists as allowed  *)
SaveFilters == filters' = [filters EXCEPT !.saved = filters.items]

LoadFilters ==
    /\ filters.resolving = <<>> /\ filters.waiting = {}
    /\ \E kept \in SUBSET DOMAIN filters.saved :
          /\ Cardinality(kept) = Min({MaxFilters, Cardinality(DOMAIN filters.saved)})
          /\ filters' = [filters EXCEPT !.items = [id \in kept |-> Normalized(filters.saved[id])]]

FiltersNext ==
    \/ \E id \in Lists, values \in Bodies : PutFilter(id, values)
    \/ \E id \in Lists : AnswerPut(id) \/ DeleteFilter(id)
    \/ StartResolving \/ ResolveScope \/ SaveFilters \/ LoadFilters

-----------------------------------------------------------------------------
(* The token bucket.  WithRateLimit and newRateLimiter: a burst of twice   *)
(* the rate, and of at least one request.                                  *)
NewLimiter(rate) ==
    LET burst == IF 2 * rate < Whole THEN Whole ELSE 2 * rate IN
    [rate |-> rate, burst |-> burst, tokens |-> burst, last |-> -1, now |-> 0, passed |-> <<>>]

LimiterInit == limiter = [rate |-> 0]

MakeLimiter(rate) == limiter.rate = 0 /\ rate > 0 /\ limiter' = NewLimiter(rate)

AllowRefilling ==   \* faulty variant: a refusal leaves the time of the last refill
    /\ limiter.rate > 0 /\ Len(limiter.passed) < MaxPosts + 2
    /\ LET last == IF limiter.last < 0 THEN limiter.now ELSE limiter.last
           tokens == Min({limiter.burst, limiter.tokens + limiter.rate * (limiter.now - last)}) IN
       limiter' = IF tokens < Whole THEN [limiter EXCEPT !.tokens = tokens]
                  ELSE [limiter EXCEPT !.last = limiter.now, !.tokens = tokens - Whole,
                                       !.passed = Append(@, limiter.now)]

Allow ==
    /\ limiter.rate > 0 /\ Len(limiter.passed) < MaxPosts + 2
    /\ LET last == IF limiter.last < 0 THEN limiter.now ELSE limiter.last
           tokens == Min({limiter.burst, limiter.tokens + limiter.rate * (limiter.now - last)}) IN
       limiter' = [limiter EXCEPT !.last = limiter.now,
                     !.tokens = IF tokens >= Whole THEN tokens - Whole ELSE tokens,
                     !.passed = IF tokens >= Whole THEN Append(@, limiter.now) ELSE @]

LimiterClock ==
    /\ limiter.rate > 0 /\ limiter.now < 2 * MaxInstant
    /\ limiter' = [limiter EXCEPT !.now = @ + 1]

LimiterNext == (\E r \in Rates : MakeLimiter(r)) \/ Allow \/ LimiterClock

-----------------------------------------------------------------------------
(* However POSTs overlap: a job has one forecast, the limit holds, nobody  *)
(* is shown one past its expiry, and one that was answered 201 is there    *)
(* until it expires, is deleted, or the job's next one takes its place.    *)
ForecastsKept ==
    /\ Cardinality(DOMAIN forecasts.items) <= MaxForecasts
    /\ \A a, b \in DOMAIN forecasts.items : forecasts.items[a].job = forecasts.items[b].job => a = b
    /\ \A f \in forecasts.shown : forecasts.now <= f.expires
    /\ \A f \in forecasts.owed :
         ~Expired(f) => f.id \in DOMAIN forecasts.items /\ forecasts.items[f.id] = f

(* Filter lists stay within their bounds, sorted and without repetition,   *)
(* through any order of PUT, DELETE, save and load; what a job copied of   *)
(* a list is what the list held at some moment while the job was being     *)
(* registered, and no later change reaches it.                             *)
FiltersStand ==
    /\ Cardinality(DOMAIN filters.items) <= MaxFilters
    /\ \A id \in DOMAIN filters.items :
         LET v == filters.items[id] IN
         Len(v) <= MaxItems /\ \A i \in 1..Len(v) - 1 : v[i] < v[i + 1]
    /\ \A id \in DOMAIN filters.copied : filters.copied[id] \in filters.spans[id]

(* What a token bucket is for: between any two requests that passed, no    *)
(* more passed than the burst and what the rate added meanwhile.           *)
RateKept ==
    limiter.rate > 0 =>
      \A i, j \in DOMAIN limiter.passed :
         i <= j => Whole * (j - i + 1) <= limiter.burst
                       + limiter.rate * (limiter.passed[j] - limiter.passed[i])
=============================================================================
