---------------------------- MODULE PortForward ----------------------------
(***************************************************************************)
(* One SSH connection after its login (AcceptInboundConnection): the loop  *)
(* over its requests and channels, the listeners opened for remote port    *)
(* forwarding, the goroutine that accepts on each, and the two goroutines  *)
(* that copy between a TCP connection and its SSH channel, for a forwarded *)
(* and for a direct connection.                                            *)
(***************************************************************************)
EXTENDS Integers, Sequences, FiniteSets, TLC

CONSTANTS BindAddrs,   \* what a client may ask to listen on: <<host, port>>, port 0 for any
          FreePorts,   \* external: ports that the system may choose for port 0
          MaxListeners,\* bound: listeners opened in the life of the connection
          MaxTunnels   \* bound: TCP connections tunnelled in the life of the connection

ASSUME PortForwardAssumption == \A a \in BindAddrs : a[2] \notin FreePorts

VARIABLES serving,    \* AcceptInboundConnection: "loop", "closing", "done"; "lost" on a crash
          mayForward, \* FullFunc and the user's permission
          listeners,  \* listeners[l]: addr asked for, port, whether open, its goroutine
          forwards,   \* forwardHandler.forwards: the listener of each address
          visited,    \* addresses that the closing loop has been through
          tunnels     \* tunnels[t]: the two ends and the two copying goroutines

forwardVars == <<serving, mayForward, listeners, forwards, visited, tunnels>>

ForwardInit ==
  /\ serving = "loop" /\ mayForward \in BOOLEAN
  /\ listeners = << >> /\ forwards = << >> /\ visited = {} /\ tunnels = << >>

Runs == serving # "lost"
Listening == {listeners[l].port : l \in {k \in DOMAIN listeners : listeners[k].open}}
Set(f, k, v) == (k :> v) @@ f

-----------------------------------------------------------------------------
(* The loop over requests and channels.                                    *)

\* net.Listen: a port of one's own, if nothing listens there.
Bindable(addr) == (IF addr[2] = 0 THEN FreePorts ELSE {addr[2]}) \ Listening

\* A request that is refused or fails is answered, and changes nothing.
tcpipForward(addr) ==
  /\ serving = "loop" /\ mayForward /\ Len(listeners) < MaxListeners
  /\ \E port \in Bindable(addr) :
       listeners' = Append(listeners, [addr |-> addr, port |-> port, open |-> TRUE, at |-> "accept"])
  /\ forwards' = Set(forwards, addr, Len(listeners'))
  /\ UNCHANGED <<serving, mayForward, visited, tunnels>>

Tunnel(kind) == [kind |-> kind, tcp |-> TRUE, ch |-> TRUE, up |-> "copy", down |-> "copy"]

\* iterChans on direct-tcpip: HandleDirectTCPIP dials, accepts the channel and copies; if
\* either fails nothing is left of it.
directTcpip ==
  /\ serving = "loop" /\ mayForward /\ Len(tunnels) < MaxTunnels
  /\ tunnels' = Append(tunnels, Tunnel("direct"))
  /\ UNCHANGED <<serving, mayForward, listeners, forwards, visited>>

\* A direct channel that is not allowed, an unknown type of channel, a channel that
\* cannot be accepted, or the end of the connection end the loop, and with it the connection.
loopEnds ==
  /\ serving = "loop"
  /\ serving' = "closing"
  /\ UNCHANGED <<mayForward, listeners, forwards, visited, tunnels>>

Closed(l) == [listeners EXCEPT ![l].open = FALSE]

\* Mutant: only the first listener of the table is closed.
closeForwardsOne ==
  /\ serving = "closing"
  /\ \/ \E addr \in DOMAIN forwards :
          listeners' = Closed(forwards[addr]) /\ visited' = DOMAIN forwards /\ serving' = "done"
     \/ forwards = << >> /\ serving' = "done" /\ UNCHANGED <<listeners, visited>>
  /\ UNCHANGED <<mayForward, forwards, tunnels>>

\* "Done close all port forwarding": the table is read without its lock, while the
\* goroutines of the listeners that were just closed delete from it.  The iteration may
\* meet a deletion in progress, which ends the process.
closeForwards ==
  /\ serving = "closing"
  /\ \/ \E addr \in DOMAIN forwards \ visited :
          listeners' = Closed(forwards[addr]) /\ visited' = visited \cup {addr} /\ UNCHANGED serving
     \/ DOMAIN forwards \subseteq visited /\ serving' = "done" /\ UNCHANGED <<listeners, visited>>
     \/ /\ \E l \in DOMAIN listeners : listeners[l].at = "delete"
        /\ serving' = "lost" /\ UNCHANGED <<listeners, visited>>
  /\ UNCHANGED <<mayForward, forwards, tunnels>>

-----------------------------------------------------------------------------
(* The goroutine of a listener.                                            *)

\* Accept, OpenChannel and the copying goroutines; if OpenChannel fails the TCP
\* connection is closed.  It fails once the connection is over.
accept(l) ==
  /\ Runs /\ listeners[l].at = "accept" /\ listeners[l].open
  /\ serving = "loop" /\ Len(tunnels) < MaxTunnels
  /\ tunnels' = Append(tunnels, Tunnel("forwarded"))
  /\ UNCHANGED <<serving, mayForward, listeners, forwards, visited>>

\* Accept fails when the listener is closed, or when the process is out of descriptors;
\* the goroutine does not close the listener.
acceptFails(l) ==
  /\ Runs /\ listeners[l].at = "accept"
  /\ listeners' = [listeners EXCEPT ![l].at = "delete"]
  /\ UNCHANGED <<serving, mayForward, forwards, visited, tunnels>>

\* The entry of its address is deleted, whichever listener it belongs to by now.
deleteForward(l) ==
  /\ Runs /\ listeners[l].at = "delete"
  /\ listeners' = [listeners EXCEPT ![l].at = "gone"]
  /\ forwards' = [a \in DOMAIN forwards \ {listeners[l].addr} |-> forwards[a]]
  /\ UNCHANGED <<serving, mayForward, visited, tunnels>>

-----------------------------------------------------------------------------
(* Copying.  up copies from the TCP connection to the channel, down back.  *)

\* External: either end goes away; the end of the SSH connection takes every channel along.
endGoes(t) ==
  /\ Runs
  /\ \/ tunnels[t].tcp /\ tunnels' = [tunnels EXCEPT ![t].tcp = FALSE]
     \/ tunnels[t].ch /\ tunnels' = [tunnels EXCEPT ![t].ch = FALSE]
  /\ UNCHANGED <<serving, mayForward, listeners, forwards, visited>>

connectionGone(t) ==
  /\ serving = "done" /\ tunnels[t].ch
  /\ tunnels' = [tunnels EXCEPT ![t].ch = FALSE]
  /\ UNCHANGED <<serving, mayForward, listeners, forwards, visited>>

\* The end that a goroutine reads is over.
EndRead(t, dir) == IF dir = "up" THEN ~tunnels[t].tcp ELSE ~tunnels[t].ch

\* io.Copy returns when the end it reads is over or when what it writes fails; the
\* deferred calls close both ends.
copyEnds(t, dir) ==
  /\ Runs /\ tunnels[t][dir] = "copy" /\ ~(tunnels[t].tcp /\ tunnels[t].ch)
  /\ tunnels' = [tunnels EXCEPT ![t] = [@ EXCEPT !.tcp = FALSE, !.ch = FALSE, ![dir] = "over"]]
  /\ UNCHANGED <<serving, mayForward, listeners, forwards, visited>>

-----------------------------------------------------------------------------
Dirs == {"up", "down"}

ForwardNext ==
  \/ \E addr \in BindAddrs : tcpipForward(addr)
  \/ directTcpip \/ loopEnds \/ closeForwards
  \/ \E l \in DOMAIN listeners : accept(l) \/ acceptFails(l) \/ deleteForward(l)
  \/ \E t \in DOMAIN tunnels : endGoes(t) \/ connectionGone(t) \/ \E d \in Dirs : copyEnds(t, d)

\* What a goroutine does by itself: it returns when the end it reads is over.  That there
\* is something to write to a closed end is not assumed.
copying(t) ==
  /\ t \in DOMAIN tunnels
  /\ connectionGone(t) \/ \E d \in Dirs : EndRead(t, d) /\ copyEnds(t, d)

-----------------------------------------------------------------------------
\* No other request was for the address of l, which port 0 would allow.
Alone(l) == \A k \in DOMAIN listeners : k # l => listeners[k].addr # listeners[l].addr

\* The table has every listener that is open and accepts, as long as no two requests
\* name the same address; so the loop that closes what the table holds at the
\* end of the connection leaves none of them open, although goroutines delete from the
\* table meanwhile.
OpenListenersAreKnown ==
  \A l \in DOMAIN listeners :
    listeners[l].open /\ listeners[l].at = "accept" /\ Alone(l) =>
      /\ listeners[l].addr \in DOMAIN forwards /\ forwards[listeners[l].addr] = l
      /\ serving # "done"

Drained(t) ==
  /\ t \in DOMAIN tunnels
  /\ tunnels[t].up = "over" /\ tunnels[t].down = "over" /\ ~tunnels[t].tcp /\ ~tunnels[t].ch

\* When one end of a tunnel goes away, or the connection ends, both goroutines return
\* and the other end is closed.
TunnelsDrain ==
  \A t \in 1..MaxTunnels :
    (t \in DOMAIN tunnels /\ (~tunnels[t].tcp \/ ~tunnels[t].ch \/ serving = "done")) ~>
      (serving = "lost" \/ Drained(t))
=============================================================================
