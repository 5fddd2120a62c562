-------------------------- MODULE ControlMsgCorrect --------------------------
(***************************************************************************)
(* What the control messages of sendmsg and recvmsg must be: the lists of  *)
(* messages in the two layouts, and the channel the two calls implement.   *)
(***************************************************************************)
EXTENDS ControlMsg, SequencesExt

(* The messages of a host buffer, and the descriptors they carry.          *)
HostList(buf, len) ==
    LET from[o \in 0..len + 7] ==
          IF ~HostMsgAt(buf, len, o) THEN <<>>
          ELSE <<[type |-> HostWord(buf, o + 12), data |-> HostData(buf, o)]>>
               \o from[HostNext(buf, o)]
    IN  from[0]
Rights(list) ==
    FlattenSeq([k \in DOMAIN list |-> IF list[k].type = SCM_RIGHTS THEN list[k].data ELSE <<>>])

(* The messages of a program's control buffer, as the CMSG macros of its C *)
(* library walk it.                                                        *)
UserList(mem, control, len) ==
    LET from[a \in control..control + len] ==
          LET size == FromUser(mem, a)
          IN  IF a + EmHeader > control + len THEN <<>>
              ELSE IF size < EmHeader \/ a + Align(size, 4) > control + len THEN <<>>
              ELSE <<[type |-> FromUser(mem, a + 8),
                      data |-> [k \in 1..(size - EmHeader) \div 4 |-> FromUser(mem, a + 8 + 4 * k)]]>>
                   \o from[a + Align(size, 4)]
    IN  IF control = 0 THEN <<>> ELSE from[control]

(* copy_cmsg: the two walks agree.  The buffer the kernel is given holds   *)
(* the messages of the program, all of them, in order and with their data, *)
(* whatever the two layouts do to their places.                            *)
SentAsGiven ==
    snd.pc = "sys" =>
        HostList(snd.buf, 4 * Len(snd.buf)) = UserList(snd.mem, snd.em.control, snd.em.controllen)

(* The calls as MessageChannel sees them: sendmsg takes effect when the    *)
(* kernel accepts the host's buffer, recvmsg when the program can read its *)
(* own, within the length it is told.                                      *)
Channel == INSTANCE MessageChannel WITH
    given <- IF snd.pc \in {"idle", "aborted"} THEN <<>>
             ELSE <<Rights(UserList(snd.mem, snd.em.control, snd.em.controllen))>>,
    queue <- IF rcv.pc = "write" THEN <<rcv.fds>> \o socket ELSE socket,
    received <- IF rcv.pc # "done" THEN <<>>
                ELSE <<Rights(UserList(rcv.mem, rcv.em.control, rcv.em.controllen))>>,
    stopped <- "aborted" \in {snd.pc, rcv.pc}

(* sendmsg and recvmsg implement the channel: no descriptor is added, lost *)
(* from the middle, reordered or taken from another message, and nothing   *)
(* the program had in its buffer before looks like a received descriptor.  *)
(* Where credentials leave no room, no descriptor is received.             *)
ImplementsChannel == Channel!Spec
=============================================================================
