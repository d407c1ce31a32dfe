----------------------------- MODULE MCWfiWait ------------------------------
(***************************************************************************)
(* WfiWait for TLC.  test_timers runs its four phases with the four timer  *)
(* interrupts (mie bits 7, 16, 17, 18); test_gpio_ao runs one phase with  *)
(* the fast GPIO 1 interrupt.  Two executions of a handler per source are *)
(* enough to see a handler that fires again.                              *)
(***************************************************************************)
EXTENDS WfiWait

MCTimerSources == <<"timer_0", "fast_timer_1", "fast_timer_2", "fast_timer_3">>
MCGpioSources == <<"fast_gpio_1">>
MCMaxServed == 2
MCBoth == {"timers", "gpio"}
MCTimers == {"timers"}
MCGpio == {"gpio"}
MCBothBuilds == {TRUE, FALSE}
MCSourcesOf == [p \in {"timers", "gpio"} |->
                  IF p = "timers" THEN MCTimerSources ELSE MCGpioSources]
=============================================================================
